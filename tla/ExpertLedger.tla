---------------------------- MODULE ExpertLedger ----------------------------
(***************************************************************************)
(* Credit and compensation for the work of experts: reviews, calibration   *)
(* cases and claim reconstructions (expert_service.py, and service.py for  *)
(* the credit of a review).  How the work comes to be done is left to the  *)
(* other modules; here a task is taken, then completed, and a review may   *)
(* be cancelled before that.                                               *)
(*                                                                         *)
(* Compensation requests are two steps, a read and a commit, because they  *)
(* decide on rows they do not lock.                                        *)
(***************************************************************************)
EXTENDS Integers, Sequences, FiniteSets

CONSTANTS
    Experts,
    Tasks,
    Managers,
    TypeOf,     \* adjudication, calibration or claim_reconstruction
    InFlight,   \* compensation requests between their read and their commit
    Updates,    \* those of them that change the status of a record
    Nobody

TaskTypes == {"adjudication", "calibration", "claim_reconstruction"}

ASSUME ConstantsAssumption ==
    /\ TypeOf \in [Tasks -> TaskTypes]
    /\ InFlight \in Nat /\ Updates \in Nat
    /\ Nobody \notin Experts

VARIABLES
    work,       \* the tasks, whatever table they are in
    consent,    \* public_attribution of the expert's profile
    credits,    \* contribution_credits
    ratesSet,   \* every rate of the compensation schedule is set
    payments,   \* compensation_records, by created_at
    flight      \* compensation requests that have read and not yet committed

vars == <<work, consent, credits, ratesSet, payments, flight>>

Work == [status : {"pending", "claimed", "completed", "cancelled"}, holder : Experts \cup {Nobody}]

PaymentStatus == {"approved", "paid", "cancelled"}
Payment == [task : Tasks, expert : Experts, status : PaymentStatus]

Init ==
    /\ work = [t \in Tasks |-> [status |-> "pending", holder |-> Nobody]]
    /\ consent = [e \in Experts |-> FALSE]
    /\ credits = {}
    /\ ratesSet = FALSE
    /\ payments = << >>
    /\ flight = {}

-----------------------------------------------------------------------------
(* Work and credit *)

Take(e, t) ==
    /\ work[t].status = "pending"
    /\ work' = [work EXCEPT ![t] = [status |-> "claimed", holder |-> e]]
    /\ UNCHANGED <<consent, credits, ratesSet, payments, flight>>

(* A revocation cancels reviews only, and keeps their assignee. *)
Cancel(t) ==
    /\ TypeOf[t] = "adjudication"
    /\ work[t].status \in {"pending", "claimed"}
    /\ work' = [work EXCEPT ![t].status = "cancelled"]
    /\ UNCHANGED <<consent, credits, ratesSet, payments, flight>>

(* What is shown with a credit is the consent at the time it is recorded. *)
RecordCredit(e, t) ==
    credits \cup {[expert |-> e, task |-> t, public |-> consent[e]]}

(* The three submissions: each completes its task and credits it. *)
Complete(e, t) ==
    /\ work[t].status = "claimed" /\ work[t].holder = e
    /\ work' = [work EXCEPT ![t].status = "completed"]
    /\ credits' = RecordCredit(e, t)
    /\ UNCHANGED <<consent, ratesSet, payments, flight>>

UpdateConsent(e) ==
    /\ consent' = [consent EXCEPT ![e] = ~ @]
    /\ UNCHANGED <<work, credits, ratesSet, payments, flight>>

-----------------------------------------------------------------------------
(* Compensation *)

(* The schedule is a file of the deployment; unset rates block the pilot. *)
AdoptRates ==
    /\ ratesSet' = ~ ratesSet
    /\ UNCHANGED <<work, consent, credits, payments, flight>>

AssignedActor(t) == work[t].holder

Record(t) == {k \in DOMAIN payments : payments[k].task = t}

(* Asking again returns the record there is, cancelled or not. *)
ReadCompensation(m, e, t) ==
    /\ Cardinality(flight) < InFlight
    /\ ratesSet
    /\ AssignedActor(t) = e
    /\ work[t].status = "completed"
    /\ Record(t) = {}
    /\ flight' = flight \cup {[kind |-> "create", by |-> m, task |-> t, expert |-> e]}
    /\ UNCHANGED <<work, consent, credits, ratesSet, payments>>

(* Variant: no unique index on (task_type, task_id). *)
CommitCompensationTwice(f) ==
    /\ f.kind = "create"
    /\ payments' = Append(payments, [task |-> f.task, expert |-> f.expert, status |-> "approved"])
    /\ flight' = flight \ {f}
    /\ UNCHANGED <<work, consent, credits, ratesSet>>

(* The unique index on (task_type, task_id) lets one of two requests in. *)
CommitCompensation(f) ==
    /\ f.kind = "create"
    /\ Record(f.task) = {}
    /\ payments' = Append(payments, [task |-> f.task, expert |-> f.expert, status |-> "approved"])
    /\ flight' = flight \ {f}
    /\ UNCHANGED <<work, consent, credits, ratesSet>>

ReadUpdate(k, status) ==
    /\ Cardinality(flight) < InFlight
    /\ Cardinality({f \in flight : f.kind = "update"}) < Updates
    /\ payments[k].status = "approved"
    /\ flight' = flight \cup {[kind |-> "update", record |-> k, status |-> status]}
    /\ UNCHANGED <<work, consent, credits, ratesSet, payments>>

(* The UPDATE names the row by its key alone. *)
CommitUpdate(f) ==
    /\ f.kind = "update"
    /\ payments' = [payments EXCEPT ![f.record].status = f.status]
    /\ flight' = flight \ {f}
    /\ UNCHANGED <<work, consent, credits, ratesSet>>

Abort(f) ==
    /\ flight' = flight \ {f}
    /\ UNCHANGED <<work, consent, credits, ratesSet, payments>>

Next ==
    \/ \E e \in Experts, t \in Tasks : Take(e, t) \/ Complete(e, t)
    \/ \E m \in Managers, e \in Experts, t \in Tasks : ReadCompensation(m, e, t)
    \/ \E t \in Tasks : Cancel(t)
    \/ \E e \in Experts : UpdateConsent(e)
    \/ AdoptRates
    \/ \E k \in DOMAIN payments, s \in {"paid", "cancelled"} : ReadUpdate(k, s)
    \/ \E f \in flight : CommitCompensation(f) \/ CommitUpdate(f) \/ Abort(f)

Spec == Init /\ [][Next]_vars

-----------------------------------------------------------------------------
(* Properties *)

Request == [kind : {"create"}, by : Managers, task : Tasks, expert : Experts]
             \cup [kind : {"update"}, record : Nat, status : PaymentStatus]

(* The tables are well formed. *)
TypeOK ==
    /\ work \in [Tasks -> Work]
    /\ consent \in [Experts -> BOOLEAN]
    /\ credits \subseteq [expert : Experts, task : Tasks, public : BOOLEAN]
    /\ ratesSet \in BOOLEAN
    /\ payments \in Seq(Payment)
    /\ flight \subseteq Request
    /\ \A f \in flight : f.kind = "update" => f.record \in DOMAIN payments

(* Work is credited when and only when it is completed, once, to whoever did it. *)
CreditedOnce ==
    \A t \in Tasks :
        {c.expert : c \in {x \in credits : x.task = t}}
            = IF work[t].status = "completed" THEN {work[t].holder} ELSE {}

(* Compensation follows completed work, one record per task, to whoever did
   it, however many managers approve it at the same time.                  *)
PaidForWork ==
    \A k \in DOMAIN payments :
        /\ work[payments[k].task].status = "completed"
        /\ work[payments[k].task].holder = payments[k].expert
        /\ Record(payments[k].task) = {k}

(* All of this at once: work is paid for once, if it was done, to whoever did it. *)
WorkIsPaidOnce == TypeOK /\ CreditedOnce /\ PaidForWork

(* A payment or a cancellation is final (the service: "compensation status is final"). *)
SettledStaysSettled ==
    [][\A k \in DOMAIN payments :
          payments[k].status # "approved" => payments'[k] = payments[k]]_vars
=============================================================================
