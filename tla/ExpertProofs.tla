----------------------------- MODULE ExpertProofs -----------------------------
(***************************************************************************)
(* Theorems about the expert programme and the review of novel concerns:   *)
(* credit and compensation, the reconstruction of claims, calibration, and *)
(* the settlement of novel concerns, for any number of experts, tasks,     *)
(* intakes, candidates, attempts, managers and requests in flight; and     *)
(* last about Experts, which has them side by side.                        *)
(*                                                                         *)
(* What a request has read and relies on is RequestsBacked and UpdatesFresh*)
(* in the ledger, ReviewsFresh of intakes, OutcomesHold and ReadsHold of   *)
(* attempts, SettlingHolds of candidates.  RecInv ties submissions to      *)
(* completed tasks and keeps the holders of an intake's tasks apart; CalInv*)
(* ties qualifications to finished attempts; NovInv ties the tasks of a    *)
(* candidate, its decisions and what they were determined to mean.         *)
(***************************************************************************)
EXTENDS Experts, SequenceTheorems, FiniteSetTheorems, TLAPS

-----------------------------------------------------------------------------
(* Credit and compensation *)

(* A request to pay has read a completed task of the expert, and a task that is
   completed stays so.                                                         *)
RequestsBacked ==
    \A f \in flight : f.kind = "create" =>
        work[f.task].status = "completed" /\ work[f.task].holder = f.expert

LInv == TypeOK /\ CreditedOnce /\ RequestsBacked /\ PaidForWork

(* What the type invariant says of the requests in flight. *)
LEMMA FlightTypes ==
  ASSUME TypeOK, NEW f \in flight
  PROVE  /\ f \in Request
         /\ f.kind = "create" => f.task \in Tasks /\ f.expert \in Experts
         /\ f.kind = "update" => f.record \in DOMAIN payments /\ f.status \in PaymentStatus
BY DEF TypeOK, Request

LEMMA LedgerInit == Init => LInv
<1> SUFFICES ASSUME Init PROVE LInv
  OBVIOUS
<1>1. TypeOK
  <2>1. work \in [Tasks -> Work]
    BY DEF Init, Work
  <2>2. payments \in Seq(Payment)
    BY DEF Init
  <2> QED BY <2>1, <2>2 DEF Init, TypeOK
<1>2. CreditedOnce /\ RequestsBacked /\ PaidForWork
  BY DEF Init, CreditedOnce, RequestsBacked, PaidForWork
<1> QED BY <1>1, <1>2 DEF LInv

-----------------------------------------------------------------------------
(* Steps on the work: it is credited by the step that completes it. *)

LEMMA WorkStep ==
  ASSUME LInv, NEW t \in Tasks, (\E e \in Experts : Take(e, t) \/ Complete(e, t)) \/ Cancel(t)
  PROVE  LInv'
<1>1. /\ work \in [Tasks -> Work] /\ credits \subseteq [expert : Experts, task : Tasks, public : BOOLEAN]
      /\ consent \in [Experts -> BOOLEAN]
      /\ payments' = payments /\ flight' = flight /\ consent' = consent /\ ratesSet' = ratesSet
      /\ work[t] \in Work
  BY DEF LInv, TypeOK, Take, Complete, Cancel
<1>2. /\ work[t].status # "completed"
      /\ \A u \in Tasks \ {t} : work'[u] = work[u]
      /\ work' \in [Tasks -> Work]
      /\ \/ work'[t].status # "completed" /\ credits' = credits
         \/ \E e \in Experts :
              /\ work'[t].status = "completed" /\ work'[t].holder = e
              /\ credits' = credits \cup {[expert |-> e, task |-> t, public |-> consent[e]]}
  <2>1. ASSUME NEW e \in Experts, Take(e, t)
        PROVE  /\ work[t].status # "completed" /\ \A u \in Tasks \ {t} : work'[u] = work[u]
               /\ work' \in [Tasks -> Work] /\ work'[t].status # "completed" /\ credits' = credits
    BY <1>1, <2>1 DEF Take, Work
  <2>2. ASSUME NEW e \in Experts, Complete(e, t)
        PROVE  /\ work[t].status # "completed" /\ \A u \in Tasks \ {t} : work'[u] = work[u]
               /\ work' \in [Tasks -> Work] /\ work'[t].status = "completed" /\ work'[t].holder = e
               /\ credits' = credits \cup {[expert |-> e, task |-> t, public |-> consent[e]]}
    BY <1>1, <2>2 DEF Complete, RecordCredit, Work
  <2>3. CASE Cancel(t)
    BY <1>1, <2>3 DEF Cancel, Work
  <2> QED BY <2>1, <2>2, <2>3
<1>4. TypeOK'
  <2>1. credits' \subseteq [expert : Experts, task : Tasks, public : BOOLEAN]
    BY <1>1, <1>2
  <2> QED BY <1>1, <1>2, <2>1 DEF LInv, TypeOK
<1>5. CreditedOnce'
  <2> DEFINE of(u) == {c.expert : c \in {x \in credits : x.task = u}}
  <2>1. \A u \in Tasks : of(u) = IF work[u].status = "completed" THEN {work[u].holder} ELSE {}
    BY DEF LInv, CreditedOnce
  <2>2. CASE work'[t].status # "completed" /\ credits' = credits
    BY <1>2, <2>1, <2>2 DEF CreditedOnce
  <2>3. ASSUME NEW e \in Experts, work'[t].status = "completed", work'[t].holder = e,
               credits' = credits \cup {[expert |-> e, task |-> t, public |-> consent[e]]}
        PROVE  CreditedOnce'
    <3> DEFINE new == [expert |-> e, task |-> t, public |-> consent[e]]
    <3>1. new.expert = e /\ new.task = t /\ credits' = credits \cup {new}
      BY <2>3
    <3> HIDE DEF new
    <3>2. \A u \in Tasks \ {t} : {x \in credits' : x.task = u} = {x \in credits : x.task = u}
      BY <3>1
    <3>3. {x \in credits : x.task = t} = {}
      BY <1>2, <2>1
    <3>4. {x \in credits' : x.task = t} = {new}
      BY <3>1, <3>3
    <3>5. ASSUME NEW u \in Tasks
          PROVE  {c.expert : c \in {x \in credits' : x.task = u}}
                   = IF work'[u].status = "completed" THEN {work'[u].holder} ELSE {}
      <4>1. CASE u = t
        BY <2>3, <3>1, <3>4, <4>1
      <4>2. CASE u # t
        BY <1>2, <2>1, <3>2, <4>2
      <4> QED BY <4>1, <4>2
    <3> QED BY <3>5 DEF CreditedOnce
  <2> QED BY <1>2, <2>2, <2>3
<1>6. RequestsBacked'
  <2> SUFFICES ASSUME NEW f \in flight, f.kind = "create"
               PROVE  work'[f.task].status = "completed" /\ work'[f.task].holder = f.expert
    BY <1>1 DEF RequestsBacked
  <2> QED BY <1>2, FlightTypes DEF LInv, RequestsBacked
<1>7. PaidForWork'
  <2>1. ASSUME NEW k \in DOMAIN payments PROVE payments[k].task \in Tasks
    <3>1. payments[k] \in Payment
      BY DEF LInv, TypeOK
    <3> QED BY <3>1 DEF Payment
  <2> QED BY <1>1, <1>2, <2>1 DEF LInv, PaidForWork, Record
<1> QED BY <1>4, <1>5, <1>6, <1>7 DEF LInv

-----------------------------------------------------------------------------
(* Steps on compensation *)

LEMMA ReadStep ==
  ASSUME LInv, NEW m \in Managers, NEW e \in Experts, NEW t \in Tasks, ReadCompensation(m, e, t)
  PROVE  LInv'
<1> DEFINE new == [kind |-> "create", by |-> m, task |-> t, expert |-> e]
<1>1. /\ flight' = flight \cup {new} /\ UNCHANGED <<work, consent, credits, ratesSet, payments>>
      /\ work[t].status = "completed" /\ work[t].holder = e
  BY DEF ReadCompensation, AssignedActor
<1>2. new \in Request /\ new.kind = "create" /\ new.task = t /\ new.expert = e
  BY DEF Request
<1> HIDE DEF new
<1>3. TypeOK'
  BY <1>1, <1>2 DEF LInv, TypeOK
<1>4. RequestsBacked'
  BY <1>1, <1>2 DEF LInv, RequestsBacked
<1> QED BY <1>1, <1>3, <1>4 DEF LInv, CreditedOnce, PaidForWork, Record

LEMMA ReadUpdateStep ==
  ASSUME LInv, NEW k \in DOMAIN payments, NEW s \in {"paid", "cancelled"}, ReadUpdate(k, s)
  PROVE  LInv'
<1> DEFINE new == [kind |-> "update", record |-> k, status |-> s]
<1>1. flight' = flight \cup {new} /\ UNCHANGED <<work, consent, credits, ratesSet, payments>>
  BY DEF ReadUpdate
<1>2. new \in Request /\ new.kind = "update" /\ new.record = k
  BY DEF LInv, TypeOK, Request, PaymentStatus
<1> HIDE DEF new
<1>3. TypeOK'
  BY <1>1, <1>2 DEF LInv, TypeOK
<1>4. RequestsBacked'
  BY <1>1, <1>2 DEF LInv, RequestsBacked
<1> QED BY <1>1, <1>3, <1>4 DEF LInv, CreditedOnce, PaidForWork, Record

LEMMA CommitStep ==
  ASSUME LInv, NEW f \in flight, CommitCompensation(f)
  PROVE  LInv'
<1> DEFINE new == [task |-> f.task, expert |-> f.expert, status |-> "approved"]
<1>1. /\ payments' = Append(payments, new) /\ flight' = flight \ {f}
      /\ UNCHANGED <<work, consent, credits, ratesSet>>
      /\ f.kind = "create" /\ Record(f.task) = {}
  BY DEF CommitCompensation
<1>2. /\ new \in Payment /\ new.task = f.task /\ new.expert = f.expert
      /\ work[f.task].status = "completed" /\ work[f.task].holder = f.expert
  BY <1>1, FlightTypes DEF Payment, PaymentStatus, LInv, RequestsBacked
<1> HIDE DEF new
<1>3. /\ payments \in Seq(Payment) /\ payments' \in Seq(Payment)
      /\ Len(payments) \in Nat /\ DOMAIN payments = 1 .. Len(payments)
      /\ DOMAIN payments' = 1 .. (Len(payments) + 1)
      /\ payments'[Len(payments) + 1] = new
      /\ \A k \in DOMAIN payments : payments'[k] = payments[k]
  BY <1>1, <1>2 DEF LInv, TypeOK
<1>4. TypeOK'
  BY <1>1, <1>3 DEF LInv, TypeOK
<1>5. PaidForWork'
  <2> DEFINE n == Len(payments) + 1
  <2>1. \A k \in DOMAIN payments' : k = n \/ k \in DOMAIN payments
    BY <1>3
  <2>2. n \notin DOMAIN payments /\ n \in DOMAIN payments'
    BY <1>3
  <2>3. DOMAIN payments \subseteq DOMAIN payments' /\ payments'[n] = new
    BY <1>3
  <2> HIDE DEF n
  <2>4. \A k \in DOMAIN payments : payments[k].task # f.task
    BY <1>1 DEF Record
  <2>5. ASSUME NEW k \in DOMAIN payments PROVE Record(payments[k].task)' = {k}
    <3>1. Record(payments[k].task) = {k} /\ payments[k].task # new.task
      BY <1>2, <2>4 DEF LInv, PaidForWork
    <3> QED BY <1>3, <2>1, <2>3, <3>1 DEF Record
  <2>6. Record(new.task)' = {n}
    BY <1>2, <1>3, <2>1, <2>2, <2>3, <2>4 DEF Record
  <2>7. ASSUME NEW k \in DOMAIN payments'
        PROVE  /\ work'[payments'[k].task].status = "completed"
               /\ work'[payments'[k].task].holder = payments'[k].expert
               /\ Record(payments[k].task)' = {k}
    <3>1. CASE k = n
      BY <1>1, <1>2, <2>3, <2>6, <3>1
    <3>2. CASE k \in DOMAIN payments
      BY <1>1, <1>3, <2>5, <3>2 DEF LInv, PaidForWork
    <3> QED BY <2>1, <3>1, <3>2
  <2> QED BY <2>7 DEF PaidForWork, Record
<1> QED BY <1>1, <1>4, <1>5 DEF LInv, CreditedOnce, RequestsBacked

(* An update changes the status of one record. *)
LEMMA UpdateEffect ==
  ASSUME TypeOK, NEW f \in flight, CommitUpdate(f)
  PROVE  /\ f.record \in DOMAIN payments /\ payments' \in Seq(Payment)
         /\ DOMAIN payments' = DOMAIN payments
         /\ \A k \in DOMAIN payments : /\ payments'[k].task = payments[k].task
                                       /\ payments'[k].expert = payments[k].expert
                                       /\ k # f.record => payments'[k] = payments[k]
<1>1. /\ payments \in Seq(Payment) /\ f.record \in DOMAIN payments /\ f.status \in PaymentStatus
      /\ payments' = [payments EXCEPT ![f.record].status = f.status]
  BY FlightTypes DEF TypeOK, CommitUpdate
<1> DEFINE old == payments[f.record]
           new == [old EXCEPT !.status = f.status]
<1>2. old \in Payment
  BY <1>1
<1>3. new \in Payment /\ new.task = old.task /\ new.expert = old.expert
  BY <1>1, <1>2 DEF Payment
<1>4. payments' = [payments EXCEPT ![f.record] = new]
  BY <1>1
<1> HIDE DEF new, old
<1>5. payments' \in Seq(Payment)
  BY <1>1, <1>3, <1>4, ExceptSeq
<1> QED BY <1>1, <1>3, <1>4, <1>5 DEF old

LEMMA CommitUpdateStep ==
  ASSUME LInv, NEW f \in flight, CommitUpdate(f)
  PROVE  LInv'
<1>1. flight' = flight \ {f} /\ UNCHANGED <<work, consent, credits, ratesSet>>
  BY DEF CommitUpdate
<1>2. /\ payments' \in Seq(Payment) /\ DOMAIN payments' = DOMAIN payments
      /\ \A k \in DOMAIN payments : /\ payments'[k].task = payments[k].task
                                    /\ payments'[k].expert = payments[k].expert
  BY UpdateEffect DEF LInv
<1>3. TypeOK'
  BY <1>1, <1>2 DEF LInv, TypeOK
<1>4. PaidForWork'
  <2>1. \A t : Record(t)' = Record(t)
    BY <1>2 DEF Record
  <2> QED BY <1>1, <1>2, <2>1 DEF LInv, PaidForWork
<1> QED BY <1>1, <1>3, <1>4 DEF LInv, CreditedOnce, RequestsBacked

LEMMA LedgerStep == LInv /\ [Next]_vars => LInv'
<1> SUFFICES ASSUME LInv, [Next]_vars PROVE LInv'
  OBVIOUS
<1> USE DEF LInv
<1>1. ASSUME NEW t \in Tasks, (\E e \in Experts : Take(e, t) \/ Complete(e, t)) \/ Cancel(t) PROVE LInv'
  BY <1>1, WorkStep
<1>2. ASSUME NEW m \in Managers, NEW e \in Experts, NEW t \in Tasks, ReadCompensation(m, e, t) PROVE LInv'
  BY <1>2, ReadStep
<1>3. ASSUME NEW e \in Experts, UpdateConsent(e) PROVE LInv'
  BY <1>3 DEF UpdateConsent, TypeOK, CreditedOnce, RequestsBacked, PaidForWork, Record
<1>4. CASE AdoptRates
  BY <1>4 DEF AdoptRates, TypeOK, CreditedOnce, RequestsBacked, PaidForWork, Record
<1>5. ASSUME NEW k \in DOMAIN payments, NEW s \in {"paid", "cancelled"}, ReadUpdate(k, s) PROVE LInv'
  BY <1>5, ReadUpdateStep
<1>6. ASSUME NEW f \in flight, CommitCompensation(f) PROVE LInv'
  BY <1>6, CommitStep
<1>7. ASSUME NEW f \in flight, CommitUpdate(f) PROVE LInv'
  BY <1>7, CommitUpdateStep
<1>8. ASSUME NEW f \in flight, Abort(f) PROVE LInv'
  BY <1>8 DEF Abort, TypeOK, CreditedOnce, RequestsBacked, PaidForWork, Record
<1>9. CASE UNCHANGED vars
  BY <1>9 DEF vars, TypeOK, CreditedOnce, RequestsBacked, PaidForWork, Record
<1> QED BY <1>1, <1>2, <1>3, <1>4, <1>5, <1>6, <1>7, <1>8, <1>9 DEF Next

LEMMA Balanced == Spec => []LInv
BY LedgerInit, LedgerStep, PTL DEF Spec

(* Work is credited once, to whoever did it, and compensated at most once, after it was
   done and to whoever did it, however many managers approve it at the same time
   (request_compensation and its unique index, RecordCredit).                        *)
THEOREM PaidOnce == Spec => []WorkIsPaidOnce
<1>1. LInv => WorkIsPaidOnce
  BY DEF LInv, WorkIsPaidOnce
<1> QED BY <1>1, Balanced, PTL

-----------------------------------------------------------------------------
(* Final payments *)

(* No two requests in flight change the status of the same record. *)
OneUpdatePerRecord ==
    \A f, g \in flight : f.kind = "update" /\ g.kind = "update" /\ f.record = g.record => f = g

(* What an update has read is still so. *)
UpdatesFresh == \A f \in flight : f.kind = "update" => payments[f.record].status = "approved"

Settled == \A k \in DOMAIN payments : payments[k].status # "approved" => payments'[k] = payments[k]

(* What one step does to the records and the updates in flight. *)
LEMMA PaymentsStep ==
  ASSUME LInv, [Next]_vars
  PROVE  \/ /\ payments' = payments
            /\ \A f \in flight' : f \in flight \/ f.kind = "create" \/ payments[f.record].status = "approved"
         \/ /\ flight' \subseteq flight
            /\ \A k \in DOMAIN payments : payments'[k] = payments[k]
         \/ \E f \in flight : CommitUpdate(f)
<1>1. ASSUME NEW f \in flight, CommitCompensation(f)
      PROVE  flight' \subseteq flight /\ \A k \in DOMAIN payments : payments'[k] = payments[k]
  BY <1>1 DEF CommitCompensation, LInv, TypeOK
<1>2. ASSUME NEW m \in Managers, NEW e \in Experts, NEW t \in Tasks, ReadCompensation(m, e, t)
      PROVE  payments' = payments /\ \A f \in flight' : f \in flight \/ f.kind = "create"
  BY <1>2 DEF ReadCompensation
<1>3. ASSUME NEW k \in DOMAIN payments, NEW s \in {"paid", "cancelled"}, ReadUpdate(k, s)
      PROVE  /\ payments' = payments
             /\ \A f \in flight' : f \in flight \/ payments[f.record].status = "approved"
  BY <1>3 DEF ReadUpdate
<1>4. \/ \E m \in Managers, e \in Experts, t \in Tasks : ReadCompensation(m, e, t)
      \/ \E k \in DOMAIN payments, s \in {"paid", "cancelled"} : ReadUpdate(k, s)
      \/ \E f \in flight : CommitCompensation(f) \/ CommitUpdate(f)
      \/ payments' = payments /\ flight' \subseteq flight
  BY DEF Next, Take, Complete, Cancel, UpdateConsent, AdoptRates, Abort, vars
<1> QED BY <1>1, <1>2, <1>3, <1>4

LEMMA FreshStep == LInv /\ OneUpdatePerRecord /\ UpdatesFresh /\ [Next]_vars => UpdatesFresh' /\ Settled
<1> SUFFICES ASSUME LInv, OneUpdatePerRecord, UpdatesFresh, [Next]_vars PROVE UpdatesFresh' /\ Settled
  OBVIOUS
<1>1. \A f \in flight : f.kind = "update" => f.record \in DOMAIN payments
  BY FlightTypes DEF LInv
<1>2. CASE /\ payments' = payments
           /\ \A f \in flight' : f \in flight \/ f.kind = "create" \/ payments[f.record].status = "approved"
  BY <1>2 DEF UpdatesFresh, Settled
<1>3. CASE /\ flight' \subseteq flight
           /\ \A k \in DOMAIN payments : payments'[k] = payments[k]
  BY <1>1, <1>3 DEF UpdatesFresh, Settled
<1>4. ASSUME NEW f \in flight, CommitUpdate(f) PROVE UpdatesFresh' /\ Settled
  <2>1. f.kind = "update" /\ flight' = flight \ {f} /\ payments[f.record].status = "approved"
    BY <1>4 DEF CommitUpdate, UpdatesFresh
  <2>2. \A k \in DOMAIN payments : k # f.record => payments'[k] = payments[k]
    BY <1>4, UpdateEffect DEF LInv
  <2>3. \A g \in flight' : g.kind = "update" => g.record # f.record /\ g \in flight
    BY <2>1 DEF OneUpdatePerRecord
  <2> QED BY <1>1, <2>1, <2>2, <2>3 DEF UpdatesFresh, Settled
<1> QED BY <1>2, <1>3, <1>4, PaymentsStep

(* A payment or a cancellation is final, as long as no two status updates of the same
   record overlap: update_compensation reads the status it decides on without a lock. *)
THEOREM PaymentsAreFinal == Spec /\ []OneUpdatePerRecord => SettledStaysSettled
<1>1. Init => UpdatesFresh
  BY DEF Init, UpdatesFresh
<1>2. LInv /\ OneUpdatePerRecord /\ UpdatesFresh /\ [Next]_vars => UpdatesFresh' /\ [Settled]_vars
  BY FreshStep
<1> QED BY <1>1, <1>2, Balanced, PTL DEF Spec, SettledStaysSettled, Settled

(* The requests in flight that change the status of a record; a set of them with room
   for one is empty or has one.                                                       *)
StatusChanges == {f \in flight : f.kind = "update"}
Alone == IsFiniteSet(StatusChanges) /\ \A f, g \in StatusChanges : f = g

LEMMA AloneStep == ASSUME Updates = 1, Alone, [Next]_vars PROVE Alone'
<1>1. ASSUME StatusChanges' \subseteq StatusChanges PROVE Alone'
  BY <1>1, FS_Subset DEF Alone
<1>2. ASSUME NEW m, NEW e, NEW t, ReadCompensation(m, e, t) PROVE Alone'
  BY <1>1, <1>2 DEF ReadCompensation, StatusChanges
<1>3. ASSUME NEW k, NEW s, ReadUpdate(k, s) PROVE Alone'
  <2> DEFINE new == [kind |-> "update", record |-> k, status |-> s]
  <2>1. Cardinality(StatusChanges) < 1 /\ flight' = flight \cup {new} /\ new.kind = "update"
    BY <1>3 DEF ReadUpdate, StatusChanges
  <2>2. StatusChanges = {}
    BY <2>1, FS_EmptySet, FS_CardinalityType DEF Alone
  <2> HIDE DEF new
  <2>3. StatusChanges' = {new}
    BY <2>1, <2>2 DEF StatusChanges
  <2> QED BY <2>3, FS_Singleton DEF Alone
<1>4. \/ \E m \in Managers, e \in Experts, t \in Tasks : ReadCompensation(m, e, t)
      \/ \E k \in DOMAIN payments, s \in {"paid", "cancelled"} : ReadUpdate(k, s)
      \/ flight' \subseteq flight
  BY DEF Next, Take, Complete, Cancel, UpdateConsent, AdoptRates, CommitCompensation, CommitUpdate,
         Abort, vars
<1>5. flight' \subseteq flight => StatusChanges' \subseteq StatusChanges
  BY DEF StatusChanges
<1> QED BY <1>1, <1>2, <1>3, <1>4, <1>5

(* So it is when status updates are handled one at a time, whatever else is in flight. *)
THEOREM FinalOneAtATime == ASSUME Updates = 1 PROVE Spec => SettledStaysSettled
<1>1. Init => Alone
  <2>1. Init => StatusChanges = {}
    BY DEF Init, StatusChanges
  <2> QED BY <2>1, FS_EmptySet DEF Alone
<1>2. Alone => OneUpdatePerRecord
  BY DEF Alone, StatusChanges, OneUpdatePerRecord
<1>3. Alone /\ [Next]_vars => Alone'
  BY AloneStep
<1> QED BY <1>1, <1>2, <1>3, PaymentsAreFinal, PTL DEF Spec

-----------------------------------------------------------------------------
(* Claim reconstruction: what is stored *)

(* A submission is the work of the holder of its task, who has completed it, and every
   completed task has one.                                                             *)
WorkDone ==
    /\ \A s \in submissions : tasks[s.task] = [status |-> "completed", holder |-> s.expert]
    /\ \A t \in Rec!TaskIds : tasks[t].status = "completed" =>
         [task |-> t, expert |-> tasks[t].holder] \in submissions

HoldersApart ==
    \A t, u \in Rec!TaskIds :
        t[1] = u[1] /\ t # u /\ Rec!Taken(t) /\ Rec!Taken(u) => tasks[t].holder # tasks[u].holder

AbsentUnheld == \A t \in Rec!TaskIds : tasks[t].status = "absent" => tasks[t].holder = Nobody

RecInv == /\ Rec!TypeOK
          /\ WorkDone /\ HoldersApart /\ AbsentUnheld
          /\ Rec!DeterminationsRestOnTwoExperts

LEMMA RecInit == Rec!Init => RecInv
<1> SUFFICES ASSUME Rec!Init PROVE RecInv
  OBVIOUS
<1> USE DEF Rec!Init
<1>1. Rec!TypeOK
  BY DEF Rec!TypeOK, Rec!Task, Rec!NoTask
<1>2. WorkDone /\ HoldersApart /\ AbsentUnheld
  BY DEF WorkDone, HoldersApart, AbsentUnheld, Rec!Taken, Rec!NoTask
<1>3. Rec!DeterminationsRestOnTwoExperts
  BY DEF Rec!DeterminationsRestOnTwoExperts
<1> QED BY <1>1, <1>2, <1>3 DEF RecInv

LEMMA SeedStep ==
  ASSUME RecInv, NEW i \in Intakes, Rec!SeedClaimTasks(i)
  PROVE  RecInv'
<1> USE DEF Rec!SeedClaimTasks
<1>1. /\ tasks \in [Rec!TaskIds -> Rec!Task]
      /\ \A t \in Rec!TaskIds : tasks'[t] = IF t[1] = i THEN [status |-> "pending", holder |-> Nobody]
                                                       ELSE tasks[t]
  BY DEF RecInv, Rec!TypeOK, Rec!NoTask
<1>2. \A t \in Rec!TaskIds : t[1] = i => tasks[t].status = "absent"
  BY DEF Rec!TasksOf, Rec!TaskIds
<1>3. Rec!TypeOK'
  BY <1>1 DEF RecInv, Rec!TypeOK, Rec!Task, Rec!NoTask
<1>4. WorkDone'
  <2>1. ASSUME NEW s \in submissions PROVE tasks'[s.task] = [status |-> "completed", holder |-> s.expert]
    BY <1>1, <1>2, <2>1 DEF RecInv, WorkDone, Rec!TypeOK
  <2> QED BY <1>1, <2>1 DEF RecInv, WorkDone
<1>5. HoldersApart' /\ AbsentUnheld'
  BY <1>1 DEF RecInv, HoldersApart, AbsentUnheld, Rec!Taken
<1>6. Rec!DeterminationsRestOnTwoExperts'
  BY DEF RecInv, Rec!DeterminationsRestOnTwoExperts, Rec!SubmissionsOn
<1> QED BY <1>3, <1>4, <1>5, <1>6 DEF RecInv

LEMMA ClaimStep ==
  ASSUME RecInv, NEW e \in Reconstructors, NEW t \in Rec!TaskIds, Rec!ClaimClaimTask(e, t)
  PROVE  RecInv'
<1> USE DEF Rec!ClaimClaimTask, Rec!Eligible
<1>1. /\ tasks \in [Rec!TaskIds -> Rec!Task]
      /\ \A u \in Rec!TaskIds : tasks'[u] = IF u = t THEN [status |-> "claimed", holder |-> e] ELSE tasks[u]
  BY DEF RecInv, Rec!TypeOK
<1>2. Rec!TypeOK'
  BY <1>1 DEF RecInv, Rec!TypeOK, Rec!Task
<1>3. WorkDone'
  <2>1. ASSUME NEW s \in submissions PROVE tasks'[s.task] = [status |-> "completed", holder |-> s.expert]
    BY <1>1, <2>1 DEF RecInv, WorkDone, Rec!TypeOK
  <2> QED BY <1>1, <2>1 DEF RecInv, WorkDone
<1>4. HoldersApart'
  <2>1. ASSUME NEW u \in Rec!TaskIds, u[1] = t[1], u # t, Rec!Taken(u) PROVE tasks[u].holder # e
    BY <2>1 DEF Rec!HoldsSibling, Rec!TasksOf, Rec!TaskIds
  <2>2. \A u \in Rec!TaskIds \ {t} : Rec!Taken(u)' <=> Rec!Taken(u)
    BY <1>1 DEF Rec!Taken
  <2> QED BY <1>1, <2>1, <2>2 DEF RecInv, HoldersApart
<1>5. AbsentUnheld'
  BY <1>1 DEF RecInv, AbsentUnheld
<1>6. Rec!DeterminationsRestOnTwoExperts'
  BY DEF RecInv, Rec!DeterminationsRestOnTwoExperts, Rec!SubmissionsOn
<1> QED BY <1>2, <1>3, <1>4, <1>5, <1>6 DEF RecInv

LEMMA SubmitStep ==
  ASSUME RecInv, NEW e \in Reconstructors, NEW t \in Rec!TaskIds, Rec!SubmitClaimReconstruction(e, t)
  PROVE  RecInv'
<1> USE DEF Rec!SubmitClaimReconstruction
<1> DEFINE new == [task |-> t, expert |-> e]
<1>1. /\ tasks \in [Rec!TaskIds -> Rec!Task] /\ tasks[t].holder = e /\ tasks[t].status = "claimed"
      /\ \A u \in Rec!TaskIds : tasks'[u] = IF u = t THEN [status |-> "completed", holder |-> e] ELSE tasks[u]
  BY DEF RecInv, Rec!TypeOK, Rec!Task
<1>2. Rec!TypeOK'
  <2> DEFINE Old == [intake : Intakes, outcome : Rec!Outcomes, chosen : SUBSET submissions]
             Now == [intake : Intakes, outcome : Rec!Outcomes, chosen : SUBSET submissions']
  <2>1. determinations \in Seq(Old) /\ Old \subseteq Now
    BY DEF RecInv, Rec!TypeOK
  <2>2. determinations \in Seq(Now)
    <3> HIDE DEF Old, Now
    <3> QED BY <2>1
  <2>3. tasks' \in [Rec!TaskIds -> Rec!Task] /\ submissions' \subseteq [task : Rec!TaskIds, expert : Reconstructors]
    BY <1>1 DEF RecInv, Rec!TypeOK, Rec!Task
  <2> QED BY <2>2, <2>3 DEF RecInv, Rec!TypeOK
<1>3. WorkDone'
  <2>1. ASSUME NEW s \in submissions' PROVE tasks'[s.task] = [status |-> "completed", holder |-> s.expert]
    BY <1>1, <2>1 DEF RecInv, WorkDone, Rec!TypeOK
  <2> QED BY <1>1, <2>1 DEF RecInv, WorkDone
<1>4. HoldersApart' /\ AbsentUnheld'
  <2>1. \A u \in Rec!TaskIds : (Rec!Taken(u)' <=> Rec!Taken(u)) /\ tasks'[u].holder = tasks[u].holder
    BY <1>1 DEF Rec!Taken
  <2> QED BY <1>1, <2>1 DEF RecInv, HoldersApart, AbsentUnheld
<1>5. Rec!DeterminationsRestOnTwoExperts'
  BY DEF RecInv, Rec!DeterminationsRestOnTwoExperts, Rec!SubmissionsOn
<1> QED BY <1>2, <1>3, <1>4, <1>5 DEF RecInv

(* The instance has the library's operator under a name of its own. *)
LEMMA SameCount == ASSUME NEW S PROVE Rec!Cardinality(S) = Cardinality(S)
BY DEF Rec!Cardinality, Cardinality

(* Two reconstructions of an intake are of different tasks, by different experts. *)
LEMMA TwoSubmissions ==
  ASSUME RecInv, NEW i \in Intakes, Cardinality(Rec!SubmissionsOn(i)) >= 2
  PROVE  \E s, u \in Rec!SubmissionsOn(i) : s.task # u.task /\ s.expert # u.expert
<1> DEFINE S == Rec!SubmissionsOn(i)
<1>1. PICK s \in S, u \in S : s # u
  <2>1. SUFFICES ASSUME \A s, u \in S : s = u PROVE FALSE
    OBVIOUS
  <2> HIDE DEF S
  <2>2. CASE S = {}
    BY <2>2, FS_EmptySet DEF S
  <2>3. ASSUME NEW x \in S PROVE FALSE
    <3>1. S = {x}
      BY <2>1, <2>3
    <3>2. Cardinality(S) = 1
      BY <3>1, FS_Singleton
    <3> QED BY <3>2 DEF S
  <2> QED BY <2>2, <2>3
<1>2. /\ s \in submissions /\ u \in submissions /\ s.task[1] = i /\ u.task[1] = i
      /\ s = [task |-> s.task, expert |-> s.expert] /\ u = [task |-> u.task, expert |-> u.expert]
      /\ s.task \in Rec!TaskIds /\ u.task \in Rec!TaskIds
  BY <1>1 DEF Rec!SubmissionsOn, RecInv, Rec!TypeOK
<1>3. /\ tasks[s.task].status = "completed" /\ tasks[s.task].holder = s.expert
      /\ tasks[u.task].status = "completed" /\ tasks[u.task].holder = u.expert
  <2>1. /\ tasks[s.task] = [status |-> "completed", holder |-> s.expert]
        /\ tasks[u.task] = [status |-> "completed", holder |-> u.expert]
    BY <1>2 DEF RecInv, WorkDone
  <2> QED BY <2>1
<1>4. s.task # u.task
  <2>1. SUFFICES ASSUME s.task = u.task PROVE FALSE
    OBVIOUS
  <2>2. s.expert = u.expert
    BY <1>3, <2>1
  <2> QED BY <1>1, <1>2, <2>1, <2>2
<1>5. s.expert # u.expert
  <2>1. s.task[1] = u.task[1] /\ Rec!Taken(s.task) /\ Rec!Taken(u.task)
    BY <1>2, <1>3 DEF Rec!Taken
  <2>2. tasks[s.task].holder # tasks[u.task].holder
    BY <1>2, <1>4, <2>1 DEF RecInv, HoldersApart
  <2> QED BY <1>3, <2>2
<1> QED BY <1>1, <1>4, <1>5

LEMMA DetermineStep ==
  ASSUME RecInv, NEW i \in Intakes, NEW o \in Rec!Outcomes, NEW chosen \in SUBSET Rec!SubmissionsOn(i),
         Rec!DetermineClaim(i, o, chosen)
  PROVE  RecInv'
<1> USE DEF Rec!DetermineClaim
<1> DEFINE Det == [intake : Intakes, outcome : Rec!Outcomes, chosen : SUBSET submissions]
           new == [intake |-> i, outcome |-> o, chosen |-> chosen]
<1>1. determinations \in Seq(Det) /\ new \in Det /\ determinations' = Append(determinations, new)
  BY DEF RecInv, Rec!TypeOK, Rec!SubmissionsOn
<1>2. /\ determinations' \in Seq(Det)
      /\ \A k \in DOMAIN determinations' :
            \/ k \in DOMAIN determinations /\ determinations'[k] = determinations[k]
            \/ determinations'[k] = new
  <2> HIDE DEF Det, new
  <2> QED BY <1>1
<1>3. Rec!TypeOK'
  BY <1>2 DEF RecInv, Rec!TypeOK
<1>4. WorkDone' /\ HoldersApart' /\ AbsentUnheld'
  BY DEF RecInv, WorkDone, HoldersApart, AbsentUnheld, Rec!Taken
<1>5. Rec!DeterminationsRestOnTwoExperts'
  <2>1. \A j \in Intakes : Rec!SubmissionsOn(j)' = Rec!SubmissionsOn(j)
    BY DEF Rec!SubmissionsOn
  <2>2. o # "unresolved" => \E s, u \in Rec!SubmissionsOn(i) : s.task # u.task /\ s.expert # u.expert
    <3>1. SUFFICES ASSUME o # "unresolved"
                   PROVE  \E s, u \in Rec!SubmissionsOn(i) : s.task # u.task /\ s.expert # u.expert
      OBVIOUS
    <3>2. Cardinality(Rec!SubmissionsOn(i)) >= 2
      BY <3>1, SameCount
    <3> QED BY <3>2, TwoSubmissions
  <2>3. new.intake = i /\ new.outcome = o /\ new.chosen = chosen
    OBVIOUS
  <2>4. ASSUME NEW k \in DOMAIN determinations PROVE determinations[k].intake \in Intakes
    <3>1. determinations[k] \in Det
      <4> HIDE DEF Det
      <4> QED BY <1>1
    <3> QED BY <3>1
  <2> HIDE DEF new
  <2> QED BY <1>2, <2>1, <2>2, <2>3, <2>4 DEF RecInv, Rec!DeterminationsRestOnTwoExperts
<1> QED BY <1>3, <1>4, <1>5 DEF RecInv

(* Intakes, their reviews and the standing of experts touch nothing of this. *)
LEMMA AsideStep ==
  ASSUME RecInv, UNCHANGED <<tasks, submissions, determinations>>, Rec!TypeOK'
  PROVE  RecInv'
BY DEF RecInv, WorkDone, HoldersApart, AbsentUnheld, Rec!Taken, Rec!DeterminationsRestOnTwoExperts,
       Rec!SubmissionsOn

LEMMA IntakeStep ==
  ASSUME RecInv, \/ \E i \in Intakes : Rec!CreateIntake(i) \/ \E v \in Rec!Verdicts : Rec!ReadReview(i, v)
                 \/ \E r \in reviews : Rec!CommitReview(r) \/ Rec!AbortReview(r)
                 \/ \E e \in Reconstructors, d \in Domains : Rec!StandingChanges(e, d)
                 \/ UNCHANGED Rec!vars
  PROVE  RecInv' /\ UNCHANGED tasks
<1> USE DEF RecInv, Rec!TypeOK
<1>1. ASSUME NEW i \in Intakes, Rec!CreateIntake(i) PROVE RecInv' /\ UNCHANGED tasks
  BY <1>1, AsideStep DEF Rec!CreateIntake
<1>2. ASSUME NEW i \in Intakes, NEW v \in Rec!Verdicts, Rec!ReadReview(i, v) PROVE RecInv' /\ UNCHANGED tasks
  BY <1>2, AsideStep DEF Rec!ReadReview
<1>3. ASSUME NEW r \in reviews, Rec!CommitReview(r) PROVE RecInv' /\ UNCHANGED tasks
  BY <1>3, AsideStep DEF Rec!CommitReview
<1>4. ASSUME NEW r \in reviews, Rec!AbortReview(r) PROVE RecInv' /\ UNCHANGED tasks
  BY <1>4, AsideStep DEF Rec!AbortReview
<1>5. ASSUME NEW e \in Reconstructors, NEW d \in Domains, Rec!StandingChanges(e, d) PROVE RecInv' /\ UNCHANGED tasks
  BY <1>5, AsideStep DEF Rec!StandingChanges
<1>6. CASE UNCHANGED Rec!vars
  BY <1>6, AsideStep DEF Rec!vars
<1> QED BY <1>1, <1>2, <1>3, <1>4, <1>5, <1>6

LEMMA RecStep == RecInv /\ [Rec!Next]_(Rec!vars) => RecInv'
<1> SUFFICES ASSUME RecInv, [Rec!Next]_(Rec!vars) PROVE RecInv'
  OBVIOUS
<1> QED BY SeedStep, ClaimStep, SubmitStep, DetermineStep, IntakeStep
        DEF Rec!Next, Rec!IntakeRequests, Rec!Claims, Rec!Submits, Rec!Determines

LEMMA Reconstructed == Rec!Spec => []RecInv
BY RecInit, RecStep, PTL DEF Rec!Spec

(* A completed reconstruction has one submission, its holder's, and no other task has
   any, whatever becomes of the intake meanwhile (submit_claim_reconstruction).       *)
THEOREM ReconstructionsAreWork == Rec!Spec => []Rec!WorkMatchesTask
<1>1. RecInv => Rec!WorkMatchesTask
  <2> SUFFICES ASSUME RecInv, NEW t \in Rec!TaskIds
               PROVE  {s.expert : s \in {x \in submissions : x.task = t}}
                        = IF tasks[t].status = "completed" THEN {tasks[t].holder} ELSE {}
    BY DEF Rec!WorkMatchesTask
  <2>1. ASSUME NEW s \in submissions, s.task = t
        PROVE  tasks[t].status = "completed" /\ tasks[t].holder = s.expert
    <3>1. tasks[t] = [status |-> "completed", holder |-> s.expert]
      BY <2>1 DEF RecInv, WorkDone
    <3> QED BY <3>1
  <2>2. tasks[t].status = "completed" =>
          \E s \in submissions : s.task = t /\ s.expert = tasks[t].holder
    BY DEF RecInv, WorkDone
  <2> QED BY <2>1, <2>2
<1> QED BY <1>1, Reconstructed, PTL

(* Whatever a determination settles or contests rests on reconstructions of the intake
   by two different experts, and what it chose is among them (determine_claim).       *)
THEOREM TwoReconstruct == Rec!Spec => []Rec!DeterminationsRestOnTwoExperts
<1>1. RecInv => Rec!DeterminationsRestOnTwoExperts
  BY DEF RecInv
<1> QED BY <1>1, Reconstructed, PTL

-----------------------------------------------------------------------------
(* The two reconstructions of an intake are a review panel. *)

SeatSet == [case : {"claims"}, concern : Intakes, slot : Rec!Slots \cup {"tie_break"}]
TheSeat(t) == [case |-> "claims", concern |-> t[1], slot |-> t[2]]

PhaseOf  == [q \in SeatSet |-> IF Rec!IsSeat(q) THEN tasks[Rec!Seat(q)].status ELSE "absent"]
HolderOf == [q \in SeatSet |-> IF Rec!IsSeat(q) THEN tasks[Rec!Seat(q)].holder ELSE Nobody]

LEMMA PanelSeats == Rec!Panel!Seats = SeatSet
BY DEF Rec!Panel!Seats, Rec!Panel!Slots, Rec!Panel!Primary, Rec!Panel!Secondary, Rec!Panel!TieBreak,
       SeatSet, Rec!Slots

LEMMA PanelUnchanged == UNCHANGED tasks => UNCHANGED Rec!Panel!vars
BY DEF Rec!Panel!vars, Rec!Seat, Rec!IsSeat

(* Seats and tasks. *)
LEMMA SeatsAndTasks ==
  /\ \A q \in SeatSet : Rec!IsSeat(q) => Rec!Seat(q) \in Rec!TaskIds /\ TheSeat(Rec!Seat(q)) = q
  /\ \A t \in Rec!TaskIds : /\ TheSeat(t) \in SeatSet /\ Rec!IsSeat(TheSeat(t))
                            /\ Rec!Seat(TheSeat(t)) = t
BY DEF SeatSet, TheSeat, Rec!IsSeat, Rec!Seat, Rec!TaskIds, Rec!Slots

LEMMA PanelInit == Rec!Init => Rec!Panel!Init
<1> SUFFICES ASSUME Rec!Init PROVE Rec!Panel!Init
  OBVIOUS
<1>1. \A t \in Rec!TaskIds : tasks[t].status = "absent" /\ tasks[t].holder = Nobody
  BY DEF Rec!Init, Rec!NoTask
<1>2. PhaseOf = [q \in SeatSet |-> "absent"] /\ HolderOf = [q \in SeatSet |-> Nobody]
  BY <1>1, SeatsAndTasks DEF PhaseOf, HolderOf
<1> QED BY <1>2, PanelSeats DEF Rec!Panel!Init, PhaseOf, HolderOf, SeatSet

(* A step of the panel, from what it does to the tasks. *)
LEMMA PanelOpens ==
  ASSUME RecInv, NEW i \in Intakes, Rec!SeedClaimTasks(i)
  PROVE  Rec!Panel!Next
<1> DEFINE S == {q \in SeatSet : q.concern = i /\ Rec!IsSeat(q)}
<1>1. /\ \A t \in Rec!TaskIds : tasks'[t] = IF t[1] = i THEN [status |-> "pending", holder |-> Nobody]
                                                       ELSE tasks[t]
      /\ \A t \in Rec!TaskIds : t[1] = i => tasks[t].status = "absent" /\ tasks[t].holder = Nobody
  BY DEF Rec!SeedClaimTasks, Rec!NoTask, Rec!TasksOf, Rec!TaskIds, RecInv, AbsentUnheld
<1>2. \A q \in SeatSet : Rec!IsSeat(q) => Rec!Seat(q) \in Rec!TaskIds /\ Rec!Seat(q)[1] = q.concern
  BY SeatsAndTasks DEF Rec!Seat
<1>3. PhaseOf' = [q \in SeatSet |-> IF q \in S THEN "pending" ELSE PhaseOf[q]]
  BY <1>1, <1>2 DEF PhaseOf
<1>4. HolderOf' = HolderOf
  BY <1>1, <1>2 DEF HolderOf
<1>5. \A q \in S : PhaseOf[q] = "absent" /\ q.slot # "tie_break"
  BY <1>1, <1>2 DEF PhaseOf, Rec!IsSeat, Rec!Slots
<1>6. S \in SUBSET SeatSet
  OBVIOUS
<1> HIDE DEF S
<1>7. Rec!Panel!Opened(S, Rec!Panel!Reported)
  BY <1>5 DEF Rec!Panel!Opened, Rec!Panel!TieBreak, PhaseOf, SeatSet
<1>8. Rec!Panel!Open(S)
  BY <1>3, <1>4, <1>7, PanelSeats DEF Rec!Panel!Open, PhaseOf, HolderOf, SeatSet
<1> QED BY <1>6, <1>8, PanelSeats DEF Rec!Panel!Next

LEMMA PanelAssigns ==
  ASSUME RecInv, NEW e \in Reconstructors, NEW t \in Rec!TaskIds, Rec!ClaimClaimTask(e, t)
  PROVE  Rec!Panel!Next
<1> DEFINE seat == TheSeat(t)
<1>1. /\ tasks[t].status = "pending" /\ ~Rec!HoldsSibling(e, t)
      /\ \A u \in Rec!TaskIds : tasks'[u] = IF u = t THEN [status |-> "claimed", holder |-> e] ELSE tasks[u]
  BY DEF Rec!ClaimClaimTask, Rec!Eligible, RecInv, Rec!TypeOK
<1>2. /\ seat \in SeatSet /\ Rec!IsSeat(seat) /\ Rec!Seat(seat) = t /\ seat.concern = t[1]
      /\ \A q \in SeatSet : Rec!IsSeat(q) =>
            /\ Rec!Seat(q) \in Rec!TaskIds /\ Rec!Seat(q)[1] = q.concern
            /\ Rec!Seat(q) = t => q = seat
  BY SeatsAndTasks DEF TheSeat, Rec!Seat
<1> HIDE DEF seat
<1>3. PhaseOf' = [PhaseOf EXCEPT ![seat] = "claimed"] /\ HolderOf' = [HolderOf EXCEPT ![seat] = e]
  <2>1. PhaseOf' = [q \in SeatSet |-> IF q = seat THEN "claimed" ELSE PhaseOf[q]]
    BY <1>1, <1>2 DEF PhaseOf
  <2>2. HolderOf' = [q \in SeatSet |-> IF q = seat THEN e ELSE HolderOf[q]]
    BY <1>1, <1>2 DEF HolderOf
  <2>3. /\ [PhaseOf EXCEPT ![seat] = "claimed"] = [q \in SeatSet |-> IF q = seat THEN "claimed" ELSE PhaseOf[q]]
        /\ [HolderOf EXCEPT ![seat] = e] = [q \in SeatSet |-> IF q = seat THEN e ELSE HolderOf[q]]
    BY DEF PhaseOf, HolderOf
  <2> QED BY <2>1, <2>2, <2>3
<1>4. PhaseOf[seat] = "pending"
  BY <1>1, <1>2 DEF PhaseOf
<1>5. ASSUME NEW q \in SeatSet \ {seat}, q.concern = seat.concern,
             PhaseOf[q] \in {"claimed", "completed"}, HolderOf[q] = e
      PROVE  FALSE
  <2>1. Rec!IsSeat(q)
    BY <1>5 DEF PhaseOf
  <2>2. /\ Rec!Seat(q) \in Rec!TaskIds \ {t} /\ Rec!Seat(q)[1] = t[1]
        /\ Rec!Taken(Rec!Seat(q)) /\ tasks[Rec!Seat(q)].holder = e
    BY <1>2, <1>5, <2>1 DEF PhaseOf, HolderOf, Rec!Taken
  <2> QED BY <1>1, <2>2 DEF Rec!HoldsSibling, Rec!TasksOf, Rec!TaskIds
<1>6. Rec!Panel!Assign(seat, e)
  BY <1>2, <1>3, <1>4, <1>5, PanelSeats
     DEF Rec!Panel!Assign, Rec!Panel!Panel, Rec!Panel!Taken, PhaseOf, HolderOf, SeatSet
<1> QED BY <1>2, <1>6, PanelSeats DEF Rec!Panel!Next

LEMMA PanelReports ==
  ASSUME RecInv, NEW e \in Reconstructors, NEW t \in Rec!TaskIds, Rec!SubmitClaimReconstruction(e, t)
  PROVE  Rec!Panel!Next
<1> DEFINE seat == TheSeat(t)
<1>1. /\ tasks[t].status = "claimed" /\ tasks[t].holder = e
      /\ \A u \in Rec!TaskIds : tasks'[u] = IF u = t THEN [status |-> "completed", holder |-> e] ELSE tasks[u]
  BY DEF Rec!SubmitClaimReconstruction, RecInv, Rec!TypeOK, Rec!Task
<1>2. /\ seat \in SeatSet /\ Rec!IsSeat(seat) /\ Rec!Seat(seat) = t
      /\ \A q \in SeatSet : Rec!IsSeat(q) =>
            Rec!Seat(q) \in Rec!TaskIds /\ (Rec!Seat(q) = t => q = seat)
  BY SeatsAndTasks DEF TheSeat
<1> HIDE DEF seat
<1>3. PhaseOf' = [q \in SeatSet |-> IF q = seat THEN "completed" ELSE IF q \in {} THEN "pending" ELSE PhaseOf[q]]
  BY <1>1, <1>2 DEF PhaseOf
<1>4. HolderOf' = HolderOf
  BY <1>1, <1>2 DEF HolderOf
<1>5. PhaseOf[seat] = "claimed"
  BY <1>1, <1>2 DEF PhaseOf
<1>6. Rec!Panel!Report(seat, {})
  BY <1>2, <1>3, <1>4, <1>5, PanelSeats
     DEF Rec!Panel!Report, Rec!Panel!Opened, PhaseOf, HolderOf, SeatSet
<1> QED BY <1>2, <1>6, PanelSeats DEF Rec!Panel!Next

(* The reconstructions of an intake are an independent review panel without a third
   seat: seeding opens the seats, a claim is an assignment to somebody who has no other
   seat of the intake, a submission is a report, and nothing else touches them.        *)
THEOREM ReconstructionIsReview == Rec!Spec => Rec!RefinesReview
<1>1. RecInv /\ [Rec!Next]_(Rec!vars) => [Rec!Panel!Next]_(Rec!Panel!vars)
  <2> SUFFICES ASSUME RecInv, [Rec!Next]_(Rec!vars), ~UNCHANGED tasks PROVE Rec!Panel!Next
    BY PanelUnchanged
  <2>1. ASSUME NEW i \in Intakes, NEW o \in Rec!Outcomes, NEW chosen, Rec!DetermineClaim(i, o, chosen)
        PROVE  UNCHANGED tasks
    BY <2>1 DEF Rec!DetermineClaim
  <2> QED BY <2>1, PanelOpens, PanelAssigns, PanelReports, IntakeStep
          DEF Rec!Next, Rec!IntakeRequests, Rec!Claims, Rec!Submits, Rec!Determines
<1> QED BY <1>1, PanelInit, Reconstructed, PTL DEF Rec!Spec, Rec!RefinesReview, Rec!Panel!Spec

-----------------------------------------------------------------------------
(* A rejection *)

(* No two reviews of one intake overlap. *)
OneReviewPerIntake == \A q, r \in reviews : q.intake = r.intake => q = r

(* What a review has read is still so. *)
ReviewsFresh == \A r \in reviews : intakes[r.intake] # "rejected"

Closed == \A i \in Intakes : intakes[i] = "rejected" => intakes'[i] = "rejected"

LEMMA ReviewStep ==
  ASSUME RecInv, OneReviewPerIntake, ReviewsFresh, [Rec!Next]_(Rec!vars)
  PROVE  ReviewsFresh' /\ Closed
<1> USE DEF ReviewsFresh, Closed
<1>1. /\ intakes \in [Intakes -> {"absent", "submitted"} \cup Rec!Verdicts]
      /\ \A r \in reviews : r.intake \in Intakes
  BY DEF RecInv, Rec!TypeOK
<1>2. ASSUME NEW i \in Intakes, Rec!CreateIntake(i) PROVE ReviewsFresh' /\ Closed
  BY <1>1, <1>2 DEF Rec!CreateIntake
<1>3. ASSUME NEW i \in Intakes, NEW v \in Rec!Verdicts, Rec!ReadReview(i, v) PROVE ReviewsFresh' /\ Closed
  <2>1. [intake |-> i, verdict |-> v].intake = i /\ intakes[i] # "rejected"
    BY <1>3 DEF Rec!ReadReview
  <2> QED BY <1>3, <2>1 DEF Rec!ReadReview
<1>4. ASSUME NEW r \in reviews, Rec!CommitReview(r) PROVE ReviewsFresh' /\ Closed
  BY <1>1, <1>4 DEF Rec!CommitReview, OneReviewPerIntake
<1>5. ASSUME NEW r \in reviews, Rec!AbortReview(r) PROVE ReviewsFresh' /\ Closed
  BY <1>5 DEF Rec!AbortReview
<1>6. CASE UNCHANGED <<intakes, reviews>>
  BY <1>6
<1> QED BY <1>2, <1>3, <1>4, <1>5, <1>6
        DEF Rec!Next, Rec!IntakeRequests, Rec!Claims, Rec!Submits, Rec!Determines, Rec!SeedClaimTasks,
            Rec!ClaimClaimTask, Rec!SubmitClaimReconstruction, Rec!DetermineClaim, Rec!StandingChanges,
            Rec!vars

(* A rejected intake stays rejected, as long as no two reviews of it overlap: a review
   reads the status it decides on without a lock (review_intake).                     *)
THEOREM RejectionsAreFinal == Rec!Spec /\ []OneReviewPerIntake => Rec!ClosedStaysClosed
<1>1. Rec!Init => ReviewsFresh
  BY DEF Rec!Init, ReviewsFresh
<1>2. RecInv /\ OneReviewPerIntake /\ ReviewsFresh /\ [Rec!Next]_(Rec!vars)
        => ReviewsFresh' /\ [Closed]_(Rec!vars)
  BY ReviewStep
<1> QED BY <1>1, <1>2, Reconstructed, PTL DEF Rec!Spec, Rec!ClosedStaysClosed, Closed

-----------------------------------------------------------------------------
(* Calibration: what is stored, and what submissions have concluded *)

(* Two submissions in flight are for different tasks. *)
TasksApart ==
    \A f, g \in scoring : f.attempt = g.attempt /\ f.task = g.task => f = g

(* A submission that finishes an attempt has seen every other answer of it, and the answers
   it has scored are those that will be stored when it commits.                            *)
OutcomesHold ==
    \A f \in scoring :
        LET stored == attempts[f.attempt].answers IN
        /\ f.ready => \A i \in DOMAIN stored : i # f.task => stored[i] # None
        /\ f.passed => /\ f.ready
                       /\ Cal!Passes(attempts[f.attempt].set, [stored EXCEPT ![f.task] = f.answer])
        /\ f.grants => f.passed

CalInv == /\ Cal!TypeOK
          /\ TasksApart /\ OutcomesHold
          /\ Cal!QualificationsAreEarned

LEMMA CalInit == Cal!Init => CalInv
<1> SUFFICES ASSUME Cal!Init PROVE CalInv
  OBVIOUS
<1> USE DEF Cal!Init
<1>1. Cal!TypeOK
  BY DEF Cal!TypeOK
<1>2. TasksApart /\ OutcomesHold /\ Cal!QualificationsAreEarned
  BY DEF TasksApart, OutcomesHold, Cal!QualificationsAreEarned
<1> QED BY <1>1, <1>2 DEF CalInv

(* What the type invariant says of one attempt, one submission and one row. *)
LEMMA AttemptTypes ==
  ASSUME Cal!TypeOK, NEW a \in DOMAIN attempts
  PROVE  /\ a \in 1 .. Len(attempts)
         /\ attempts[a] \in Cal!Attempt
         /\ attempts[a].answers \in Seq(Answers \cup {None})
         /\ attempts[a].set \in SetInputs
<1>1. attempts \in Seq(Cal!Attempt)
  BY DEF Cal!TypeOK
<1>2. a \in 1 .. Len(attempts) /\ attempts[a] \in Cal!Attempt
  BY <1>1, ElementOfSeq, LenProperties
<1> QED BY <1>2 DEF Cal!Attempt

LEMMA ScoringTypes ==
  ASSUME Cal!TypeOK, NEW f \in scoring
  PROVE  /\ f \in Cal!Submission
         /\ f.attempt \in DOMAIN attempts
         /\ f.task \in DOMAIN attempts[f.attempt].answers
         /\ attempts[f.attempt].answers[f.task] = None
         /\ f.answer \in Answers
BY DEF Cal!TypeOK, Cal!Submission

(* A commit stores one answer, and the verdict if it is the last. *)
LEMMA CommitEffect ==
  ASSUME Cal!TypeOK, NEW f \in scoring, Cal!CommitSubmission(f)
  PROVE  LET a == f.attempt
             answers == [attempts[a].answers EXCEPT ![f.task] = f.answer]
         IN  /\ attempts' \in Seq(Cal!Attempt)
             /\ DOMAIN attempts' = DOMAIN attempts
             /\ \A b \in DOMAIN attempts : b # a => attempts'[b] = attempts[b]
             /\ attempts'[a].expert = attempts[a].expert
             /\ attempts'[a].set = attempts[a].set
             /\ attempts'[a].status = IF f.ready THEN "completed" ELSE attempts[a].status
             /\ attempts'[a].passed = IF f.ready THEN f.passed ELSE attempts[a].passed
             /\ attempts'[a].answers = answers
             /\ answers \in Seq(Answers \cup {None})
             /\ Len(answers) = Len(attempts[a].answers)
             /\ DOMAIN answers = DOMAIN attempts[a].answers
<1> DEFINE a == f.attempt
           answers == [attempts[a].answers EXCEPT ![f.task] = f.answer]
           new == [attempts[a] EXCEPT !.answers = answers,
                                      !.status = IF f.ready THEN "completed" ELSE @,
                                      !.passed = IF f.ready THEN f.passed ELSE @]
<1>1. /\ f \in Cal!Submission /\ a \in DOMAIN attempts /\ f.answer \in Answers
      /\ a \in 1 .. Len(attempts) /\ attempts[a] \in Cal!Attempt
      /\ attempts[a].answers \in Seq(Answers \cup {None})
      /\ f.task \in 1 .. Len(attempts[a].answers)
  BY ScoringTypes, AttemptTypes, LenProperties
<1>2. /\ answers \in Seq(Answers \cup {None})
      /\ Len(answers) = Len(attempts[a].answers)
      /\ DOMAIN answers = DOMAIN attempts[a].answers
  BY <1>1, ExceptSeq
<1>3. attempts' = [attempts EXCEPT ![a] = new]
  BY DEF Cal!CommitSubmission
<1>4. /\ new \in Cal!Attempt
      /\ new.expert = attempts[a].expert /\ new.set = attempts[a].set
      /\ new.status = IF f.ready THEN "completed" ELSE attempts[a].status
      /\ new.passed = IF f.ready THEN f.passed ELSE attempts[a].passed
      /\ new.answers = answers
  <2> HIDE DEF answers
  <2> QED BY <1>1, <1>2 DEF Cal!Attempt, Cal!Submission
<1>5. attempts \in Seq(Cal!Attempt)
  BY DEF Cal!TypeOK
<1> HIDE DEF new
<1>6. /\ attempts' \in Seq(Cal!Attempt)
      /\ DOMAIN attempts' = DOMAIN attempts
      /\ \A b \in DOMAIN attempts : b # a => attempts'[b] = attempts[b]
      /\ attempts'[a] = new
  BY <1>1, <1>3, <1>4, <1>5, ExceptSeq, LenProperties
<1> QED BY <1>2, <1>4, <1>6

(* Rows that keep what they were granted for, and attempts that stay as they are once all
   their answers are stored, are all it takes for qualifications to stay earned.          *)
LEMMA EarnedKeeps ==
  ASSUME Cal!QualificationsAreEarned,
         DOMAIN qualifications' = DOMAIN qualifications,
         \A k \in DOMAIN qualifications :
            /\ qualifications'[k].expert = qualifications[k].expert
            /\ qualifications'[k].domain = qualifications[k].domain
            /\ qualifications'[k].attempt = qualifications[k].attempt,
         \A a \in DOMAIN attempts :
            /\ a \in DOMAIN attempts'
            /\ None \notin Cal!Range(attempts[a].answers) => attempts'[a] = attempts[a]
  PROVE  Cal!QualificationsAreEarned'
BY DEF Cal!QualificationsAreEarned

(* Requests that store nothing about attempts, and rows that lapse or are marked. *)
LEMMA QuietStep ==
  ASSUME CalInv, UNCHANGED <<attempts, qualifications>>, scoring' \subseteq scoring,
         profiles' \in [Trainees -> {"none", "calibration", "eligible"}], sets' \subseteq SetInputs
  PROVE  CalInv'
<1>1. Cal!TypeOK'
  BY DEF CalInv, Cal!TypeOK
<1>2. TasksApart' /\ OutcomesHold'
  BY DEF CalInv, TasksApart, OutcomesHold
<1>3. Cal!QualificationsAreEarned'
  BY EarnedKeeps DEF CalInv
<1> QED BY <1>1, <1>2, <1>3 DEF CalInv

LEMMA AgeingStep ==
  ASSUME CalInv, UNCHANGED <<profiles, sets, attempts, scoring>>,
         qualifications' \in Seq(Cal!Qualification),
         DOMAIN qualifications' = DOMAIN qualifications,
         \A k \in DOMAIN qualifications :
            /\ qualifications'[k].expert = qualifications[k].expert
            /\ qualifications'[k].domain = qualifications[k].domain
            /\ qualifications'[k].attempt = qualifications[k].attempt
  PROVE  CalInv'
<1>1. Cal!TypeOK'
  BY DEF CalInv, Cal!TypeOK
<1>2. TasksApart' /\ OutcomesHold'
  BY DEF CalInv, TasksApart, OutcomesHold
<1>3. Cal!QualificationsAreEarned'
  BY EarnedKeeps DEF CalInv
<1> QED BY <1>1, <1>2, <1>3 DEF CalInv

(* What the passing of time and a claim do to the rows. *)
LEMMA RowsAge ==
  ASSUME Cal!TypeOK,
         \/ \E k \in DOMAIN qualifications : Cal!QualificationLapses(k)
         \/ \E e \in Trainees, d \in Domains, D \in SUBSET Domains : Cal!Claim(e, d, D)
  PROVE  /\ qualifications' \in Seq(Cal!Qualification)
         /\ DOMAIN qualifications' = DOMAIN qualifications
         /\ \A k \in DOMAIN qualifications :
              /\ qualifications'[k].expert = qualifications[k].expert
              /\ qualifications'[k].domain = qualifications[k].domain
              /\ qualifications'[k].attempt = qualifications[k].attempt
              /\ qualifications'[k].status = "active" => qualifications[k].status = "active"
<1>1. /\ qualifications \in Seq(Cal!Qualification)
      /\ DOMAIN qualifications = 1 .. Len(qualifications) /\ Len(qualifications) \in Nat
      /\ \A k \in DOMAIN qualifications : qualifications[k] \in Cal!Qualification
  BY ElementOfSeq, LenProperties DEF Cal!TypeOK
<1>2. CASE \E k \in DOMAIN qualifications : Cal!QualificationLapses(k)
  <2>1. PICK k \in DOMAIN qualifications : Cal!QualificationLapses(k)
    BY <1>2
  <2> DEFINE new == [qualifications[k] EXCEPT !.lapsed = TRUE]
  <2>2. /\ new \in Cal!Qualification
        /\ new.expert = qualifications[k].expert /\ new.domain = qualifications[k].domain
        /\ new.attempt = qualifications[k].attempt /\ new.status = qualifications[k].status
    BY <1>1 DEF Cal!Qualification
  <2>3. qualifications' = [qualifications EXCEPT ![k] = new]
    BY <2>1 DEF Cal!QualificationLapses
  <2> HIDE DEF new
  <2> QED BY <1>1, <2>2, <2>3, ExceptSeq, LenProperties
<1>3. CASE \E e \in Trainees, d \in Domains, D \in SUBSET Domains : Cal!Claim(e, d, D)
  <2>1. PICK e \in Trainees, d \in Domains, D \in SUBSET Domains : Cal!Claim(e, d, D)
    BY <1>3
  <2>2. ASSUME NEW q \in Cal!Qualification
        PROVE  LET r == Cal!Marked(q, e, D \cup {d}) IN
               /\ r \in Cal!Qualification
               /\ r.expert = q.expert /\ r.domain = q.domain /\ r.attempt = q.attempt
               /\ r.status = "active" => q.status = "active"
    BY DEF Cal!Marked, Cal!Qualification
  <2>3. qualifications' = [k \in DOMAIN qualifications |-> Cal!Marked(qualifications[k], e, D \cup {d})]
    BY <2>1 DEF Cal!Claim
  <2>4. qualifications' \in [1 .. Len(qualifications) -> Cal!Qualification]
    BY <1>1, <2>2, <2>3
  <2>5. qualifications' \in Seq(Cal!Qualification)
    BY <1>1, <2>4, SeqDef
  <2> QED BY <1>1, <2>2, <2>3, <2>5
<1> QED BY <1>2, <1>3

(* A new attempt has nothing but open tasks, at least one. *)
LEMMA StartEffect ==
  ASSUME Cal!ConstantsAssumption, Cal!TypeOK,
         NEW e \in Trainees, NEW s \in SetInputs, Cal!StartCalibration(e, s)
  PROVE  /\ attempts' \in Seq(Cal!Attempt)
         /\ Len(attempts') = Len(attempts) + 1
         /\ \A a \in DOMAIN attempts : a \in DOMAIN attempts' /\ attempts'[a] = attempts[a]
         /\ \A a \in DOMAIN attempts' \ DOMAIN attempts :
              /\ Len(attempts'[a].answers) = Len(attempts'[a].set.refs)
              /\ None \in Cal!Range(attempts'[a].answers)
<1> DEFINE open == [i \in 1 .. Len(s.refs) |-> None]
           new == [expert |-> e, set |-> s, status |-> "in_progress", passed |-> FALSE, answers |-> open]
<1>1. s.refs \in Seq(Refs) /\ Len(s.refs) \in Nat /\ Len(s.refs) > 0
  BY LenProperties DEF Cal!ConstantsAssumption, Cal!CalibrationSet
<1>2. open \in [1 .. Len(s.refs) -> Answers \cup {None}]
  OBVIOUS
<1>3. open \in Seq(Answers \cup {None}) /\ Len(open) = Len(s.refs)
  <2>1. open \in Seq(Answers \cup {None})
    BY <1>1, <1>2, SeqDef
  <2>2. DOMAIN open = 1 .. Len(s.refs)
    OBVIOUS
  <2> HIDE DEF open
  <2> QED BY <1>1, <2>1, <2>2, LenProperties
<1>4. None \in Cal!Range(open)
  BY <1>1 DEF Cal!Range
<1> HIDE DEF open
<1>5. /\ new \in Cal!Attempt
      /\ Len(new.answers) = Len(new.set.refs) /\ None \in Cal!Range(new.answers)
  BY <1>3, <1>4 DEF Cal!Attempt
<1>6. attempts' = Append(attempts, new)
  BY DEF Cal!StartCalibration, open
<1> HIDE DEF new
<1>7. attempts \in Seq(Cal!Attempt) /\ Len(attempts) \in Nat /\ DOMAIN attempts = 1 .. Len(attempts)
  BY LenProperties DEF Cal!TypeOK
<1>8. /\ attempts' \in Seq(Cal!Attempt)
      /\ Len(attempts') = Len(attempts) + 1
      /\ DOMAIN attempts' = 1 .. Len(attempts) + 1
      /\ attempts'[Len(attempts) + 1] = new
      /\ \A a \in 1 .. Len(attempts) : attempts'[a] = attempts[a]
  BY <1>5, <1>6, <1>7
<1>9. \A a \in DOMAIN attempts' \ DOMAIN attempts : a = Len(attempts) + 1
  BY <1>7, <1>8
<1> QED BY <1>5, <1>7, <1>8, <1>9

LEMMA StartStep ==
  ASSUME Cal!ConstantsAssumption, CalInv,
         NEW e \in Trainees, NEW s \in SetInputs, Cal!StartCalibration(e, s)
  PROVE  CalInv'
<1>1. /\ Cal!TypeOK
      /\ UNCHANGED <<profiles, sets, qualifications, scoring>>
  BY DEF CalInv, Cal!StartCalibration
<1>2. /\ attempts' \in Seq(Cal!Attempt)
      /\ \A a \in DOMAIN attempts : a \in DOMAIN attempts' /\ attempts'[a] = attempts[a]
      /\ \A a \in DOMAIN attempts' \ DOMAIN attempts :
            Len(attempts'[a].answers) = Len(attempts'[a].set.refs)
  BY <1>1, StartEffect
<1>3. Cal!TypeOK'
  BY <1>1, <1>2 DEF Cal!TypeOK
<1>4. TasksApart' /\ OutcomesHold'
  BY <1>1, <1>2, ScoringTypes DEF CalInv, TasksApart, OutcomesHold
<1>5. Cal!QualificationsAreEarned'
  BY <1>1, <1>2, EarnedKeeps DEF CalInv
<1> QED BY <1>3, <1>4, <1>5 DEF CalInv

(* What a submission concludes when it reads. *)
LEMMA OutcomeMeans ==
  ASSUME Cal!TypeOK, NEW a \in DOMAIN attempts, NEW i \in DOMAIN attempts[a].answers, NEW x \in Answers,
         x # None
  PROVE  LET f == Cal!Outcome(a, i, x)
             stored == attempts[a].answers
         IN  /\ f \in [attempt : {a}, task : {i}, answer : {x},
                       ready : BOOLEAN, passed : BOOLEAN, grants : BOOLEAN]
             /\ f.ready <=> \A j \in DOMAIN stored : j # i => stored[j] # None
             /\ f.passed => f.ready /\ Cal!Passes(attempts[a].set, [stored EXCEPT ![i] = x])
             /\ f.grants => f.passed /\ ~ Cal!HasActiveRow(attempts[a].expert, attempts[a].set.domain)
<1> DEFINE stored == attempts[a].answers
           seen == [stored EXCEPT ![i] = x]
           ready == None \notin Cal!Range(seen)
           passed == ready /\ Cal!Passes(attempts[a].set, seen)
           row == Cal!HasActiveRow(attempts[a].expert, attempts[a].set.domain)
           grants == passed /\ ~ row
<1>1. Cal!Outcome(a, i, x) = [attempt |-> a, task |-> i, answer |-> x, ready |-> ready,
                              passed |-> passed, grants |-> grants]
  BY Zenon DEF Cal!Outcome
<1>2. ready <=> \A j \in DOMAIN stored : j # i => stored[j] # None
  BY AttemptTypes, LenProperties DEF Cal!Range
<1>3. ready \in BOOLEAN /\ passed \in BOOLEAN /\ grants \in BOOLEAN
  OBVIOUS
<1>4. passed => ready /\ Cal!Passes(attempts[a].set, seen)
  OBVIOUS
<1>5. grants => passed /\ ~ row
  OBVIOUS
<1> HIDE DEF ready, passed, grants
<1>6. /\ Cal!Outcome(a, i, x) \in [attempt : {a}, task : {i}, answer : {x},
                                   ready : BOOLEAN, passed : BOOLEAN, grants : BOOLEAN]
      /\ Cal!Outcome(a, i, x).ready = ready /\ Cal!Outcome(a, i, x).passed = passed
      /\ Cal!Outcome(a, i, x).grants = grants
  BY <1>1, <1>3
<1> QED BY <1>2, <1>4, <1>5, <1>6

LEMMA ScoreReadStep ==
  ASSUME Cal!ConstantsAssumption, CalInv, NEW a \in DOMAIN attempts, NEW x \in Answers,
         NEW i \in DOMAIN attempts[a].answers, Cal!ReadSubmission(a, i, x)
  PROVE  CalInv'
<1> DEFINE new == Cal!Outcome(a, i, x)
<1>1. /\ Cal!TypeOK
      /\ UNCHANGED <<profiles, sets, attempts, qualifications>>
      /\ scoring' = scoring \cup {new}
      /\ attempts[a].answers[i] = None
      /\ \A f \in scoring : ~ (f.attempt = a /\ f.task = i)
      /\ x # None
  BY DEF CalInv, Cal!ReadSubmission, Cal!ConstantsAssumption
<1>2. LET stored == attempts[a].answers IN
      /\ new \in [attempt : {a}, task : {i}, answer : {x},
                  ready : BOOLEAN, passed : BOOLEAN, grants : BOOLEAN]
      /\ new.ready => \A j \in DOMAIN stored : j # i => stored[j] # None
      /\ new.passed => new.ready /\ Cal!Passes(attempts[a].set, [stored EXCEPT ![i] = x])
      /\ new.grants => new.passed
  BY <1>1, OutcomeMeans
<1> HIDE DEF new
<1>3. new.attempt = a /\ new.task = i /\ new.answer = x
  BY <1>2
<1>4. Cal!TypeOK'
  <2>1. /\ a \in 1 .. Len(attempts) /\ Len(attempts) \in Nat
        /\ i \in 1 .. Len(attempts[a].answers) /\ Len(attempts[a].answers) \in Nat
    BY <1>1, AttemptTypes, LenProperties DEF Cal!TypeOK
  <2>2. new \in Cal!Submission
    BY <1>2, <2>1 DEF Cal!Submission
  <2> QED BY <1>1, <1>3, <2>2 DEF Cal!TypeOK
<1>5. TasksApart'
  BY <1>1, <1>3 DEF CalInv, TasksApart
<1>6. OutcomesHold'
  BY <1>1, <1>2, <1>3 DEF CalInv, OutcomesHold
<1>7. Cal!QualificationsAreEarned'
  BY <1>1, EarnedKeeps DEF CalInv
<1> QED BY <1>4, <1>5, <1>6, <1>7 DEF CalInv

LEMMA ScoreCommitStep ==
  ASSUME Cal!ConstantsAssumption, CalInv, NEW f \in scoring, Cal!CommitSubmission(f)
  PROVE  CalInv'
<1> DEFINE a == f.attempt
           stored == attempts[a].answers
           answers == [stored EXCEPT ![f.task] = f.answer]
<1>1. /\ Cal!TypeOK /\ TasksApart /\ OutcomesHold /\ Cal!QualificationsAreEarned
      /\ f \in Cal!Submission /\ a \in DOMAIN attempts
      /\ f.task \in DOMAIN stored /\ stored[f.task] = None /\ f.answer \in Answers /\ f.answer # None
      /\ a \in 1 .. Len(attempts) /\ attempts[a] \in Cal!Attempt /\ stored \in Seq(Answers \cup {None})
      /\ scoring' = scoring \ {f} /\ sets' = sets
  BY ScoringTypes, AttemptTypes DEF CalInv, Cal!CommitSubmission, Cal!ConstantsAssumption
<1>2. /\ attempts' \in Seq(Cal!Attempt)
      /\ DOMAIN attempts' = DOMAIN attempts
      /\ \A b \in DOMAIN attempts : b # a => attempts'[b] = attempts[b]
      /\ attempts'[a].expert = attempts[a].expert
      /\ attempts'[a].set = attempts[a].set
      /\ attempts'[a].status = IF f.ready THEN "completed" ELSE attempts[a].status
      /\ attempts'[a].passed = IF f.ready THEN f.passed ELSE attempts[a].passed
      /\ attempts'[a].answers = answers
      /\ Len(answers) = Len(stored) /\ DOMAIN answers = DOMAIN stored
  BY <1>1, CommitEffect
<1>3. \A j \in DOMAIN stored : answers[j] = IF j = f.task THEN f.answer ELSE stored[j]
  BY <1>1
<1>4. None \in Cal!Range(stored)
  BY <1>1 DEF Cal!Range
<1>5. f.ready => None \notin Cal!Range(answers)
  <2>1. f.ready => \A j \in DOMAIN stored : j # f.task => stored[j] # None
    BY <1>1 DEF OutcomesHold
  <2> QED BY <1>1, <1>2, <1>3, <2>1 DEF Cal!Range
<1> HIDE DEF answers
<1>6. \A k \in DOMAIN qualifications : qualifications[k].attempt # a
  BY <1>1, <1>4 DEF Cal!QualificationsAreEarned
<1>7. /\ qualifications \in Seq(Cal!Qualification) /\ Len(qualifications) \in Nat
      /\ DOMAIN qualifications = 1 .. Len(qualifications)
  BY <1>1, LenProperties DEF Cal!TypeOK
<1>8. /\ Cal!NewQualification(f) \in Cal!Qualification
      /\ Cal!NewQualification(f).attempt = a
      /\ Cal!NewQualification(f).expert = attempts[a].expert
      /\ Cal!NewQualification(f).domain = attempts[a].set.domain
  <2>1. attempts[a].set.domain \in Domains /\ attempts[a].expert \in Trainees
    <3>1. attempts[a].set \in Cal!CalibrationSet
      BY <1>1, AttemptTypes DEF Cal!ConstantsAssumption
    <3> QED BY <1>1, <3>1 DEF Cal!CalibrationSet, Cal!Attempt
  <2>2. a \in Nat
    BY <1>1 DEF Cal!Submission
  <2> QED BY <2>1, <2>2 DEF Cal!NewQualification, Cal!Qualification
<1>9. \/ ~ f.grants /\ qualifications' = qualifications
      \/ f.grants /\ qualifications' = Append(qualifications, Cal!NewQualification(f))
  BY DEF Cal!CommitSubmission
<1>10. Cal!TypeOK'
  <2>1. profiles' \in [Trainees -> {"none", "calibration", "eligible"}]
    BY <1>1 DEF Cal!CommitSubmission, Cal!TypeOK
  <2>2. qualifications' \in Seq(Cal!Qualification)
    BY <1>7, <1>8, <1>9
  <2>3. \A b \in DOMAIN attempts' : Len(attempts'[b].answers) = Len(attempts'[b].set.refs)
    <3>1. \A b \in DOMAIN attempts : Len(attempts[b].answers) = Len(attempts[b].set.refs)
      BY <1>1 DEF Cal!TypeOK
    <3> QED BY <1>1, <1>2, <3>1
  <2>4. ASSUME NEW g \in scoring'
        PROVE  /\ g.attempt \in DOMAIN attempts'
               /\ g.task \in DOMAIN attempts'[g.attempt].answers
               /\ attempts'[g.attempt].answers[g.task] = None
    <3>1. g \in scoring /\ ~ (g.attempt = a /\ g.task = f.task)
      BY <1>1, <2>4 DEF TasksApart
    <3>2. /\ g.attempt \in DOMAIN attempts /\ g.task \in DOMAIN attempts[g.attempt].answers
          /\ attempts[g.attempt].answers[g.task] = None
      BY <1>1, <3>1, ScoringTypes
    <3> QED BY <1>2, <1>3, <3>1, <3>2
  <2>5. scoring' \subseteq Cal!Submission /\ sets' \subseteq SetInputs
    BY <1>1 DEF Cal!TypeOK
  <2> QED BY <1>2, <2>1, <2>2, <2>3, <2>4, <2>5 DEF Cal!TypeOK
<1>11. TasksApart'
  BY <1>1 DEF TasksApart
<1>12. OutcomesHold'
  <2> SUFFICES ASSUME NEW g \in scoring'
               PROVE  LET after == attempts'[g.attempt].answers IN
                      /\ g.ready => \A j \in DOMAIN after : j # g.task => after[j] # None
                      /\ g.passed =>
                           /\ g.ready
                           /\ Cal!Passes(attempts'[g.attempt].set, [after EXCEPT ![g.task] = g.answer])
                      /\ g.grants => g.passed
    BY Zenon DEF OutcomesHold
  <2>1. g \in scoring /\ g.attempt \in DOMAIN attempts /\ g # f
    BY <1>1, ScoringTypes
  <2>2. CASE g.attempt # a
    <3>1. attempts'[g.attempt] = attempts[g.attempt]
      BY <1>2, <2>1, <2>2
    <3>2. LET before == attempts[g.attempt].answers IN
          /\ g.ready => \A j \in DOMAIN before : j # g.task => before[j] # None
          /\ g.passed => /\ g.ready
                         /\ Cal!Passes(attempts[g.attempt].set, [before EXCEPT ![g.task] = g.answer])
          /\ g.grants => g.passed
      BY <1>1, <2>1, Zenon DEF OutcomesHold
    <3> QED BY <3>1, <3>2, Zenon
  <2>3. CASE g.attempt = a
    <3>1. f.task # g.task
      BY <1>1, <2>1, <2>3 DEF TasksApart
    <3>2. ~ g.ready
      BY <1>1, <2>1, <2>3, <3>1 DEF OutcomesHold
    <3> QED BY <1>1, <2>1, <3>2 DEF OutcomesHold
  <2> QED BY <2>2, <2>3
<1>13. Cal!QualificationsAreEarned'
  <2>1. CASE ~ f.grants /\ qualifications' = qualifications
    <3>1. \A b \in DOMAIN attempts : b \in DOMAIN attempts'
             /\ (None \notin Cal!Range(attempts[b].answers) => attempts'[b] = attempts[b])
      BY <1>2, <1>4
    <3> QED BY <1>1, <2>1, <3>1, EarnedKeeps
  <2>2. CASE f.grants /\ qualifications' = Append(qualifications, Cal!NewQualification(f))
    <3> DEFINE n == Len(qualifications) + 1
    <3>1. /\ DOMAIN qualifications' = 1 .. n /\ qualifications'[n] = Cal!NewQualification(f)
          /\ \A k \in DOMAIN qualifications : qualifications'[k] = qualifications[k]
          /\ \A k \in DOMAIN qualifications' : k = n \/ k \in DOMAIN qualifications
      BY <1>7, <1>8, <2>2
    <3>2. f.ready /\ f.passed /\ Cal!Passes(attempts[a].set, answers)
      BY <1>1, <2>2 DEF OutcomesHold, answers
    <3>3. /\ attempts'[a].status = "completed" /\ attempts'[a].passed
          /\ None \notin Cal!Range(attempts'[a].answers)
          /\ Cal!Passes(attempts'[a].set, attempts'[a].answers)
      BY <1>2, <1>5, <3>2
    <3>4. \A k \in DOMAIN qualifications :
            /\ qualifications[k].attempt \in DOMAIN attempts'
            /\ attempts'[qualifications[k].attempt] = attempts[qualifications[k].attempt]
      BY <1>1, <1>2, <1>6 DEF Cal!QualificationsAreEarned
    <3> HIDE DEF n
    <3> QED BY <1>1, <1>2, <1>6, <1>8, <3>1, <3>3, <3>4 DEF Cal!QualificationsAreEarned
  <2> QED BY <1>9, <2>1, <2>2
<1> QED BY <1>10, <1>11, <1>12, <1>13 DEF CalInv

LEMMA CalStep == ASSUME Cal!ConstantsAssumption, CalInv, [Cal!Next]_(Cal!vars) PROVE CalInv'
<1>1. ASSUME NEW e \in Trainees, Cal!UpsertProfile(e) PROVE CalInv'
  BY <1>1, QuietStep DEF Cal!UpsertProfile, CalInv, Cal!TypeOK
<1>2. ASSUME NEW s \in SetInputs, Cal!CreateCalibrationSet(s) PROVE CalInv'
  BY <1>2, QuietStep DEF Cal!CreateCalibrationSet, CalInv, Cal!TypeOK
<1>3. ASSUME NEW f \in scoring, Cal!AbortSubmission(f) PROVE CalInv'
  BY <1>3, QuietStep DEF Cal!AbortSubmission, CalInv, Cal!TypeOK
<1>4. CASE UNCHANGED Cal!vars
  BY <1>4, QuietStep DEF Cal!vars, CalInv, Cal!TypeOK
<1>5. CASE \/ \E k \in DOMAIN qualifications : Cal!QualificationLapses(k)
           \/ \E e \in Trainees, d \in Domains, D \in SUBSET Domains : Cal!Claim(e, d, D)
  <2>1. UNCHANGED <<profiles, sets, attempts, scoring>>
    BY <1>5 DEF Cal!QualificationLapses, Cal!Claim
  <2> QED BY <1>5, <2>1, RowsAge, AgeingStep DEF CalInv
<1>6. ASSUME NEW e \in Trainees, NEW s \in SetInputs, Cal!StartCalibration(e, s) PROVE CalInv'
  BY <1>6, StartStep
<1>7. ASSUME NEW a \in DOMAIN attempts, NEW x \in Answers, NEW i \in DOMAIN attempts[a].answers,
             Cal!ReadSubmission(a, i, x)
      PROVE  CalInv'
  BY <1>7, ScoreReadStep
<1>8. ASSUME NEW f \in scoring, Cal!CommitSubmission(f) PROVE CalInv'
  BY <1>8, ScoreCommitStep
<1> QED BY <1>1, <1>2, <1>3, <1>4, <1>5, <1>6, <1>7, <1>8, Zenon DEF Cal!Next

(* Every qualification was earned by one finished attempt whose stored answers pass, however
   many submissions are scored at the same time (submit_calibration_case).                   *)
THEOREM QualificationsEarned ==
  ASSUME Cal!ConstantsAssumption PROVE Cal!Spec => []Cal!QualificationsAreEarned
<1>1. CalInv => Cal!QualificationsAreEarned
  BY DEF CalInv
<1> QED BY <1>1, CalInit, CalStep, PTL DEF Cal!Spec

-----------------------------------------------------------------------------
(* Calibration, when every expert awaits an answer before the next submission *)

OnePerExpert ==
    \A f, g \in scoring : attempts[f.attempt].expert = attempts[g.attempt].expert => f = g

(* What a submission in flight has read is still so: an answer it has missed is missing,
   and an expert who is going to be granted a row has none.                             *)
ReadsHold ==
    \A f \in scoring :
        LET a == attempts[f.attempt] IN
        /\ ~ f.ready => \E j \in DOMAIN a.answers : j # f.task /\ a.answers[j] = None
        /\ f.grants => ~ Cal!HasActiveRow(a.expert, a.set.domain)

AloneInv == CalInv /\ ReadsHold /\ Cal!AnsweredMeansScored /\ Cal!OneActiveRow

LEMMA AloneInit == Cal!Init => AloneInv
BY CalInit DEF Cal!Init, AloneInv, ReadsHold, Cal!AnsweredMeansScored, Cal!OneActiveRow

LEMMA CommitAlone ==
  ASSUME Cal!ConstantsAssumption, AloneInv, OnePerExpert, NEW f \in scoring, Cal!CommitSubmission(f)
  PROVE  (ReadsHold /\ Cal!AnsweredMeansScored /\ Cal!OneActiveRow)'
<1> DEFINE a == f.attempt
           e == attempts[a].expert
           d == attempts[a].set.domain
           n == Len(qualifications) + 1
<1>1. /\ Cal!TypeOK /\ ReadsHold /\ Cal!AnsweredMeansScored /\ Cal!OneActiveRow
      /\ a \in DOMAIN attempts /\ scoring' = scoring \ {f}
  BY ScoringTypes DEF AloneInv, CalInv, Cal!CommitSubmission
<1>2. /\ DOMAIN attempts' = DOMAIN attempts
      /\ \A b \in DOMAIN attempts : b # a => attempts'[b] = attempts[b]
      /\ f.ready => attempts'[a].status = "completed"
      /\ attempts'[a].answers = [attempts[a].answers EXCEPT ![f.task] = f.answer]
  BY <1>1, CommitEffect
<1>3. /\ qualifications \in Seq(Cal!Qualification) /\ Len(qualifications) \in Nat
      /\ DOMAIN qualifications = 1 .. Len(qualifications)
  BY <1>1, LenProperties DEF Cal!TypeOK
<1>4. \/ ~ f.grants /\ qualifications' = qualifications
      \/ /\ f.grants
         /\ DOMAIN qualifications' = 1 .. n
         /\ \A k \in DOMAIN qualifications' : k = n \/ k \in DOMAIN qualifications
         /\ \A k \in DOMAIN qualifications : qualifications'[k] = qualifications[k]
         /\ qualifications'[n].expert = e /\ qualifications'[n].domain = d
  <2>1. CASE ~ f.grants
    BY <2>1 DEF Cal!CommitSubmission
  <2>2. CASE f.grants
    <3>1. qualifications' = Append(qualifications, Cal!NewQualification(f))
      BY <2>2 DEF Cal!CommitSubmission
    <3>2. Cal!NewQualification(f).expert = e /\ Cal!NewQualification(f).domain = d
      BY DEF Cal!NewQualification
    <3> QED BY <1>3, <2>2, <3>1, <3>2
  <2> QED BY <2>1, <2>2
<1> HIDE DEF n
<1>5. ReadsHold'
  <2> SUFFICES ASSUME NEW g \in scoring'
               PROVE  (LET b == attempts[g.attempt] IN
                       /\ ~ g.ready => \E j \in DOMAIN b.answers : j # g.task /\ b.answers[j] = None
                       /\ g.grants => ~ Cal!HasActiveRow(b.expert, b.set.domain))'
    BY DEF ReadsHold
  <2>1. g \in scoring /\ g # f /\ g.attempt \in DOMAIN attempts /\ attempts[g.attempt].expert # e
    BY <1>1, ScoringTypes DEF OnePerExpert
  <2>2. attempts'[g.attempt] = attempts[g.attempt]
    BY <1>2, <2>1
  <2>3. LET b == attempts[g.attempt] IN
        /\ ~ g.ready => \E j \in DOMAIN b.answers : j # g.task /\ b.answers[j] = None
        /\ g.grants => ~ Cal!HasActiveRow(b.expert, b.set.domain)
    BY <1>1, <2>1 DEF ReadsHold
  <2>4. g.grants => ~ Cal!HasActiveRow(attempts[g.attempt].expert, attempts[g.attempt].set.domain)'
    <3> DEFINE x == attempts[g.attempt].expert
               y == attempts[g.attempt].set.domain
    <3>1. x' = x /\ y' = y
      BY <2>2
    <3>2. ~ Cal!HasActiveRow(x, y) => ~ Cal!HasActiveRow(x, y)'
      BY <1>4, <2>1, <3>1 DEF Cal!HasActiveRow
    <3> QED BY <2>3, <3>2
  <2> QED BY <2>2, <2>3, <2>4
<1>6. Cal!AnsweredMeansScored'
  <2>1. ~ f.ready => None \in Cal!Range(attempts'[a].answers)
    <3>1. ~ f.ready => \E j \in DOMAIN attempts[a].answers : j # f.task /\ attempts[a].answers[j] = None
      BY <1>1 DEF ReadsHold
    <3> QED BY <1>2, <3>1 DEF Cal!Range
  <2> QED BY <1>1, <1>2, <2>1 DEF Cal!AnsweredMeansScored
<1>7. Cal!OneActiveRow'
  <2>1. f.grants => ~ Cal!HasActiveRow(e, d)
    BY <1>1 DEF ReadsHold
  <2> QED BY <1>1, <1>4, <2>1 DEF Cal!OneActiveRow, Cal!HasActiveRow
<1> QED BY <1>5, <1>6, <1>7

LEMMA OtherAlone ==
  ASSUME AloneInv, UNCHANGED attempts, scoring' \subseteq scoring,
         DOMAIN qualifications' = DOMAIN qualifications,
         \A k \in DOMAIN qualifications :
            /\ qualifications'[k].expert = qualifications[k].expert
            /\ qualifications'[k].domain = qualifications[k].domain
            /\ qualifications'[k].status = "active" => qualifications[k].status = "active"
  PROVE  (ReadsHold /\ Cal!AnsweredMeansScored /\ Cal!OneActiveRow)'
<1>1. \A e, d : Cal!HasActiveRow(e, d)' => Cal!HasActiveRow(e, d)
  BY DEF Cal!HasActiveRow
<1>2. ReadsHold'
  BY <1>1 DEF AloneInv, ReadsHold
<1>3. Cal!AnsweredMeansScored' /\ Cal!OneActiveRow'
  BY DEF AloneInv, Cal!AnsweredMeansScored, Cal!OneActiveRow
<1> QED BY <1>2, <1>3

LEMMA AloneCalStep ==
  ASSUME Cal!ConstantsAssumption, AloneInv, OnePerExpert, [Cal!Next]_(Cal!vars)
  PROVE  AloneInv'
<1>1. CalInv' /\ CalInv /\ Cal!TypeOK
  BY CalStep DEF AloneInv, CalInv
<1>2. SUFFICES (ReadsHold /\ Cal!AnsweredMeansScored /\ Cal!OneActiveRow)'
  BY <1>1 DEF AloneInv
<1>3. CASE \/ \E e \in Trainees : Cal!UpsertProfile(e)
           \/ \E s \in SetInputs : Cal!CreateCalibrationSet(s)
           \/ \E f \in scoring : Cal!AbortSubmission(f)
           \/ UNCHANGED Cal!vars
  <2>1. UNCHANGED <<attempts, qualifications>> /\ scoring' \subseteq scoring
    BY <1>3 DEF Cal!UpsertProfile, Cal!CreateCalibrationSet, Cal!AbortSubmission, Cal!vars
  <2> QED BY <2>1, OtherAlone
<1>4. CASE \/ \E k \in DOMAIN qualifications : Cal!QualificationLapses(k)
           \/ \E e \in Trainees, d \in Domains, D \in SUBSET Domains : Cal!Claim(e, d, D)
  <2>1. UNCHANGED <<attempts, scoring>>
    BY <1>4 DEF Cal!QualificationLapses, Cal!Claim
  <2> QED BY <1>1, <1>4, <2>1, RowsAge, OtherAlone
<1>5. ASSUME NEW e \in Trainees, NEW s \in SetInputs, Cal!StartCalibration(e, s)
      PROVE  (ReadsHold /\ Cal!AnsweredMeansScored /\ Cal!OneActiveRow)'
  <2>1. /\ \A a \in DOMAIN attempts : a \in DOMAIN attempts' /\ attempts'[a] = attempts[a]
        /\ \A a \in DOMAIN attempts' \ DOMAIN attempts : None \in Cal!Range(attempts'[a].answers)
    BY <1>1, <1>5, StartEffect
  <2>4. UNCHANGED <<qualifications, scoring>>
    BY <1>5 DEF Cal!StartCalibration
  <2>2. ReadsHold'
    BY <1>1, <2>1, <2>4, ScoringTypes DEF AloneInv, ReadsHold, Cal!HasActiveRow
  <2>3. Cal!AnsweredMeansScored' /\ Cal!OneActiveRow'
    BY <2>1, <2>4 DEF AloneInv, Cal!AnsweredMeansScored, Cal!OneActiveRow
  <2> QED BY <2>2, <2>3
<1>6. ASSUME NEW a \in DOMAIN attempts, NEW x \in Answers, NEW i \in DOMAIN attempts[a].answers,
             Cal!ReadSubmission(a, i, x)
      PROVE  (ReadsHold /\ Cal!AnsweredMeansScored /\ Cal!OneActiveRow)'
  <2> DEFINE new == Cal!Outcome(a, i, x)
  <2>1. /\ UNCHANGED <<attempts, qualifications>> /\ scoring' = scoring \cup {new} /\ x # None
    BY <1>6 DEF Cal!ReadSubmission, Cal!ConstantsAssumption
  <2>2. /\ new.attempt = a /\ new.task = i
        /\ ~ new.ready => \E j \in DOMAIN attempts[a].answers : j # i /\ attempts[a].answers[j] = None
        /\ new.grants => ~ Cal!HasActiveRow(attempts[a].expert, attempts[a].set.domain)
    <3>1. LET stored == attempts[a].answers IN
          /\ new \in [attempt : {a}, task : {i}, answer : {x},
                      ready : BOOLEAN, passed : BOOLEAN, grants : BOOLEAN]
          /\ new.ready <=> \A j \in DOMAIN stored : j # i => stored[j] # None
          /\ new.passed => new.ready /\ Cal!Passes(attempts[a].set, [stored EXCEPT ![i] = x])
          /\ new.grants => new.passed /\ ~ Cal!HasActiveRow(attempts[a].expert, attempts[a].set.domain)
      BY <1>1, <1>6, <2>1, OutcomeMeans
    <3> HIDE DEF new
    <3> QED BY <3>1
  <2> HIDE DEF new
  <2>3. ReadsHold'
    BY <2>1, <2>2 DEF AloneInv, ReadsHold, Cal!HasActiveRow
  <2>4. Cal!AnsweredMeansScored' /\ Cal!OneActiveRow'
    BY <2>1 DEF AloneInv, Cal!AnsweredMeansScored, Cal!OneActiveRow
  <2> QED BY <2>3, <2>4
<1> QED BY <1>3, <1>4, <1>5, <1>6, CommitAlone DEF Cal!Next

(* An attempt that is answered has been scored, and nobody has two rows that a claim would
   look at, as long as every expert awaits an answer before submitting again: whether an
   attempt is finished and whether there is a row already is read without a lock
   (submit_calibration, _complete_calibration_if_ready).                                  *)
THEOREM ScoredAndUnique ==
  ASSUME Cal!ConstantsAssumption
  PROVE  Cal!Spec /\ []OnePerExpert => [](Cal!AnsweredMeansScored /\ Cal!OneActiveRow)
<1>1. AloneInv => Cal!AnsweredMeansScored /\ Cal!OneActiveRow
  BY DEF AloneInv
<1> QED BY <1>1, AloneInit, AloneCalStep, PTL DEF Cal!Spec

(* What a claim sees of an expert in a domain. *)
StandingMap == [q \in Trainees \X Domains |-> Cal!StandingOf(q[1], q[2])]

LEMMA StandingMeans ==
  /\ \A e, d : Cal!StandingOf(e, d) = "none" <=> ~ Cal!HasActiveRow(e, d)
  /\ Cal!OneActiveRow =>
        \A k \in DOMAIN qualifications :
            qualifications[k].status = "active" =>
                Cal!StandingOf(qualifications[k].expert, qualifications[k].domain) =
                    IF qualifications[k].lapsed THEN "lapsed" ELSE "active"
<1>1. \A e, d : Cal!StandingOf(e, d) = "none" <=> ~ Cal!HasActiveRow(e, d)
  BY DEF Cal!StandingOf, Cal!HasActiveRow
<1>2. ASSUME Cal!OneActiveRow, NEW k \in DOMAIN qualifications, qualifications[k].status = "active"
      PROVE  Cal!StandingOf(qualifications[k].expert, qualifications[k].domain) =
                 IF qualifications[k].lapsed THEN "lapsed" ELSE "active"
  <2> DEFINE live == {l \in DOMAIN qualifications :
                        /\ qualifications[l].expert = qualifications[k].expert
                        /\ qualifications[l].domain = qualifications[k].domain
                        /\ qualifications[l].status = "active"}
  <2>1. live = {k}
    BY <1>2 DEF Cal!OneActiveRow
  <2> QED BY <2>1 DEF Cal!StandingOf
<1> QED BY <1>1, <1>2

LEMMA StandingMeansNext ==
  /\ \A e, d : Cal!StandingOf(e, d)' = "none" <=> ~ Cal!HasActiveRow(e, d)'
  /\ Cal!OneActiveRow' =>
        \A k \in DOMAIN qualifications' :
            qualifications'[k].status = "active" =>
                \A e, d : qualifications'[k].expert = e /\ qualifications'[k].domain = d =>
                    Cal!StandingOf(e, d)' = IF qualifications'[k].lapsed THEN "lapsed" ELSE "active"
<1>1. \A e, d : Cal!StandingOf(e, d)' = "none" <=> ~ Cal!HasActiveRow(e, d)'
  BY DEF Cal!StandingOf, Cal!HasActiveRow
<1>2. ASSUME Cal!OneActiveRow', NEW k \in DOMAIN qualifications', qualifications'[k].status = "active",
             NEW e, NEW d, qualifications'[k].expert = e, qualifications'[k].domain = d
      PROVE  Cal!StandingOf(e, d)' = IF qualifications'[k].lapsed THEN "lapsed" ELSE "active"
  <2> DEFINE live == {l \in DOMAIN qualifications' :
                        /\ qualifications'[l].expert = e
                        /\ qualifications'[l].domain = d
                        /\ qualifications'[l].status = "active"}
  <2>1. live = {k}
    BY <1>2 DEF Cal!OneActiveRow
  <2> QED BY <2>1 DEF Cal!StandingOf
<1> QED BY <1>1, <1>2

LEMMA StandingInit == Cal!Init => Cal!S!Init
BY DEF Cal!Init, Cal!S!Init, Cal!StandingOf

(* What standing is and will be, pair by pair. *)
LEMMA StandingKept ==
  ASSUME NEW q \in Trainees \X Domains, AloneInv, AloneInv',
         \A k \in DOMAIN qualifications :
            qualifications[k].expert = q[1] /\ qualifications[k].domain = q[2] =>
               /\ k \in DOMAIN qualifications'
               /\ qualifications'[k] = qualifications[k],
         \A k \in DOMAIN qualifications' :
            qualifications'[k].expert = q[1] /\ qualifications'[k].domain = q[2] =>
               k \in DOMAIN qualifications /\ qualifications'[k] = qualifications[k]
  PROVE  StandingMap'[q] = StandingMap[q]
<1>1. {k \in DOMAIN qualifications' :
         /\ qualifications'[k].expert = q[1] /\ qualifications'[k].domain = q[2]
         /\ qualifications'[k].status = "active"}
      = {k \in DOMAIN qualifications :
         /\ qualifications[k].expert = q[1] /\ qualifications[k].domain = q[2]
         /\ qualifications[k].status = "active"}
  OBVIOUS
<1>2. Cal!StandingOf(q[1], q[2])' = Cal!StandingOf(q[1], q[2])
  BY <1>1 DEF Cal!StandingOf
<1> QED BY <1>2 DEF StandingMap

LEMMA EarnStep ==
  ASSUME Cal!ConstantsAssumption, AloneInv, AloneInv', NEW f \in scoring,
         Cal!CommitSubmission(f), f.grants
  PROVE  \E q \in Trainees \X Domains : Cal!S!Earn(q)
<1> DEFINE new == Cal!NewQualification(f)
           n == Len(qualifications) + 1
<1>1. /\ Cal!TypeOK /\ Cal!OneActiveRow' /\ f.attempt \in DOMAIN attempts
      /\ qualifications \in Seq(Cal!Qualification) /\ Len(qualifications) \in Nat
      /\ DOMAIN qualifications = 1 .. Len(qualifications)
      /\ qualifications' = Append(qualifications, new)
  <2>1. Cal!TypeOK /\ Cal!OneActiveRow' /\ qualifications' = Append(qualifications, new)
    BY DEF AloneInv, CalInv, Cal!CommitSubmission
  <2> QED BY <2>1, ScoringTypes, LenProperties DEF Cal!TypeOK
<1>2. new.expert \in Trainees /\ new.domain \in Domains /\ new.status = "active" /\ ~ new.lapsed
  <2>1. attempts[f.attempt] \in Cal!Attempt /\ attempts[f.attempt].set \in Cal!CalibrationSet
    BY <1>1, AttemptTypes DEF Cal!ConstantsAssumption
  <2> QED BY <2>1 DEF Cal!NewQualification, Cal!Attempt, Cal!CalibrationSet
<1>3. ~ Cal!HasActiveRow(new.expert, new.domain)
  BY DEF AloneInv, ReadsHold, Cal!NewQualification
<1> HIDE DEF new
<1>4. /\ DOMAIN qualifications' = 1 .. n /\ qualifications'[n] = new
      /\ \A k \in DOMAIN qualifications : k \in DOMAIN qualifications' /\ qualifications'[k] = qualifications[k]
      /\ \A k \in DOMAIN qualifications' : k = n \/ k \in DOMAIN qualifications
  BY <1>1
<1>5. PICK q \in Trainees \X Domains : q = <<new.expert, new.domain>>
  BY <1>2
<1>6. StandingMap[q] = "none"
  BY <1>3, <1>5, StandingMeans DEF StandingMap
<1>7. StandingMap'[q] = "active"
  <2>1. n \in DOMAIN qualifications'
    BY <1>1, <1>4
  <2>2. Cal!StandingOf(q[1], q[2])' = "active"
    BY <1>1, <1>2, <1>4, <1>5, <2>1, StandingMeansNext
  <2> QED BY <2>2 DEF StandingMap
<1>8. ASSUME NEW r \in Trainees \X Domains, r # q PROVE StandingMap'[r] = StandingMap[r]
  <2>1. ~ (new.expert = r[1] /\ new.domain = r[2])
    BY <1>5, <1>8
  <2> QED BY <1>4, <2>1, StandingKept
<1>9. StandingMap' = [StandingMap EXCEPT ![q] = "active"]
  BY <1>5, <1>7, <1>8 DEF StandingMap
<1>10. Cal!S!Earn(q)
  BY <1>6, <1>9 DEF Cal!S!Earn, StandingMap
<1> QED BY <1>5, <1>10

LEMMA LapseStep ==
  ASSUME Cal!ConstantsAssumption, AloneInv, AloneInv', NEW k \in DOMAIN qualifications,
         Cal!QualificationLapses(k)
  PROVE  \E q \in Trainees \X Domains : Cal!S!Lapse(q)
<1> DEFINE old == qualifications[k]
           new == [old EXCEPT !.lapsed = TRUE]
<1>1. /\ Cal!OneActiveRow /\ Cal!OneActiveRow' /\ old.status = "active" /\ ~ old.lapsed
      /\ qualifications' = [qualifications EXCEPT ![k] = new]
  BY DEF AloneInv, Cal!QualificationLapses
<1>2. old \in Cal!Qualification
  BY ElementOfSeq, LenProperties DEF AloneInv, CalInv, Cal!TypeOK
<1>3. new.expert = old.expert /\ new.domain = old.domain /\ new.status = "active" /\ new.lapsed
  BY <1>1, <1>2 DEF Cal!Qualification
<1>4. PICK q \in Trainees \X Domains : q = <<old.expert, old.domain>>
  BY <1>2 DEF Cal!Qualification
<1> HIDE DEF new
<1>5. /\ DOMAIN qualifications' = DOMAIN qualifications /\ qualifications'[k] = new
      /\ \A l \in DOMAIN qualifications : l # k => qualifications'[l] = qualifications[l]
  BY <1>1
<1>6. StandingMap[q] = "active"
  <2>1. Cal!StandingOf(old.expert, old.domain) = "active"
    BY <1>1, StandingMeans
  <2> QED BY <1>4, <2>1 DEF StandingMap
<1>7. StandingMap'[q] = "lapsed"
  <2>1. Cal!StandingOf(q[1], q[2])' = "lapsed"
    BY <1>1, <1>3, <1>4, <1>5, StandingMeansNext
  <2> QED BY <1>4, <2>1 DEF StandingMap
<1>8. ASSUME NEW r \in Trainees \X Domains, r # q PROVE StandingMap'[r] = StandingMap[r]
  <2>1. ~ (old.expert = r[1] /\ old.domain = r[2])
    BY <1>4, <1>8
  <2> QED BY <1>3, <1>5, <2>1, StandingKept
<1>9. StandingMap' = [StandingMap EXCEPT ![q] = "lapsed"]
  BY <1>4, <1>7, <1>8 DEF StandingMap
<1>10. Cal!S!Lapse(q)
  BY <1>6, <1>9 DEF Cal!S!Lapse, StandingMap
<1> QED BY <1>4, <1>10

LEMMA NoticeStep ==
  ASSUME Cal!ConstantsAssumption, AloneInv, AloneInv',
         NEW e \in Trainees, NEW d \in Domains, NEW D \in SUBSET Domains, Cal!Claim(e, d, D)
  PROVE  \E B \in SUBSET Domains : Cal!S!Notice(e, B)
<1> DEFINE B == {x \in D \cup {d} : Cal!NeedsQualification(x)}
<1>1. B \in SUBSET Domains
  OBVIOUS
<1>2. /\ Cal!OneActiveRow /\ Cal!OneActiveRow'
      /\ DOMAIN qualifications' = DOMAIN qualifications
      /\ \A k \in DOMAIN qualifications :
            qualifications'[k] = Cal!Marked(qualifications[k], e, D \cup {d})
  BY DEF AloneInv, Cal!Claim
<1>3. \A k \in DOMAIN qualifications : qualifications[k] \in Cal!Qualification
  BY ElementOfSeq, LenProperties DEF AloneInv, CalInv, Cal!TypeOK
<1>4. ASSUME NEW k \in DOMAIN qualifications
      PROVE  LET old == qualifications[k]
                 new == qualifications'[k]
             IN  /\ new.expert = old.expert /\ new.domain = old.domain
                 /\ IF old.expert = e /\ old.domain \in B /\ old.status = "active" /\ old.lapsed
                      THEN new.status = "expired" ELSE new = old
  <2>1. qualifications[k] \in Cal!Qualification
    BY <1>3
  <2> QED BY <1>2, <2>1 DEF Cal!Marked, Cal!Qualification
<1> HIDE DEF B
<1>5. ASSUME NEW q \in Trainees \X Domains
      PROVE  StandingMap'[q] = IF q[1] = e /\ q[2] \in B /\ StandingMap[q] = "lapsed"
                                 THEN "none" ELSE StandingMap[q]
  <2>1. StandingMap[q] = Cal!StandingOf(q[1], q[2]) /\ StandingMap'[q] = Cal!StandingOf(q[1], q[2])'
    BY DEF StandingMap
  <2>2. CASE ~ Cal!HasActiveRow(q[1], q[2])
    <3>1. ~ Cal!HasActiveRow(q[1], q[2])'
      BY <1>2, <1>4, <2>2 DEF Cal!HasActiveRow
    <3>2. Cal!StandingOf(q[1], q[2]) = "none" /\ Cal!StandingOf(q[1], q[2])' = "none"
      BY <2>2, <3>1, StandingMeans, StandingMeansNext
    <3> QED BY <2>1, <3>2
  <2>3. CASE Cal!HasActiveRow(q[1], q[2])
    <3>1. PICK k \in DOMAIN qualifications : /\ qualifications[k].expert = q[1]
                                             /\ qualifications[k].domain = q[2]
                                             /\ qualifications[k].status = "active"
      BY <2>3 DEF Cal!HasActiveRow
    <3>2. Cal!StandingOf(q[1], q[2]) = IF qualifications[k].lapsed THEN "lapsed" ELSE "active"
      BY <1>2, <3>1, StandingMeans
    <3>3. CASE q[1] = e /\ q[2] \in B /\ qualifications[k].lapsed
      <4>1. qualifications'[k].status = "expired"
        BY <1>4, <3>1, <3>3
      <4>2. ~ Cal!HasActiveRow(q[1], q[2])'
        BY <1>2, <1>4, <3>1, <4>1 DEF Cal!HasActiveRow, Cal!OneActiveRow
      <4>3. Cal!StandingOf(q[1], q[2])' = "none"
        BY <4>2, StandingMeansNext
      <4> QED BY <2>1, <3>2, <3>3, <4>3
    <3>4. CASE ~ (q[1] = e /\ q[2] \in B /\ qualifications[k].lapsed)
      <4>1. qualifications'[k] = qualifications[k] /\ k \in DOMAIN qualifications'
        BY <1>2, <1>4, <3>1, <3>4
      <4>2. Cal!StandingOf(q[1], q[2])' = IF qualifications[k].lapsed THEN "lapsed" ELSE "active"
        BY <1>2, <3>1, <4>1, StandingMeansNext
      <4> QED BY <2>1, <3>2, <3>4, <4>2
    <3> QED BY <3>3, <3>4
  <2> QED BY <2>2, <2>3
<1>6. Cal!S!Notice(e, B)
  BY <1>5 DEF Cal!S!Notice, StandingMap
<1> QED BY <1>1, <1>6

LEMMA StandingSteps ==
  ASSUME Cal!ConstantsAssumption, AloneInv, AloneInv', [Cal!Next]_(Cal!vars)
  PROVE  [Cal!S!Next]_StandingMap
<1>1. ASSUME UNCHANGED qualifications PROVE UNCHANGED StandingMap
  BY <1>1 DEF StandingMap, Cal!StandingOf
<1>2. CASE \/ \E e \in Trainees : Cal!UpsertProfile(e)
           \/ \E s \in SetInputs : Cal!CreateCalibrationSet(s)
           \/ \E e \in Trainees, s \in SetInputs : Cal!StartCalibration(e, s)
           \/ \E a \in DOMAIN attempts, x \in Answers :
                \E i \in DOMAIN attempts[a].answers : Cal!ReadSubmission(a, i, x)
           \/ \E f \in scoring : Cal!AbortSubmission(f)
           \/ UNCHANGED Cal!vars
  <2>1. UNCHANGED qualifications
    BY <1>2 DEF Cal!UpsertProfile, Cal!CreateCalibrationSet, Cal!StartCalibration, Cal!ReadSubmission,
                Cal!AbortSubmission, Cal!vars
  <2> QED BY <1>1, <2>1
<1>3. ASSUME NEW f \in scoring, Cal!CommitSubmission(f) PROVE [Cal!S!Next]_StandingMap
  <2>1. CASE f.grants
    BY <1>3, <2>1, EarnStep DEF Cal!S!Next
  <2>2. CASE ~ f.grants
    <3>1. UNCHANGED qualifications
      BY <1>3, <2>2 DEF Cal!CommitSubmission
    <3> QED BY <1>1, <3>1
  <2> QED BY <2>1, <2>2
<1>4. ASSUME NEW k \in DOMAIN qualifications, Cal!QualificationLapses(k) PROVE [Cal!S!Next]_StandingMap
  BY <1>4, LapseStep DEF Cal!S!Next
<1>5. ASSUME NEW e \in Trainees, NEW d \in Domains, NEW D \in SUBSET Domains, Cal!Claim(e, d, D)
      PROVE  [Cal!S!Next]_StandingMap
  BY <1>5, NoticeStep DEF Cal!S!Next
<1> QED BY <1>2, <1>3, <1>4, <1>5 DEF Cal!Next

(* The calibration programme implements what claims assume of it, under the same condition:
   a qualification is earned by who has none, lapses, and is in the way of a new one until
   a claim has noticed it.                                                                  *)
THEOREM CalibrationIsStanding ==
  ASSUME Cal!ConstantsAssumption
  PROVE  Cal!Spec /\ []OnePerExpert => Cal!RefinesStanding
<1>1. AloneInv /\ AloneInv' /\ [Cal!Next]_(Cal!vars) => [Cal!S!Next]_StandingMap
  BY StandingSteps
<1> QED BY <1>1, AloneInit, AloneCalStep, StandingInit, PTL
        DEF Cal!Spec, Cal!RefinesStanding, Cal!S!Spec, StandingMap

(* One submission in flight, which is what SQLite's single writer gives. *)
OneScoring == scoring = {} \/ \E f : scoring = {f}

LEMMA SameSize == ASSUME NEW S PROVE Cal!Cardinality(S) = Cardinality(S)
BY DEF Cal!Cardinality, Cardinality

LEMMA OneScoringStep == ASSUME ScoringInFlight = 1, OneScoring, [Cal!Next]_(Cal!vars) PROVE OneScoring'
<1>1. ASSUME NEW a, NEW i, NEW x, Cal!ReadSubmission(a, i, x) PROVE OneScoring'
  <2>1. Cardinality(scoring) < 1
    BY <1>1, SameSize DEF Cal!ReadSubmission
  <2>2. \A f : Cardinality({f}) = 1
    BY FS_Singleton
  <2>3. scoring = {}
    BY <2>1, <2>2 DEF OneScoring
  <2> QED BY <1>1, <2>3 DEF Cal!ReadSubmission, OneScoring
<1>2. ASSUME scoring' \subseteq scoring PROVE OneScoring'
  BY <1>2 DEF OneScoring
<1>3. \/ \E a, i, x : Cal!ReadSubmission(a, i, x)
      \/ scoring' \subseteq scoring
  BY Zenon DEF Cal!Next, Cal!vars, Cal!UpsertProfile, Cal!CreateCalibrationSet, Cal!StartCalibration,
         Cal!CommitSubmission, Cal!AbortSubmission, Cal!QualificationLapses, Cal!Claim
<1> QED BY <1>1, <1>2, <1>3

(* So all of this holds where submissions are handled one at a time. *)
THEOREM CalibrationOneAtATime ==
  ASSUME Cal!ConstantsAssumption, ScoringInFlight = 1
  PROVE  Cal!Spec => [](Cal!AnsweredMeansScored /\ Cal!OneActiveRow) /\ Cal!RefinesStanding
<1>1. Cal!Init => OneScoring
  BY DEF Cal!Init, OneScoring
<1>2. OneScoring => OnePerExpert
  BY DEF OneScoring, OnePerExpert
<1>3. OneScoring /\ [Cal!Next]_(Cal!vars) => OneScoring'
  BY OneScoringStep
<1>4. Cal!Spec => []OneScoring
  BY <1>1, <1>3, PTL DEF Cal!Spec
<1>5. Cal!Spec => []OnePerExpert
  BY <1>2, <1>4, PTL
<1> QED BY <1>5, ScoredAndUnique, CalibrationIsStanding, PTL
-----------------------------------------------------------------------------
(* Novel concerns: what is stored, and what decisions in flight have read *)

(* A major or critical candidate. *)
Severe(c) == Nov!RequiresTwoPrimaries(candidates[c].severity)

(* Tasks are those of a candidate: a secondary one only if it is severe, a tie-break
   only after both primaries; a task is held from its claim on.                      *)
TasksFit ==
    \A t \in Nov!TaskIds :
        /\ novelTasks[t].status \in {"absent", "pending"} <=> novelTasks[t].holder = Nobody
        /\ novelTasks[t].status # "absent" =>
             /\ candidates[t[1]] # Nov!Absent
             /\ t[2] = "secondary" => Severe(t[1])
             /\ t[2] = "tie_break" =>
                  \A s \in Nov!PrimarySlots : novelTasks[<<t[1], s>>].status = "completed"

(* A decision completes its task, and a task has one decision. *)
RowsFit ==
    /\ \A c \in Candidates : \A k \in DOMAIN decisions[c] :
         /\ decisions[c][k].task[1] = c
         /\ novelTasks[decisions[c][k].task].status = "completed"
         /\ \A l \in DOMAIN decisions[c] : decisions[c][k].task = decisions[c][l].task => k = l
    /\ \A t \in Nov!TaskIds : novelTasks[t].status = "completed" =>
         \E k \in DOMAIN decisions[t[1]] : decisions[t[1]][k].task = t

(* The policy has been applied to decisions on different tasks of the candidate. *)
Judged(c, two, rows, result) ==
    /\ rows \in Seq(Nov!Row) /\ rows # << >>
    /\ \A k \in DOMAIN rows :
         /\ rows[k].task[1] = c
         /\ \A l \in DOMAIN rows : rows[k].task = rows[l].task => k = l
    /\ Nov!Acceptable(rows)
    /\ result = Nov!DetermineNovel(rows, two)

SettlementsFit ==
    \A k \in DOMAIN settlements :
        LET d == settlements[k] IN
        /\ candidates[d.cand] # Nov!Absent
        /\ Judged(d.cand, Severe(d.cand), d.rows, d.result)
        /\ \A i \in DOMAIN d.rows :
              \E j \in DOMAIN decisions[d.cand] : decisions[d.cand][j] = d.rows[i]
        /\ d.result.tieBreak => novelTasks[<<d.cand, "tie_break">>].status # "absent"

(* What a request in flight has read is still so, and what it is going to write follows
   from it.                                                                            *)
ClaimHolds(f) == novelTasks[f.task].status = "pending"

DecisionHolds(f) ==
    LET c == f.task[1] IN
    /\ novelTasks[f.task].status = "claimed"
    /\ ~ Nov!HasFinal(c)
    /\ f.row.task = f.task /\ f.rows = Append(decisions[c], f.row)
    /\ Judged(c, Severe(c), f.rows, f.result)
    /\ f.card # Nov!NoCard => f.result.final /\ f.result.outcome = "confirmed"
    /\ f.rescore => f.card # Nov!NoCard /\ f.card.immutable

NovelClaim    == [kind : {"claim"}, task : Nov!TaskIds, expert : Novelists]
NovelDecision == [kind : {"submit"}, task : Nov!TaskIds, row : Nov!Row, rows : Seq(Nov!Row),
                  result : Nov!Result, card : Cards \cup {Nov!NoCard}, rescore : BOOLEAN]

SettlingHolds ==
    \A f \in settling : \/ f \in NovelClaim /\ ClaimHolds(f)
                        \/ f \in NovelDecision /\ DecisionHolds(f)

(* No two requests in flight are about the same candidate. *)
OnePerCandidate == \A f, g \in settling : f.task[1] = g.task[1] => f = g

NovInv == /\ Nov!TypeOK
          /\ TasksFit /\ RowsFit /\ SettlementsFit /\ SettlingHolds
          /\ Nov!SettledOnce /\ Nov!StateIsOutcome /\ Nov!SuccessorsTraceable

-----------------------------------------------------------------------------
(* The policy for novel concerns *)

(* What the fields of a decision range over. *)
LEMMA RowFields ==
  ASSUME NEW rows \in Seq(Nov!Row), NEW k \in DOMAIN rows
  PROVE  /\ rows[k] \in Nov!Row
         /\ rows[k].task \in Nov!TaskIds /\ rows[k].task[2] \in Nov!NovelSlots
         /\ rows[k].validity \in Nov!Reg!Validities /\ rows[k].severity \in Nov!Reg!Severities
<1>1. rows[k] \in Nov!Row
  <2>1. DOMAIN rows = 1 .. Len(rows)
    BY LenProperties
  <2> QED BY <2>1, ElementOfSeq
<1>2. rows[k].task \in Nov!TaskIds
  BY <1>1 DEF Nov!Row
<1>3. rows[k].task[2] \in Nov!NovelSlots
  BY <1>2 DEF Nov!TaskIds
<1> QED BY <1>1, <1>2, <1>3 DEF Nov!Row

(* The primaries of an acceptable panel are none, one or two, its tie-break none or one. *)
LEMMA PanelShape ==
  ASSUME NEW rows \in Seq(Nov!Row), Nov!Acceptable(rows)
  PROVE  LET p == Nov!PrimaryRows(rows)
             t == Nov!TieRows(rows)
         IN  /\ p \cup t = DOMAIN rows /\ p \cap t = {}
             /\ \/ p = {}
                \/ \E i \in p : p = {i} /\ Nov!Min(p) = i
                \/ \E i, j \in p : /\ i < j /\ p = {i, j}
                                   /\ Nov!Min(p) = i /\ p \ {i} = {j} /\ Nov!Min({j}) = j
             /\ t = {} \/ \E k \in t : t = {k} /\ Nov!Max(t) = k
<1> DEFINE p == Nov!PrimaryRows(rows)
           t == Nov!TieRows(rows)
<1>1. /\ p \subseteq DOMAIN rows /\ t \subseteq DOMAIN rows
      /\ \A i, j, k \in p : i = j \/ i = k \/ j = k
      /\ \A i, k \in t : i = k
  BY Zenon DEF Nov!PrimaryRows, Nov!TieRows, Nov!Acceptable
<1>2. DOMAIN rows \subseteq Nat
  BY LenProperties
<1>3. p \cup t = DOMAIN rows /\ p \cap t = {}
  <2>1. \A k \in DOMAIN rows : rows[k].task[2] \in Nov!NovelSlots
    BY RowFields, Zenon
  <2> QED BY <2>1 DEF Nov!PrimaryRows, Nov!TieRows, Nov!NovelSlots, Nov!PrimarySlots
<1> HIDE DEF p, t
<1>4. \A i \in Nat : Nov!Min({i}) = i /\ Nov!Max({i}) = i
  BY DEF Nov!Min, Nov!Max
<1>5. \A i, j \in Nat : i < j => Nov!Min({i, j}) = i
  <2> SUFFICES ASSUME NEW i \in Nat, NEW j \in Nat, i < j PROVE Nov!Min({i, j}) = i
    OBVIOUS
  <2>1. \A x \in {i, j} : (\A y \in {i, j} : x =< y) <=> x = i
    OBVIOUS
  <2> QED BY <2>1 DEF Nov!Min
<1>6. \/ p = {}
      \/ \E i \in p : p = {i} /\ Nov!Min(p) = i
      \/ \E i, j \in p : /\ i < j /\ p = {i, j}
                         /\ Nov!Min(p) = i /\ p \ {i} = {j} /\ Nov!Min({j}) = j
  <2>1. ASSUME NEW i \in p, NEW j \in p, i < j
        PROVE  p = {i, j} /\ Nov!Min(p) = i /\ p \ {i} = {j} /\ Nov!Min({j}) = j
    <3>1. p = {i, j}
      BY <1>1, <1>2, <2>1
    <3> QED BY <1>1, <1>2, <1>4, <1>5, <2>1, <3>1
  <2>2. CASE \E i, j \in p : i < j
    BY <2>1, <2>2
  <2>3. CASE ~ \E i, j \in p : i < j
    <3>1. \A i, j \in p : i = j
      BY <1>1, <1>2, <2>3
    <3>2. \A i \in p : p = {i}
      BY <3>1
    <3> QED BY <1>1, <1>2, <1>4, <3>2
  <2> QED BY <2>2, <2>3
<1>7. t = {} \/ \E k \in t : t = {k} /\ Nov!Max(t) = k
  <2>1. \A k \in t : t = {k}
    BY <1>1
  <2> QED BY <1>1, <1>2, <1>4, <2>1
<1> QED BY <1>3, <1>6, <1>7 DEF p, t

(* What the policy makes of one or two decisions: it settles what two primaries agree
   on, what a tie-break decides, and what one primary says of a candidate that needs no
   second; it asks for a tie-break only beside two primaries and none there.           *)
LEMMA PolicyMeans ==
  ASSUME NEW rows \in Seq(Nov!Row), Nov!Acceptable(rows), NEW two \in BOOLEAN
  PROVE  LET p == Nov!PrimaryRows(rows)
             t == Nov!TieRows(rows)
             r == Nov!DetermineNovel(rows, two)
         IN  /\ r \in Nov!Result
             /\ r.tieBreak => /\ ~ r.final /\ t = {}
                              /\ \E i, j \in p : i # j
             /\ r.final => \/ \E i, j \in p : i # j
                           \/ ~ two /\ t = {} /\ \E i \in p : p = {i}
<1> DEFINE p == Nov!PrimaryRows(rows)
           t == Nov!TieRows(rows)
           r == Nov!DetermineNovel(rows, two)
<1>1. /\ p \cup t = DOMAIN rows
      /\ \/ p = {}
         \/ \E i \in p : p = {i} /\ Nov!Min(p) = i
         \/ \E i, j \in p : /\ i < j /\ p = {i, j}
                            /\ Nov!Min(p) = i /\ p \ {i} = {j} /\ Nov!Min({j}) = j
      /\ t = {} \/ \E k \in t : t = {k} /\ Nov!Max(t) = k
  BY PanelShape, Zenon
<1>2. \A k \in DOMAIN rows : rows[k].validity \in Nov!Reg!Validities /\ rows[k].severity \in Nov!Reg!Severities
  BY RowFields, Zenon
<1>3. /\ \A v \in Nov!Reg!Validities, s \in Nov!Reg!Severities :
            Nov!Settled([validity |-> v, severity |-> s])
              = [outcome |-> v, severity |-> s, tieBreak |-> FALSE, final |-> TRUE]
      /\ \A o : Nov!Settled(o) = [outcome |-> o.validity, severity |-> o.severity,
                                  tieBreak |-> FALSE, final |-> TRUE]
  BY DEF Nov!Settled
<1>4. \A s, b : Nov!Open(s, b) = [outcome |-> "unresolved", severity |-> s, tieBreak |-> b, final |-> FALSE]
  BY DEF Nov!Open
<1>5. /\ \A x, y \in Nov!Reg!Validities :
            /\ Nov!ValidityFromTwo(x, y).tie \in BOOLEAN
            /\ Nov!ValidityFromTwo(x, y).value \in Nov!Reg!Validities
      /\ \A x, y \in Nov!Reg!Severities :
            /\ Nov!SeverityFromTwo(x, y).tie \in BOOLEAN
            /\ Nov!SeverityFromTwo(x, y).value \in Nov!Reg!Severities \cup {-1}
            /\ ~ Nov!SeverityFromTwo(x, y).tie => Nov!SeverityFromTwo(x, y).value \in Nov!Reg!Severities
  BY DEF Nov!ValidityFromTwo, Nov!SeverityFromTwo, Nov!Reg!Validities, Nov!Reg!Severities, Nov!Lower
<1> DEFINE Fits(x) == /\ x \in Nov!Result
                      /\ x.tieBreak => /\ ~ x.final /\ t = {}
                                       /\ \E i, j \in p : i # j
                      /\ x.final => \/ \E i, j \in p : i # j
                                    \/ ~ two /\ t = {} /\ \E i \in p : p = {i}
<1>6. r = IF p = {} THEN Nov!Open(-1, FALSE)
          ELSE IF p \ {Nov!Min(p)} # {}
                 THEN Nov!Reconcile(rows[Nov!Min(p)], rows[Nov!Min(p \ {Nov!Min(p)})], rows)
          ELSE IF ~two /\ t = {} THEN Nov!Settled(rows[Nov!Min(p)])
          ELSE Nov!Open(-1, FALSE)
  BY Zenon DEF Nov!DetermineNovel
<1>7. Fits(Nov!Open(-1, FALSE))
  BY <1>4 DEF Nov!Result, Nov!Reg!Validities
<1>8. ASSUME NEW k \in DOMAIN rows,
             (\E i, j \in p : i # j) \/ (~ two /\ t = {} /\ \E i \in p : p = {i})
      PROVE  Fits(Nov!Settled(rows[k]))
  BY <1>2, <1>3, <1>8 DEF Nov!Result
<1>9. ASSUME NEW i \in p, NEW j \in p, i # j PROVE Fits(Nov!Reconcile(rows[i], rows[j], rows))
  <2> DEFINE v == Nov!ValidityFromTwo(rows[i].validity, rows[j].validity)
             s == Nov!SeverityFromTwo(rows[i].severity, rows[j].severity)
  <2>1. Nov!Reconcile(rows[i], rows[j], rows) =
          IF ~(v.tie \/ s.tie) THEN Nov!Settled([validity |-> v.value, severity |-> s.value])
          ELSE IF t = {} THEN Nov!Open(s.value, TRUE)
          ELSE Nov!Settled(rows[Nov!Max(t)])
    BY Zenon DEF Nov!Reconcile
  <2>2. /\ v.value \in Nov!Reg!Validities /\ s.value \in Nov!Reg!Severities \cup {-1}
        /\ ~ s.tie => s.value \in Nov!Reg!Severities
    BY <1>1, <1>2, <1>5
  <2> HIDE DEF v, s
  <2>3. CASE ~(v.tie \/ s.tie)
    <3>1. Nov!Reconcile(rows[i], rows[j], rows)
            = [outcome |-> v.value, severity |-> s.value, tieBreak |-> FALSE, final |-> TRUE]
      BY <1>3, <2>1, <2>2, <2>3
    <3> QED BY <1>9, <2>2, <2>3, <3>1 DEF Nov!Result
  <2>4. CASE (v.tie \/ s.tie) /\ t = {}
    <3>1. Nov!Reconcile(rows[i], rows[j], rows)
            = [outcome |-> "unresolved", severity |-> s.value, tieBreak |-> TRUE, final |-> FALSE]
      BY <1>4, <2>1, <2>4
    <3> QED BY <1>9, <2>2, <2>4, <3>1 DEF Nov!Result, Nov!Reg!Validities
  <2>5. CASE (v.tie \/ s.tie) /\ t # {}
    <3>1. Nov!Reconcile(rows[i], rows[j], rows) = Nov!Settled(rows[Nov!Max(t)]) /\ Nov!Max(t) \in DOMAIN rows
      BY <1>1, <2>1, <2>5
    <3> QED BY <1>8, <1>9, <3>1
  <2> QED BY <2>3, <2>4, <2>5
<1>10. Fits(r)
  <2>1. CASE p = {}
    BY <1>6, <1>7, <2>1
  <2>2. ASSUME NEW i \in p, p = {i}, Nov!Min(p) = i PROVE Fits(r)
    <3>1. r = IF ~two /\ t = {} THEN Nov!Settled(rows[i]) ELSE Nov!Open(-1, FALSE)
      BY <1>6, <2>2
    <3>2. i \in DOMAIN rows
      BY <1>1
    <3>3. ~two /\ t = {} => Fits(Nov!Settled(rows[i]))
      BY <1>8, <2>2, <3>2
    <3> HIDE DEF Fits
    <3> QED BY <1>7, <3>1, <3>3
  <2>3. ASSUME NEW i \in p, NEW j \in p, i < j, p = {i, j}, Nov!Min(p) = i, p \ {i} = {j}, Nov!Min({j}) = j
        PROVE  Fits(r)
    <3>1. r = Nov!Reconcile(rows[i], rows[j], rows)
      BY <1>6, <2>3
    <3>2. i # j
      BY <1>1, <2>3, LenProperties
    <3>3. Fits(Nov!Reconcile(rows[i], rows[j], rows))
      BY <1>9, <3>2
    <3> HIDE DEF Fits
    <3> QED BY <3>1, <3>3
  <2> QED BY <1>1, <2>1, <2>2, <2>3
<1> QED BY <1>10

(* Of two primaries the policy makes what the registry's own makes of them, and of less
   than two nothing either.                                                           *)
Agreed(rows, result) ==
    LET r == Nov!Reg!Determine(Nov!AsRegistered(rows))
    IN  Len(rows) >= 2 =>
            /\ result.tieBreak = r.tieBreak
            /\ result.final = (r.status # Nov!Reg!UnderReview)
            /\ result.severity = r.severity
            /\ result.final => result.outcome = r.status

LEMMA PoliciesAgree ==
  ASSUME NEW rows \in Seq(Nov!Row), Nov!Acceptable(rows), NEW two \in BOOLEAN
  PROVE  Agreed(rows, Nov!DetermineNovel(rows, two))
<1> DEFINE p == Nov!PrimaryRows(rows)
           t == Nov!TieRows(rows)
           n == Nov!DetermineNovel(rows, two)
           g == Nov!AsRegistered(rows)
           r == Nov!Reg!Determine(g)
<1>1. /\ p \cup t = DOMAIN rows
      /\ \/ p = {}
         \/ \E i \in p : p = {i} /\ Nov!Min(p) = i
         \/ \E i, j \in p : /\ i < j /\ p = {i, j}
                            /\ Nov!Min(p) = i /\ p \ {i} = {j} /\ Nov!Min({j}) = j
      /\ t = {} \/ \E k \in t : t = {k} /\ Nov!Max(t) = k
  BY PanelShape, Zenon
<1>2. DOMAIN rows = 1 .. Len(rows) /\ Len(rows) \in Nat
  BY LenProperties
<1>3. DOMAIN g = DOMAIN rows
      /\ \A k \in DOMAIN rows : g[k].slot = rows[k].task[2] /\ g[k].validity = rows[k].validity
                                /\ g[k].severity = rows[k].severity
  BY DEF Nov!AsRegistered
<1>4. Nov!Reg!PrimaryRows(g) = p /\ Nov!Reg!TieRows(g) = t
  <2> HIDE DEF g
  <2> QED BY <1>3 DEF Nov!Reg!PrimaryRows, Nov!Reg!TieRows, Nov!PrimaryRows, Nov!TieRows,
        Nov!Reg!PrimarySlots, Nov!PrimarySlots, Nov!Reg!Primary, Nov!Reg!Secondary, Nov!Reg!TieBreak
<1>5. \A k \in DOMAIN rows : rows[k].validity \in Nov!Reg!Validities /\ rows[k].severity \in Nov!Reg!Severities
  BY RowFields, Zenon
<1>6. /\ \A o : Nov!Settled(o) = [outcome |-> o.validity, severity |-> o.severity,
                                  tieBreak |-> FALSE, final |-> TRUE]
      /\ \A s, b : Nov!Open(s, b) = [outcome |-> "unresolved", severity |-> s,
                                     tieBreak |-> b, final |-> FALSE]
  BY DEF Nov!Settled, Nov!Open
<1>7. n = IF p = {} THEN Nov!Open(-1, FALSE)
          ELSE IF p \ {Nov!Min(p)} # {}
                 THEN Nov!Reconcile(rows[Nov!Min(p)], rows[Nov!Min(p \ {Nov!Min(p)})], rows)
          ELSE IF ~two /\ t = {} THEN Nov!Settled(rows[Nov!Min(p)])
          ELSE Nov!Open(-1, FALSE)
  BY Zenon DEF Nov!DetermineNovel
<1>8. "under_review" \notin Nov!Reg!Validities
  BY DEF Nov!Reg!Validities
<1>9. (Len(rows) >= 2 => /\ n.tieBreak = r.tieBreak
                         /\ n.final = (r.status # "under_review")
                         /\ n.severity = r.severity
                         /\ n.final => n.outcome = r.status)
       => Agreed(rows, Nov!DetermineNovel(rows, two))
  BY Zenon DEF Agreed, Nov!Reg!UnderReview
<1>10. CASE Nov!Reg!TwoPrimaries(g)
  <2>1. PICK i \in p, j \in p : /\ i < j /\ p = {i, j} /\ Nov!Min(p) = i
                                /\ p \ {i} = {j} /\ Nov!Min({j}) = j
    <3>1. \E i, j \in p : i # j
      BY <1>4, <1>10, Zenon DEF Nov!Reg!TwoPrimaries
    <3> QED BY <1>1, <3>1
  <2> DEFINE first  == CHOOSE x \in Nov!Reg!PrimaryRows(g) : Nov!Reg!IsFirst(Nov!Reg!PrimaryRows(g), x)
             second == CHOOSE y \in Nov!Reg!PrimaryRows(g) :
                          Nov!Reg!IsSecond(Nov!Reg!PrimaryRows(g), first, y)
  <2>2. i \in Nat /\ j \in Nat /\ i \in DOMAIN rows /\ j \in DOMAIN rows
    BY <1>1, <1>2
  <2>3. first = i
    <3>1. \A x \in p : Nov!Reg!IsFirst(p, x) <=> x = i
      BY <2>1, <2>2 DEF Nov!Reg!IsFirst
    <3> HIDE DEF p
    <3> QED BY <1>4, <2>1, <3>1
  <2>4. second = j
    <3>1. \A y \in p : Nov!Reg!IsSecond(p, i, y) <=> y = j
      BY <2>1, <2>2 DEF Nov!Reg!IsFirst, Nov!Reg!IsSecond
    <3> HIDE DEF p, first
    <3> QED BY <1>4, <2>1, <2>3, <3>1
  <2>5. r = Nov!Reg!Reconcile(g[i], g[j], g)
    <3>1. r = Nov!Reg!Reconcile(g[first], g[second], g)
      BY <1>10, Zenon DEF Nov!Reg!Determine
    <3> HIDE DEF first, second, r, g
    <3> QED BY <2>3, <2>4, <3>1
  <2>6. n = Nov!Reconcile(rows[i], rows[j], rows)
    BY <1>7, <2>1
  <2> DEFINE v  == Nov!ValidityFromTwo(rows[i].validity, rows[j].validity)
             s  == Nov!SeverityFromTwo(rows[i].severity, rows[j].severity)
             vr == Nov!Reg!ValidityFromTwo(g[i].validity, g[j].validity)
             sr == Nov!Reg!SeverityFromTwo(g[i].severity, g[j].severity)
             last == CHOOSE k \in Nov!Reg!TieRows(g) : Nov!Reg!IsLast(Nov!Reg!TieRows(g), k)
  <2>7. n = IF ~(v.tie \/ s.tie) THEN Nov!Settled([validity |-> v.value, severity |-> s.value])
            ELSE IF t = {} THEN Nov!Open(s.value, TRUE)
            ELSE Nov!Settled(rows[Nov!Max(t)])
    BY <2>6, Zenon DEF Nov!Reconcile
  <2>8. r = IF ~(vr.tie \/ sr.tie)
              THEN [status |-> vr.status, severity |-> sr.severity, tieBreak |-> FALSE]
            ELSE IF t = {}
              THEN [status |-> "under_review",
                    severity |-> IF sr.tie THEN -1 ELSE sr.severity, tieBreak |-> TRUE]
            ELSE [status |-> g[last].validity, severity |-> g[last].severity, tieBreak |-> FALSE]
    BY <1>4, <2>5, Zenon DEF Nov!Reg!Reconcile, Nov!Reg!UnderReview, Nov!Reg!NoSeverity
  <2>9. /\ v.tie \in BOOLEAN /\ vr.tie = v.tie
        /\ ~ v.tie => vr.status = v.value /\ v.value \in Nov!Reg!Validities
    <3>1. \A x, y \in Nov!Reg!Validities :
            /\ Nov!ValidityFromTwo(x, y).tie \in BOOLEAN
            /\ Nov!Reg!ValidityFromTwo(x, y).tie = Nov!ValidityFromTwo(x, y).tie
            /\ ~ Nov!ValidityFromTwo(x, y).tie =>
                  /\ Nov!Reg!ValidityFromTwo(x, y).status = Nov!ValidityFromTwo(x, y).value
                  /\ Nov!ValidityFromTwo(x, y).value \in Nov!Reg!Validities
      BY DEF Nov!ValidityFromTwo, Nov!Reg!ValidityFromTwo, Nov!Reg!Validities
    <3>2. g[i].validity = rows[i].validity /\ g[j].validity = rows[j].validity
      BY <1>3, <2>2
    <3> QED BY <1>5, <2>2, <3>1, <3>2
  <2>10. /\ s.tie \in BOOLEAN /\ sr.tie = s.tie
         /\ IF s.tie THEN s.value = -1 ELSE sr.severity = s.value
    <3>1. \A x, y \in Nov!Reg!Severities :
            /\ Nov!SeverityFromTwo(x, y).tie \in BOOLEAN
            /\ Nov!Reg!SeverityFromTwo(x, y).tie = Nov!SeverityFromTwo(x, y).tie
            /\ IF Nov!SeverityFromTwo(x, y).tie THEN Nov!SeverityFromTwo(x, y).value = -1
               ELSE Nov!Reg!SeverityFromTwo(x, y).severity = Nov!SeverityFromTwo(x, y).value
      BY DEF Nov!SeverityFromTwo, Nov!Reg!SeverityFromTwo, Nov!Reg!Severities, Nov!Lower, Nov!Reg!Lower,
             Nov!Gap, Nov!Reg!Gap, Nov!Reg!Critical
    <3>2. g[i].severity = rows[i].severity /\ g[j].severity = rows[j].severity
      BY <1>3, <2>2
    <3> QED BY <1>5, <2>2, <3>1, <3>2
  <2>11. t # {} => /\ Nov!Max(t) \in DOMAIN rows /\ last = Nov!Max(t)
                   /\ g[last].validity = rows[last].validity /\ g[last].severity = rows[last].severity
    <3> SUFFICES ASSUME NEW k \in t, t = {k}, Nov!Max(t) = k
                 PROVE  k \in DOMAIN rows /\ last = k /\ g[k].validity = rows[k].validity
                        /\ g[k].severity = rows[k].severity
      <4> HIDE DEF t, last, g
      <4> QED BY <1>1
    <3>1. k \in DOMAIN rows
      BY <1>1
    <3>2. last = k
      <4>1. \A x \in t : Nov!Reg!IsLast(t, x) <=> x = k
        BY <1>2, <3>1 DEF Nov!Reg!IsLast
      <4> HIDE DEF t
      <4> QED BY <1>4, <4>1
    <3> QED BY <1>3, <3>1, <3>2
  <2> HIDE DEF v, s, vr, sr, last, n, r, g, p, t
  <2>12. CASE ~(v.tie \/ s.tie)
    <3>1. /\ n = [outcome |-> v.value, severity |-> s.value, tieBreak |-> FALSE, final |-> TRUE]
          /\ r = [status |-> v.value, severity |-> s.value, tieBreak |-> FALSE]
      BY <1>6, <2>7, <2>8, <2>9, <2>10, <2>12
    <3>2. v.value # "under_review"
      BY <1>8, <2>9, <2>12
    <3> QED BY <1>9, <3>1, <3>2
  <2>13. CASE (v.tie \/ s.tie) /\ t = {}
    <3>1. /\ n = [outcome |-> "unresolved", severity |-> s.value, tieBreak |-> TRUE, final |-> FALSE]
          /\ r = [status |-> "under_review", severity |-> s.value, tieBreak |-> TRUE]
      BY <1>6, <2>7, <2>8, <2>9, <2>10, <2>13
    <3> QED BY <1>9, <3>1
  <2>14. CASE (v.tie \/ s.tie) /\ t # {}
    <3>1. /\ n = [outcome |-> rows[last].validity, severity |-> rows[last].severity,
                  tieBreak |-> FALSE, final |-> TRUE]
          /\ r = [status |-> rows[last].validity, severity |-> rows[last].severity, tieBreak |-> FALSE]
      BY <1>6, <2>7, <2>8, <2>9, <2>10, <2>11, <2>14
    <3>2. rows[last].validity # "under_review"
      BY <1>5, <1>8, <2>11, <2>14
    <3> QED BY <1>9, <3>1, <3>2
  <2> QED BY <2>12, <2>13, <2>14
<1>11. CASE ~ Nov!Reg!TwoPrimaries(g)
  <2>1. r = [status |-> "under_review", severity |-> -1, tieBreak |-> FALSE]
    BY <1>11, Zenon DEF Nov!Reg!Determine, Nov!Reg!Waiting, Nov!Reg!UnderReview, Nov!Reg!NoSeverity
  <2>2. p = {} \/ \E i \in p : p = {i} /\ Nov!Min(p) = i
    <3>1. ~ \E i, j \in p : i # j
      BY <1>4, <1>11, Zenon DEF Nov!Reg!TwoPrimaries
    <3>2. \A i, j \in p : i < j => i # j
      BY <1>1, <1>2
    <3> QED BY <1>1, <3>1, <3>2
  <2>3. ASSUME Len(rows) >= 2 PROVE n = Nov!Open(-1, FALSE)
    <3>1. CASE p = {}
      BY <1>7, <3>1
    <3>2. ASSUME NEW i \in p, p = {i}, Nov!Min(p) = i PROVE n = Nov!Open(-1, FALSE)
      <4>1. t # {}
        <5>1. 1 \in DOMAIN rows /\ 2 \in DOMAIN rows
          BY <1>2, <2>3
        <5> QED BY <1>1, <3>2, <5>1
      <4> HIDE DEF n, p, t
      <4> QED BY <1>7, <3>2, <4>1
    <3> QED BY <2>2, <3>1, <3>2
  <2> HIDE DEF n, r
  <2>4. ASSUME Len(rows) >= 2
        PROVE  /\ n.tieBreak = r.tieBreak /\ n.severity = r.severity
               /\ n.final = (r.status # "under_review") /\ (n.final => n.outcome = r.status)
    <3>1. n = [outcome |-> "unresolved", severity |-> -1, tieBreak |-> FALSE, final |-> FALSE]
      BY <1>6, <2>3, <2>4
    <3> QED BY <2>1, <3>1
  <2> QED BY <1>9, <2>4
<1> QED BY <1>10, <1>11

-----------------------------------------------------------------------------
(* Novel concerns: every step *)

LEMMA NovInit == ASSUME Nov!Init PROVE NovInv /\ OnePerCandidate
<1>1. Nov!TypeOK
  BY DEF Nov!Init, Nov!TypeOK, Nov!NoTask
<1>2. TasksFit /\ RowsFit
  BY DEF Nov!Init, TasksFit, RowsFit, Nov!NoTask, Nov!TaskIds
<1>3. SettlementsFit /\ SettlingHolds /\ Nov!SettledOnce /\ Nov!SuccessorsTraceable /\ OnePerCandidate
  BY DEF Nov!Init, SettlementsFit, SettlingHolds, Nov!SettledOnce, Nov!SuccessorsTraceable, OnePerCandidate
<1>4. Nov!StateIsOutcome
  BY DEF Nov!Init, Nov!StateIsOutcome
<1> QED BY <1>1, <1>2, <1>3, <1>4 DEF NovInv

(* A candidate that is not there has nothing to it. *)
LEMMA NothingOfAbsent ==
  ASSUME NovInv, NEW c \in Candidates, candidates[c] = Nov!Absent
  PROVE  /\ \A t \in Nov!TaskIds : t[1] = c => novelTasks[t].status = "absent"
         /\ decisions[c] = << >>
         /\ \A k \in DOMAIN settlements : settlements[k].cand # c
         /\ \A f \in settling : f.task[1] # c
<1>1. \A t \in Nov!TaskIds : t[1] = c => novelTasks[t].status = "absent"
  BY DEF NovInv, TasksFit
<1>2. \A k \in DOMAIN decisions[c] : FALSE
  <2> SUFFICES ASSUME NEW k \in DOMAIN decisions[c] PROVE FALSE
    OBVIOUS
  <2>1. decisions[c] \in Seq(Nov!Row)
    BY DEF NovInv, Nov!TypeOK
  <2>2. decisions[c][k].task \in Nov!TaskIds
    BY <2>1, RowFields
  <2>3. decisions[c][k].task[1] = c /\ novelTasks[decisions[c][k].task].status = "completed"
    BY DEF NovInv, RowsFit
  <2> QED BY <1>1, <2>2, <2>3
<1>3. decisions[c] = << >>
  <2>1. decisions[c] \in Seq(Nov!Row)
    BY DEF NovInv, Nov!TypeOK
  <2>2. DOMAIN decisions[c] = 1 .. Len(decisions[c]) /\ Len(decisions[c]) \in Nat
    BY <2>1, LenProperties
  <2>3. Len(decisions[c]) = 0
    <3>1. Len(decisions[c]) # 0 => 1 \in DOMAIN decisions[c]
      BY <2>2
    <3> QED BY <1>2, <3>1, Zenon
  <2> QED BY <2>1, <2>3, EmptySeq
<1>4. \A k \in DOMAIN settlements : settlements[k].cand # c
  BY DEF NovInv, SettlementsFit
<1>5. \A f \in settling : f.task[1] # c
  <2> SUFFICES ASSUME NEW f \in settling, f.task[1] = c PROVE FALSE
    OBVIOUS
  <2>1. f.task \in Nov!TaskIds
    BY DEF NovInv, SettlingHolds, NovelClaim, NovelDecision
  <2>2. novelTasks[f.task].status \in {"pending", "claimed"}
    BY DEF NovInv, SettlingHolds, ClaimHolds, DecisionHolds
  <2> QED BY <1>1, <2>1, <2>2
<1> QED BY <1>1, <1>3, <1>4, <1>5

LEMMA RegisterStep ==
  ASSUME Nov!ConstantsAssumption, NovInv, NEW card \in Cards, Nov!RegisterScorecard(card)
  PROVE  NovInv'
<1>1. /\ UNCHANGED <<candidates, novelTasks, decisions, settlements, successors, settling>>
      /\ scorecards' \subseteq scorecards \cup {[card |-> card, pred |-> Nov!NoCard]}
  BY Zenon DEF Nov!RegisterScorecard, Nov!Registered
<1>2. Nov!TypeOK'
  <2>1. [card |-> card, pred |-> Nov!NoCard] \in [card : Nov!Card, pred : Cards \cup {Nov!NoCard}]
    BY DEF Nov!ConstantsAssumption
  <2>2. scorecards' \subseteq [card : Nov!Card, pred : Cards \cup {Nov!NoCard}]
    BY <1>1, <2>1, Zenon DEF NovInv, Nov!TypeOK
  <2> QED BY <1>1, <2>2, Zenon DEF NovInv, Nov!TypeOK
<1>3. (TasksFit /\ RowsFit /\ Nov!SettledOnce /\ Nov!StateIsOutcome)'
  <2>1. TasksFit'
    BY <1>1 DEF NovInv, TasksFit, Severe
  <2>2. RowsFit'
    BY <1>1 DEF NovInv, RowsFit
  <2>3. Nov!SettledOnce'
    BY <1>1 DEF NovInv, Nov!SettledOnce
  <2>4. Nov!StateIsOutcome'
    BY <1>1 DEF NovInv, Nov!StateIsOutcome, Nov!HasFinal
  <2> QED BY <2>1, <2>2, <2>3, <2>4
<1>4. (SettlementsFit /\ SettlingHolds)'
  <2>1. SettlementsFit'
    BY <1>1 DEF NovInv, SettlementsFit, Judged, Severe
  <2>2. SettlingHolds'
    BY <1>1 DEF NovInv, SettlingHolds, ClaimHolds, DecisionHolds, Nov!HasFinal, Judged, Severe
  <2> QED BY <2>1, <2>2
<1>5. Nov!SuccessorsTraceable'
  <2>1. \A s \in {[card |-> card, pred |-> Nov!NoCard]} : s.card.id[1] = Nobody
    BY DEF Nov!ConstantsAssumption
  <2>2. \A s \in scorecards' : s \in scorecards \/ s.card.id[1] = Nobody
    BY <1>1, <2>1, Zenon
  <2> QED BY <1>1, <2>2, Zenon DEF NovInv, Nov!SuccessorsTraceable
<1> QED BY <1>2, <1>3, <1>4, <1>5 DEF NovInv

LEMMA IngestStep ==
  ASSUME Nov!ConstantsAssumption, NovInv, NEW queue \in Nov!Queues, NEW seed \in BOOLEAN,
         Nov!IngestQueue(queue, seed)
  PROVE  NovInv'
<1> DEFINE new == {c \in DOMAIN queue : candidates[c] = Nov!Absent}
<1>1. /\ UNCHANGED <<decisions, settlements, successors, scorecards, settling>>
      /\ candidates' = [c \in Candidates |->
            IF c \in new THEN [state |-> "pending", severity |-> queue[c]] ELSE candidates[c]]
      /\ novelTasks' = [t \in Nov!TaskIds |->
            IF seed /\ t[1] \in new /\ t[2] \in Nov!SlotsFor(queue[t[1]])
              THEN [Nov!NoTask EXCEPT !.status = "pending"] ELSE novelTasks[t]]
  BY Zenon DEF Nov!IngestQueue
<1>2. DOMAIN queue \subseteq Candidates /\ \A c \in DOMAIN queue : queue[c] \in Ratings
  BY DEF Nov!Queues
<1>3. /\ \A c \in new : c \in Candidates /\ candidates[c] = Nov!Absent
      /\ \A c \in Candidates \ new : candidates'[c] = candidates[c]
      /\ \A c \in new : candidates'[c] = [state |-> "pending", severity |-> queue[c]]
      /\ \A t \in Nov!TaskIds : t[1] \notin new => novelTasks'[t] = novelTasks[t]
      /\ \A t \in Nov!TaskIds : t[1] \in new =>
            \/ novelTasks'[t] = novelTasks[t]
            \/ /\ novelTasks'[t] = [status |-> "pending", holder |-> Nobody]
               /\ t[2] \in Nov!SlotsFor(queue[t[1]])
  BY <1>1, <1>2 DEF Nov!NoTask
<1>4. \A t \in Nov!TaskIds : t[1] \in Candidates /\ t[2] \in Nov!NovelSlots /\ t = <<t[1], t[2]>>
  BY DEF Nov!TaskIds
<1>5. \A c \in new : /\ \A t \in Nov!TaskIds : t[1] = c => novelTasks[t].status = "absent"
                     /\ decisions[c] = << >>
                     /\ \A k \in DOMAIN settlements : settlements[k].cand # c
                     /\ \A f \in settling : f.task[1] # c
  BY <1>3, NothingOfAbsent, Zenon
<1>6. \A c \in Candidates : candidates[c] # Nov!Absent => c \notin new
  OBVIOUS
<1> HIDE DEF new
<1>7. \A c \in new : /\ candidates'[c].state = "pending" /\ candidates'[c].severity = queue[c]
                     /\ candidates'[c] # Nov!Absent
  <2> SUFFICES ASSUME NEW c \in new
               PROVE  /\ candidates'[c].state = "pending" /\ candidates'[c].severity = queue[c]
                      /\ candidates'[c] # Nov!Absent
    OBVIOUS
  <2>1. candidates'[c] = [state |-> "pending", severity |-> queue[c]]
    BY <1>3
  <2> QED BY <2>1 DEF Nov!Absent
<1>8. Nov!TypeOK'
  <2>1. candidates' \in [Candidates -> {Nov!Absent} \cup
                           [state : {"pending"} \cup Nov!Reg!Validities, severity : Ratings]]
    BY <1>1, <1>2, <1>3 DEF NovInv, Nov!TypeOK, new
  <2>2. novelTasks' \in [Nov!TaskIds -> [status : {"absent", "pending", "claimed", "completed"},
                                         holder : Novelists \cup {Nobody}]]
    BY <1>1, Zenon DEF NovInv, Nov!TypeOK, Nov!NoTask
  <2> QED BY <1>1, <2>1, <2>2, Zenon DEF NovInv, Nov!TypeOK
<1>9. TasksFit'
  <2> SUFFICES ASSUME NEW t \in Nov!TaskIds
               PROVE  /\ novelTasks'[t].status \in {"absent", "pending"} <=> novelTasks'[t].holder = Nobody
                      /\ novelTasks'[t].status # "absent" =>
                           /\ candidates'[t[1]] # Nov!Absent
                           /\ t[2] = "secondary" => Severe(t[1])'
                           /\ t[2] = "tie_break" =>
                                \A s \in Nov!PrimarySlots : novelTasks'[<<t[1], s>>].status = "completed"
    BY Zenon DEF TasksFit
  <2>1. /\ novelTasks[t].status \in {"absent", "pending"} <=> novelTasks[t].holder = Nobody
        /\ novelTasks[t].status # "absent" =>
             /\ candidates[t[1]] # Nov!Absent
             /\ t[2] = "secondary" => Severe(t[1])
             /\ t[2] = "tie_break" =>
                  \A s \in Nov!PrimarySlots : novelTasks[<<t[1], s>>].status = "completed"
    BY Zenon DEF NovInv, TasksFit
  <2>2. CASE t[1] \notin new
    <3>1. novelTasks'[t] = novelTasks[t] /\ candidates'[t[1]] = candidates[t[1]]
      BY <1>3, <1>4, <2>2
    <3>2. \A s \in Nov!PrimarySlots : novelTasks'[<<t[1], s>>] = novelTasks[<<t[1], s>>]
      <4>1. \A s \in Nov!PrimarySlots : <<t[1], s>> \in Nov!TaskIds
        BY <1>4 DEF Nov!TaskIds, Nov!NovelSlots
      <4> QED BY <1>3, <2>2, <4>1
    <3> QED BY <2>1, <3>1, <3>2 DEF Severe
  <2>3. CASE t[1] \in new /\ novelTasks'[t] = novelTasks[t]
    BY <1>5, <2>1, <2>3
  <2>4. CASE /\ t[1] \in new /\ novelTasks'[t] = [status |-> "pending", holder |-> Nobody]
             /\ t[2] \in Nov!SlotsFor(queue[t[1]])
    <3>1. t[2] # "tie_break" /\ (t[2] = "secondary" => Nov!RequiresTwoPrimaries(queue[t[1]]))
      BY <2>4 DEF Nov!SlotsFor, Nov!PrimarySlots
    <3>2. candidates'[t[1]].severity = queue[t[1]]
      BY <1>7, <2>4
    <3> QED BY <1>7, <2>4, <3>1, <3>2 DEF Severe
  <2> QED BY <1>3, <2>2, <2>3, <2>4
<1>10. RowsFit'
  <2>1. \A t \in Nov!TaskIds : novelTasks'[t].status = "completed" <=> novelTasks[t].status = "completed"
    BY <1>3, <1>5
  <2>2. \A c \in Candidates : \A k \in DOMAIN decisions[c] : decisions[c][k].task \in Nov!TaskIds
    <3>1. \A c \in Candidates : decisions[c] \in Seq(Nov!Row)
      BY DEF NovInv, Nov!TypeOK
    <3> QED BY <3>1, RowFields, Zenon
  <2> QED BY <1>1, <2>1, <2>2 DEF NovInv, RowsFit
<1>11. SettlementsFit'
  <2> SUFFICES ASSUME NEW k \in DOMAIN settlements
               PROVE  LET d == settlements[k] IN
                      /\ candidates'[d.cand] # Nov!Absent
                      /\ Judged(d.cand, Severe(d.cand), d.rows, d.result)'
                      /\ \A i \in DOMAIN d.rows :
                            \E j \in DOMAIN decisions[d.cand] : decisions[d.cand][j] = d.rows[i]
                      /\ d.result.tieBreak => novelTasks'[<<d.cand, "tie_break">>].status # "absent"
    BY <1>1 DEF SettlementsFit
  <2> DEFINE d == settlements[k]
  <2>1. /\ candidates[d.cand] # Nov!Absent
        /\ Judged(d.cand, Severe(d.cand), d.rows, d.result)
        /\ \A i \in DOMAIN d.rows :
              \E j \in DOMAIN decisions[d.cand] : decisions[d.cand][j] = d.rows[i]
        /\ d.result.tieBreak => novelTasks[<<d.cand, "tie_break">>].status # "absent"
    BY Zenon DEF NovInv, SettlementsFit
  <2>2. d.cand \in Candidates /\ d.cand \notin new
    <3>1. d \in [cand : Candidates, rows : Seq(Nov!Row), result : Nov!Result, card : Cards \cup {Nov!NoCard}]
      BY ElementOfSeq, LenProperties DEF NovInv, Nov!TypeOK
    <3> QED BY <1>5, <3>1
  <2>3. candidates'[d.cand] = candidates[d.cand]
        /\ novelTasks'[<<d.cand, "tie_break">>] = novelTasks[<<d.cand, "tie_break">>]
    <3>1. <<d.cand, "tie_break">> \in Nov!TaskIds
      BY <2>2 DEF Nov!TaskIds, Nov!NovelSlots
    <3> QED BY <1>3, <2>2, <3>1
  <2>4. Judged(d.cand, Severe(d.cand), d.rows, d.result)'
    BY <1>1, <2>1, <2>3, Zenon DEF Judged, Severe
  <2> QED BY <2>1, <2>3, <2>4
<1>12. SettlingHolds'
  <2> SUFFICES ASSUME NEW f \in settling
               PROVE  \/ f \in NovelClaim /\ ClaimHolds(f)'
                      \/ f \in NovelDecision /\ DecisionHolds(f)'
    BY <1>1, Zenon DEF SettlingHolds
  <2>1. \/ f \in NovelClaim /\ ClaimHolds(f)
        \/ f \in NovelDecision /\ DecisionHolds(f)
    BY Zenon DEF NovInv, SettlingHolds
  <2>2. f.task \in Nov!TaskIds /\ f.task[1] \in Candidates /\ f.task[1] \notin new
    BY <1>4, <1>5, <2>1 DEF NovelClaim, NovelDecision
  <2>3. novelTasks'[f.task] = novelTasks[f.task] /\ candidates'[f.task[1]] = candidates[f.task[1]]
    BY <1>3, <2>2
  <2> QED BY <1>1, <2>1, <2>3, Zenon DEF ClaimHolds, DecisionHolds, Judged, Severe, Nov!HasFinal
<1>13. Nov!SettledOnce'
  <2>1. \A k \in DOMAIN settlements, t \in Nov!TaskIds :
           t[1] = settlements[k].cand => novelTasks'[t] = novelTasks[t]
    BY <1>3, <1>5, Zenon
  <2> QED BY <1>1, <2>1, Zenon DEF NovInv, Nov!SettledOnce
<1>14. Nov!StateIsOutcome'
  <2>1. \A c \in Candidates : Nov!HasFinal(c)' = Nov!HasFinal(c)
    BY <1>1, Zenon DEF Nov!HasFinal
  <2>2. \A c \in new : ~ Nov!HasFinal(c) /\ candidates'[c].state = "pending"
    BY <1>5, <1>7, Zenon DEF Nov!HasFinal
  <2> QED BY <1>1, <1>3, <2>1, <2>2, Zenon DEF NovInv, Nov!StateIsOutcome
<1>15. Nov!SuccessorsTraceable'
  BY <1>1, Zenon DEF NovInv, Nov!SuccessorsTraceable
<1> QED BY <1>8, <1>9, <1>10, <1>11, <1>12, <1>13, <1>14, <1>15 DEF NovInv

LEMMA SettlementTypes ==
  ASSUME NovInv
  PROVE  /\ settlements \in Seq([cand : Candidates, rows : Seq(Nov!Row), result : Nov!Result,
                                  card : Cards \cup {Nov!NoCard}])
         /\ DOMAIN settlements = 1 .. Len(settlements) /\ Len(settlements) \in Nat
         /\ \A k \in DOMAIN settlements :
               settlements[k] \in [cand : Candidates, rows : Seq(Nov!Row), result : Nov!Result,
                                   card : Cards \cup {Nov!NoCard}]
<1> DEFINE S == [cand : Candidates, rows : Seq(Nov!Row), result : Nov!Result,
                 card : Cards \cup {Nov!NoCard}]
<1>1. settlements \in Seq(S)
  BY DEF NovInv, Nov!TypeOK
<1> HIDE DEF S
<1>2. DOMAIN settlements = 1 .. Len(settlements) /\ Len(settlements) \in Nat
  BY <1>1, LenProperties
<1>3. \A k \in DOMAIN settlements : settlements[k] \in S
  BY <1>1, <1>2, ElementOfSeq
<1> QED BY <1>1, <1>2, <1>3 DEF S

(* A step that changes only what is in flight. *)
LEMMA FlightStep ==
  ASSUME NovInv, UNCHANGED <<candidates, novelTasks, decisions, settlements, successors, scorecards>>,
         \A f \in settling' : f \in settling \/ (f \in NovelClaim /\ ClaimHolds(f))
                                             \/ (f \in NovelDecision /\ DecisionHolds(f))
  PROVE  NovInv'
<1>1. (Nov!TypeOK /\ TasksFit /\ RowsFit)'
  <2>1. Nov!TypeOK'
    BY Zenon DEF NovInv, Nov!TypeOK
  <2>2. TasksFit'
    BY DEF NovInv, TasksFit, Severe
  <2>3. RowsFit'
    BY DEF NovInv, RowsFit
  <2> QED BY <2>1, <2>2, <2>3
<1>2. SettlementsFit'
  BY DEF NovInv, SettlementsFit, Judged, Severe
<1>3. (Nov!SettledOnce /\ Nov!StateIsOutcome /\ Nov!SuccessorsTraceable)'
  <2>1. Nov!SettledOnce'
    BY DEF NovInv, Nov!SettledOnce
  <2>2. Nov!StateIsOutcome'
    BY DEF NovInv, Nov!StateIsOutcome, Nov!HasFinal
  <2>3. Nov!SuccessorsTraceable'
    BY DEF NovInv, Nov!SuccessorsTraceable
  <2> QED BY <2>1, <2>2, <2>3
<1>4. SettlingHolds'
  <2>1. \A f \in settling' : \/ f \in NovelClaim /\ ClaimHolds(f)
                             \/ f \in NovelDecision /\ DecisionHolds(f)
    BY Zenon DEF NovInv, SettlingHolds
  <2> QED BY <2>1 DEF SettlingHolds, ClaimHolds, DecisionHolds, Nov!HasFinal, Judged, Severe
<1> QED BY <1>1, <1>2, <1>3, <1>4 DEF NovInv

LEMMA ReadClaimStep ==
  ASSUME NovInv, NEW e \in Novelists, NEW t \in Nov!TaskIds, Nov!ReadClaim(e, t) PROVE NovInv'
<1> DEFINE new == [kind |-> "claim", task |-> t, expert |-> e]
<1>1. /\ settling' = settling \cup {new} /\ novelTasks[t].status = "pending"
      /\ UNCHANGED <<candidates, novelTasks, decisions, settlements, successors, scorecards>>
  BY Zenon DEF Nov!ReadClaim
<1>2. new \in NovelClaim /\ ClaimHolds(new)
  BY <1>1 DEF NovelClaim, ClaimHolds
<1> HIDE DEF new
<1> QED BY <1>1, <1>2, FlightStep, Zenon

(* What a candidate has, its decisions and their tasks. *)
LEMMA DecisionsOf ==
  ASSUME NovInv, NEW c \in Candidates
  PROVE  /\ decisions[c] \in Seq(Nov!Row)
         /\ DOMAIN decisions[c] = 1 .. Len(decisions[c]) /\ Len(decisions[c]) \in Nat
         /\ \A k \in DOMAIN decisions[c] :
              /\ decisions[c][k].task \in Nov!TaskIds /\ decisions[c][k].task[1] = c
              /\ novelTasks[decisions[c][k].task].status = "completed"
<1>1. decisions[c] \in Seq(Nov!Row)
  BY DEF NovInv, Nov!TypeOK
<1>2. \A k \in DOMAIN decisions[c] : decisions[c][k].task \in Nov!TaskIds
  BY <1>1, RowFields, Zenon
<1> QED BY <1>1, <1>2, LenProperties DEF NovInv, RowsFit

LEMMA ReadDecisionStep ==
  ASSUME Nov!ConstantsAssumption, NovInv,
         NEW e \in Novelists, NEW t \in Nov!TaskIds, NEW o \in Opinions,
         NEW card \in Cards \cup {Nov!NoCard}, NEW rescore \in BOOLEAN,
         Nov!ReadDecision(e, t, o, card, rescore)
  PROVE  NovInv'
<1> DEFINE c == t[1]
           row == [task |-> t, expert |-> e, validity |-> o.validity, severity |-> o.severity]
           rows == Append(decisions[c], row)
           result == Nov!DetermineNovel(rows, Severe(c))
           admitted == Nov!Admits(result, card)
           new == [kind |-> "submit", task |-> t, row |-> row, rows |-> rows, result |-> result,
                   card |-> IF admitted THEN card ELSE Nov!NoCard, rescore |-> rescore /\ admitted]
<1>1. /\ settling' = settling \cup {new}
      /\ novelTasks[t].status = "claimed" /\ ~ Nov!HasFinal(c)
      /\ Nov!Acceptable(rows) /\ (admitted /\ rescore => card.immutable)
      /\ UNCHANGED <<candidates, novelTasks, decisions, settlements, successors, scorecards>>
  BY Zenon DEF Nov!ReadDecision, Severe
<1>2. c \in Candidates /\ t = <<t[1], t[2]>>
  BY DEF Nov!TaskIds
<1>3. /\ decisions[c] \in Seq(Nov!Row)
      /\ DOMAIN decisions[c] = 1 .. Len(decisions[c]) /\ Len(decisions[c]) \in Nat
      /\ \A k \in DOMAIN decisions[c] :
           /\ decisions[c][k].task \in Nov!TaskIds /\ decisions[c][k].task[1] = c
           /\ novelTasks[decisions[c][k].task].status = "completed"
  BY <1>2, DecisionsOf, Zenon
<1>4. row \in Nov!Row
  BY DEF Nov!ConstantsAssumption, Nov!Row
<1>5. /\ rows \in Seq(Nov!Row) /\ rows # << >> /\ DOMAIN rows = 1 .. Len(decisions[c]) + 1
      /\ \A k \in DOMAIN decisions[c] : rows[k] = decisions[c][k]
      /\ rows[Len(decisions[c]) + 1] = row
  <2> HIDE DEF row
  <2>1. /\ rows \in Seq(Nov!Row) /\ Len(rows) = Len(decisions[c]) + 1
        /\ \A k \in 1 .. Len(decisions[c]) : rows[k] = decisions[c][k]
        /\ rows[Len(decisions[c]) + 1] = row
    BY <1>3, <1>4, AppendProperties
  <2>2. DOMAIN rows = 1 .. Len(rows)
    BY <2>1, LenProperties
  <2>3. rows # << >>
    BY <1>3, <2>1, EmptySeq
  <2> QED BY <1>3, <2>1, <2>2, <2>3
<1>6. Severe(c) \in BOOLEAN
  BY DEF Severe, Nov!RequiresTwoPrimaries
<1>7. Judged(c, Severe(c), rows, result)
  <2>1. \A k \in DOMAIN rows : k \in DOMAIN decisions[c] \/ k = Len(decisions[c]) + 1
    BY <1>3, <1>5
  <2>2. row.task = t
    OBVIOUS
  <2> HIDE DEF row, rows, result, c
  <2>3. \A k \in DOMAIN rows : rows[k].task[1] = c
    BY <1>3, <1>5, <2>1, <2>2 DEF c
  <2>4. \A k, l \in DOMAIN rows : rows[k].task = rows[l].task => k = l
    <3>1. \A k \in DOMAIN decisions[c] : decisions[c][k].task # t
      BY <1>1, <1>3
    <3>2. \A k, l \in DOMAIN decisions[c] : decisions[c][k].task = decisions[c][l].task => k = l
      BY <1>2, Zenon DEF NovInv, RowsFit
    <3> QED BY <1>5, <2>1, <2>2, <3>1, <3>2
  <2> QED BY <1>1, <1>5, <2>3, <2>4 DEF Judged, result
<1>8. result \in Nov!Result
  <2>1. Nov!DetermineNovel(rows, Severe(c)) \in Nov!Result
    <3> HIDE DEF rows
    <3> QED BY <1>1, <1>5, <1>6, PolicyMeans
  <2> QED BY <2>1
<1>9. new.card # Nov!NoCard => admitted /\ new.card = card
  OBVIOUS
<1>10. new \in NovelDecision
  <2>1. admitted \in BOOLEAN
    BY DEF Nov!Admits, Nov!Result
  <2> HIDE DEF row, rows, result, admitted
  <2> QED BY <1>4, <1>5, <1>8, <2>1 DEF NovelDecision
<1>11. DecisionHolds(new)
  <2>1. /\ new.task = t /\ new.row = row /\ row.task = t /\ new.rows = rows /\ new.result = result
        /\ new.rescore => admitted /\ rescore
    OBVIOUS
  <2>2. new.rescore => new.card = card
    OBVIOUS
  <2> HIDE DEF row, result, new
  <2>3. admitted => result.final /\ result.outcome = "confirmed" /\ card # Nov!NoCard
    BY DEF Nov!Admits
  <2> HIDE DEF admitted
  <2> QED BY <1>1, <1>7, <1>9, <2>1, <2>2, <2>3, Zenon DEF DecisionHolds
<1> HIDE DEF new
<1> QED BY <1>1, <1>10, <1>11, FlightStep, Zenon

(* What else is in flight is about other candidates, which a commit leaves alone. *)
LEMMA OthersHold ==
  ASSUME NovInv, OnePerCandidate, NEW f \in settling, settling' = settling \ {f},
         \A t \in Nov!TaskIds : t[1] # f.task[1] => novelTasks'[t] = novelTasks[t],
         \A c \in Candidates : c # f.task[1] =>
            /\ decisions'[c] = decisions[c] /\ candidates'[c] = candidates[c]
            /\ Nov!HasFinal(c)' = Nov!HasFinal(c)
  PROVE  SettlingHolds'
<1> SUFFICES ASSUME NEW g \in settling, g # f
             PROVE  \/ g \in NovelClaim /\ ClaimHolds(g)'
                    \/ g \in NovelDecision /\ DecisionHolds(g)'
  BY Zenon DEF SettlingHolds
<1>1. \/ g \in NovelClaim /\ ClaimHolds(g)
      \/ g \in NovelDecision /\ DecisionHolds(g)
  BY Zenon DEF NovInv, SettlingHolds
<1>2. g.task[1] # f.task[1]
  BY DEF OnePerCandidate
<1>3. g.task \in Nov!TaskIds /\ g.task[1] \in Candidates
  BY <1>1 DEF NovelClaim, NovelDecision, Nov!TaskIds
<1>4. /\ novelTasks'[g.task] = novelTasks[g.task] /\ decisions'[g.task[1]] = decisions[g.task[1]]
      /\ candidates'[g.task[1]] = candidates[g.task[1]]
      /\ Nov!HasFinal(g.task[1])' = Nov!HasFinal(g.task[1])
  BY <1>2, <1>3
<1> QED BY <1>1, <1>4, Zenon DEF ClaimHolds, DecisionHolds, Judged, Severe

LEMMA CommitClaimStep ==
  ASSUME Nov!ConstantsAssumption, NovInv, OnePerCandidate,
         NEW f \in settling, Nov!CommitClaim(f)
  PROVE  NovInv'
<1>1. /\ f \in NovelClaim /\ novelTasks[f.task].status = "pending"
      /\ f.task \in Nov!TaskIds /\ f.expert \in Novelists
  <2>1. f.kind = "claim"
    BY Zenon DEF Nov!CommitClaim
  <2> QED BY <2>1 DEF NovInv, SettlingHolds, ClaimHolds, NovelClaim, NovelDecision
<1>2. /\ novelTasks' = [novelTasks EXCEPT ![f.task] = [status |-> "claimed", holder |-> f.expert]]
      /\ settling' = settling \ {f}
      /\ UNCHANGED <<candidates, decisions, settlements, successors, scorecards>>
  BY Zenon DEF Nov!CommitClaim
<1>3. /\ \A t \in Nov!TaskIds : t # f.task => novelTasks'[t] = novelTasks[t]
      /\ novelTasks'[f.task].status = "claimed" /\ novelTasks'[f.task].holder # Nobody
  BY <1>1, <1>2 DEF NovInv, Nov!TypeOK, Nov!ConstantsAssumption
<1>4. \A t \in Nov!TaskIds : /\ novelTasks'[t].status = "absent" <=> novelTasks[t].status = "absent"
                             /\ novelTasks'[t].status = "completed" <=> novelTasks[t].status = "completed"
  BY <1>1, <1>3
<1>5. Nov!TypeOK'
  <2>1. novelTasks' \in [Nov!TaskIds -> [status : {"absent", "pending", "claimed", "completed"},
                                         holder : Novelists \cup {Nobody}]]
    BY <1>1, <1>2 DEF NovInv, Nov!TypeOK
  <2> QED BY <1>2, <2>1, Zenon DEF NovInv, Nov!TypeOK
<1>6. TasksFit'
  <2>1. \A t \in Nov!TaskIds, s \in Nov!PrimarySlots : <<t[1], s>> \in Nov!TaskIds
    BY DEF Nov!TaskIds, Nov!NovelSlots
  <2> SUFFICES ASSUME NEW t \in Nov!TaskIds
               PROVE  /\ novelTasks'[t].status \in {"absent", "pending"} <=> novelTasks'[t].holder = Nobody
                      /\ novelTasks'[t].status # "absent" =>
                           /\ candidates[t[1]] # Nov!Absent
                           /\ t[2] = "secondary" => Severe(t[1])
                           /\ t[2] = "tie_break" =>
                                \A s \in Nov!PrimarySlots : novelTasks'[<<t[1], s>>].status = "completed"
    BY <1>2, Zenon DEF TasksFit, Severe
  <2>2. /\ novelTasks[t].status \in {"absent", "pending"} <=> novelTasks[t].holder = Nobody
        /\ novelTasks[t].status # "absent" =>
             /\ candidates[t[1]] # Nov!Absent
             /\ t[2] = "secondary" => Severe(t[1])
             /\ t[2] = "tie_break" =>
                  \A s \in Nov!PrimarySlots : novelTasks[<<t[1], s>>].status = "completed"
    BY Zenon DEF NovInv, TasksFit
  <2>3. novelTasks'[t].status \in {"absent", "pending"} <=> novelTasks'[t].holder = Nobody
    BY <1>3, <2>2
  <2> QED BY <1>4, <2>1, <2>2, <2>3
<1>7. RowsFit'
  <2>1. \A c \in Candidates : \A k \in DOMAIN decisions[c] : decisions[c][k].task \in Nov!TaskIds
    BY DecisionsOf, Zenon
  <2> QED BY <1>2, <1>4, <2>1 DEF NovInv, RowsFit
<1>8. SettlementsFit'
  <2>1. \A k \in DOMAIN settlements : <<settlements[k].cand, "tie_break">> \in Nov!TaskIds
    <3>1. \A k \in DOMAIN settlements : settlements[k].cand \in Candidates
      <4>1. \A k \in DOMAIN settlements :
               settlements[k] \in [cand : Candidates, rows : Seq(Nov!Row), result : Nov!Result,
                                   card : Cards \cup {Nov!NoCard}]
        BY SettlementTypes, Zenon
      <4> QED BY <4>1
    <3> QED BY <3>1 DEF Nov!TaskIds, Nov!NovelSlots
  <2> QED BY <1>2, <1>4, <2>1 DEF NovInv, SettlementsFit, Judged, Severe
<1>9. SettlingHolds'
  <2>1. \A t \in Nov!TaskIds : t[1] # f.task[1] => novelTasks'[t] = novelTasks[t]
    BY <1>3
  <2>2. \A c \in Candidates : /\ decisions'[c] = decisions[c] /\ candidates'[c] = candidates[c]
                              /\ Nov!HasFinal(c)' = Nov!HasFinal(c)
    BY <1>2, Zenon DEF Nov!HasFinal
  <2> QED BY <1>2, <2>1, <2>2, OthersHold, Zenon
<1>10. Nov!SettledOnce'
  <2>1. \A k \in DOMAIN settlements : settlements[k].result.final => settlements[k].cand # f.task[1]
    BY <1>1 DEF NovInv, Nov!SettledOnce
  <2>2. \A k \in DOMAIN settlements, t \in Nov!TaskIds :
           settlements[k].result.final /\ t[1] = settlements[k].cand => novelTasks'[t] = novelTasks[t]
    BY <1>3, <2>1
  <2> QED BY <1>2, <2>2 DEF NovInv, Nov!SettledOnce
<1>11. (Nov!StateIsOutcome /\ Nov!SuccessorsTraceable)'
  <2>1. Nov!StateIsOutcome'
    BY <1>2 DEF NovInv, Nov!StateIsOutcome, Nov!HasFinal
  <2>2. Nov!SuccessorsTraceable'
    BY <1>2 DEF NovInv, Nov!SuccessorsTraceable
  <2> QED BY <2>1, <2>2
<1> QED BY <1>5, <1>6, <1>7, <1>8, <1>9, <1>10, <1>11 DEF NovInv

-----------------------------------------------------------------------------
(* The commit of a decision *)

(* The tasks of a candidate once the decision is in: what settles it leaves nothing to
   do, and a tie-break is asked for when both primaries are done.                     *)
LEMMA TasksDone ==
  ASSUME NovInv, NEW f \in settling, f \in NovelDecision, DecisionHolds(f), NEW c, c = f.task[1],
         NEW done \in SUBSET Nov!TaskIds,
         done = {t \in Nov!TaskIds : novelTasks[t].status = "completed"} \cup {f.task}
  PROVE  /\ f.result.tieBreak => ~ f.result.final /\ \A s \in Nov!PrimarySlots : <<c, s>> \in done
         /\ f.result.final => \A t \in Nov!TaskIds : t[1] = c => novelTasks[t].status = "absent" \/ t \in done
<1> DEFINE p == Nov!PrimaryRows(f.rows)
           tb == Nov!TieRows(f.rows)
<1>1. /\ f.task \in Nov!TaskIds /\ f.rows \in Seq(Nov!Row)
      /\ c \in Candidates /\ f.task = <<c, f.task[2]>> /\ f.task[2] \in Nov!NovelSlots
  BY DEF NovelDecision, Nov!TaskIds
<1>2. /\ novelTasks[f.task].status = "claimed"
      /\ f.row.task = f.task /\ f.rows = Append(decisions[c], f.row)
      /\ Judged(c, Severe(c), f.rows, f.result)
  BY DEF DecisionHolds
<1>3. /\ Nov!Acceptable(f.rows) /\ f.result = Nov!DetermineNovel(f.rows, Severe(c))
      /\ \A k \in DOMAIN f.rows :
           /\ f.rows[k].task[1] = c
           /\ \A l \in DOMAIN f.rows : f.rows[k].task = f.rows[l].task => k = l
  BY <1>2, Zenon DEF Judged
<1>4. Severe(c) \in BOOLEAN
  BY DEF Severe, Nov!RequiresTwoPrimaries
<1>5. /\ f.result.tieBreak => /\ ~ f.result.final /\ tb = {}
                              /\ \E i, j \in p : i # j
      /\ f.result.final => \/ \E i, j \in p : i # j
                           \/ ~ Severe(c) /\ tb = {} /\ \E i \in p : p = {i}
  BY <1>1, <1>3, <1>4, PolicyMeans
<1>6. /\ decisions[c] \in Seq(Nov!Row)
      /\ DOMAIN decisions[c] = 1 .. Len(decisions[c]) /\ Len(decisions[c]) \in Nat
      /\ \A k \in DOMAIN decisions[c] :
           /\ decisions[c][k].task \in Nov!TaskIds /\ decisions[c][k].task[1] = c
           /\ novelTasks[decisions[c][k].task].status = "completed"
  BY <1>1, DecisionsOf, Zenon
<1>7. /\ DOMAIN f.rows = 1 .. Len(decisions[c]) + 1
      /\ \A k \in DOMAIN decisions[c] : f.rows[k] = decisions[c][k]
      /\ f.rows[Len(decisions[c]) + 1] = f.row
  <2>1. f.row \in Nov!Row
    BY DEF NovelDecision
  <2> QED BY <1>1, <1>2, <1>6, <2>1, AppendProperties, LenProperties
<1>8. \A k \in DOMAIN f.rows : f.rows[k].task \in done
  <2>1. \A k \in DOMAIN f.rows : k \in DOMAIN decisions[c] \/ k = Len(decisions[c]) + 1
    BY <1>6, <1>7
  <2>2. \A k \in DOMAIN decisions[c] : decisions[c][k].task \in done
    BY <1>6
  <2> QED BY <1>2, <1>7, <2>1, <2>2
<1>9. \A k \in DOMAIN f.rows : f.rows[k].task = <<c, f.rows[k].task[2]>>
  <2>1. \A k \in DOMAIN f.rows : f.rows[k].task \in Nov!TaskIds
    BY <1>1, RowFields, Zenon
  <2> QED BY <1>3, <2>1 DEF Nov!TaskIds
<1>10. (\E i, j \in p : i # j) => \A s \in Nov!PrimarySlots : <<c, s>> \in done
  <2> SUFFICES ASSUME NEW i \in p, NEW j \in p, i # j
               PROVE  <<c, "primary">> \in done /\ <<c, "secondary">> \in done
    BY DEF Nov!PrimarySlots
  <2>1. /\ i \in DOMAIN f.rows /\ f.rows[i].task[2] \in {"primary", "secondary"}
        /\ j \in DOMAIN f.rows /\ f.rows[j].task[2] \in {"primary", "secondary"}
    BY DEF Nov!PrimaryRows, Nov!PrimarySlots
  <2>2. f.rows[i].task # f.rows[j].task
    BY <1>3, <2>1
  <2>3. f.rows[i].task = <<c, f.rows[i].task[2]>> /\ f.rows[j].task = <<c, f.rows[j].task[2]>>
        /\ f.rows[i].task \in done /\ f.rows[j].task \in done
    BY <1>8, <1>9, <2>1
  <2>4. f.rows[i].task[2] # f.rows[j].task[2]
    BY <2>2, <2>3
  <2> QED BY <2>1, <2>3, <2>4
<1>11. \A t \in Nov!TaskIds : t = <<t[1], t[2]>> /\ t[2] \in Nov!NovelSlots
  BY DEF Nov!TaskIds
<1>12. /\ <<c, "tie_break">> \in Nov!TaskIds
       /\ \A s \in Nov!PrimarySlots : <<c, s>> \in Nov!TaskIds
  BY <1>1 DEF Nov!TaskIds, Nov!NovelSlots
<1>13. novelTasks[<<c, "tie_break">>].status # "absent" =>
         \A s \in Nov!PrimarySlots : novelTasks[<<c, s>>].status = "completed"
  <2>1. <<c, "tie_break">>[1] = c /\ <<c, "tie_break">>[2] = "tie_break"
    OBVIOUS
  <2> QED BY <1>12, <2>1, Zenon DEF NovInv, TasksFit
<1>14. ASSUME f.result.final, NEW t \in Nov!TaskIds, t[1] = c
       PROVE  novelTasks[t].status = "absent" \/ t \in done
  <2>1. CASE \E i, j \in p : i # j
    <3>1. CASE t[2] \in Nov!PrimarySlots
      BY <1>10, <1>11, <1>14, <2>1, <3>1
    <3>2. CASE t[2] = "tie_break" /\ novelTasks[t].status # "absent"
      <4>1. \A s \in Nov!PrimarySlots : novelTasks[<<c, s>>].status = "completed"
        BY <1>11, <1>13, <1>14, <3>2
      <4>2. f.task[2] \notin Nov!PrimarySlots
        BY <1>1, <1>2, <4>1
      <4>3. f.task = t
        BY <1>1, <1>11, <1>14, <3>2, <4>2 DEF Nov!NovelSlots
      <4> QED BY <4>3
    <3> QED BY <1>11, <3>1, <3>2 DEF Nov!NovelSlots
  <2>2. ASSUME ~ Severe(c), tb = {}, NEW i \in p, p = {i}
        PROVE  novelTasks[t].status = "absent" \/ t \in done
    <3>1. DOMAIN f.rows = {i}
      <4>1. p \cup tb = DOMAIN f.rows
        BY <1>1, <1>3, PanelShape, Zenon
      <4> QED BY <2>2, <4>1
    <3>2. i = 1 /\ Len(decisions[c]) = 0
      <4>1. 1 \in DOMAIN f.rows /\ Len(decisions[c]) + 1 \in DOMAIN f.rows
        BY <1>6, <1>7
      <4> QED BY <1>6, <3>1, <4>1
    <3>3. f.task[2] \in Nov!PrimarySlots
      <4>1. f.rows[i] = f.row
        BY <1>7, <3>2
      <4> QED BY <1>2, <2>2, <4>1 DEF Nov!PrimaryRows
    <3>4. \A s \in Nov!TaskIds : s[1] = c => novelTasks[s].status # "completed"
      <4>1. \A s \in Nov!TaskIds : s[1] = c /\ novelTasks[s].status = "completed" => DOMAIN decisions[c] # {}
        BY DEF NovInv, RowsFit
      <4> QED BY <1>6, <3>2, <4>1
    <3>5. novelTasks[<<c, "secondary">>].status = "absent"
      <4>1. <<c, "secondary">> \in Nov!TaskIds /\ <<c, "secondary">>[1] = c /\ <<c, "secondary">>[2] = "secondary"
        BY <1>12 DEF Nov!PrimarySlots
      <4> QED BY <2>2, <4>1, Zenon DEF NovInv, TasksFit
    <3>6. novelTasks[<<c, "tie_break">>].status = "absent"
      <4>1. <<c, "primary">> \in Nov!TaskIds /\ <<c, "primary">>[1] = c /\ "primary" \in Nov!PrimarySlots
        BY <1>12 DEF Nov!PrimarySlots
      <4> QED BY <1>13, <3>4, <4>1, Zenon
    <3>7. f.task = <<c, "primary">>
      <4>1. f.task[2] # "secondary"
        BY <1>1, <1>2, <3>5
      <4> QED BY <1>1, <3>3, <4>1 DEF Nov!PrimarySlots
    <3>8. t = <<c, "primary">> \/ t = <<c, "secondary">> \/ t = <<c, "tie_break">>
      BY <1>11, <1>14 DEF Nov!NovelSlots, Nov!PrimarySlots
    <3> QED BY <3>5, <3>6, <3>7, <3>8
  <2> QED BY <1>5, <1>14, <2>1, <2>2
<1> QED BY <1>5, <1>10, <1>14

LEMMA CommitDecisionStep ==
  ASSUME Nov!ConstantsAssumption, NovInv, OnePerCandidate,
         NEW f \in settling, Nov!CommitDecision(f)
  PROVE  NovInv'
<1> DEFINE c    == f.task[1]
           tie  == <<c, "tie_break">>
           n    == Len(settlements) + 1
           d    == Nov!Determination(f)
           done == {t \in Nov!TaskIds : novelTasks[t].status = "completed"} \cup {f.task}
           D    == [cand : Candidates, rows : Seq(Nov!Row), result : Nov!Result,
                    card : Cards \cup {Nov!NoCard}]
<1>1. f \in NovelDecision /\ DecisionHolds(f)
  <2>1. f.kind = "submit"
    BY Zenon DEF Nov!CommitDecision
  <2> QED BY <2>1 DEF NovInv, SettlingHolds, NovelClaim
<1>2. /\ f.task \in Nov!TaskIds /\ f.row \in Nov!Row /\ f.rows \in Seq(Nov!Row) /\ f.result \in Nov!Result
      /\ f.card \in Cards \cup {Nov!NoCard} /\ f.rescore \in BOOLEAN
      /\ c \in Candidates /\ tie \in Nov!TaskIds
  BY <1>1 DEF NovelDecision, Nov!TaskIds, Nov!NovelSlots
<1>3. /\ novelTasks[f.task].status = "claimed" /\ ~ Nov!HasFinal(c)
      /\ f.row.task = f.task /\ f.rows = Append(decisions[c], f.row)
      /\ Judged(c, Severe(c), f.rows, f.result)
      /\ f.card # Nov!NoCard => f.result.final /\ f.result.outcome = "confirmed"
      /\ f.rescore => f.card # Nov!NoCard /\ f.card.immutable
  BY <1>1, Zenon DEF DecisionHolds
<1>4. /\ decisions' = [decisions EXCEPT ![c] = Append(@, f.row)]
      /\ novelTasks' = [t \in Nov!TaskIds |->
            IF t = f.task THEN [novelTasks[t] EXCEPT !.status = "completed"]
            ELSE IF t = tie /\ f.result.tieBreak /\ novelTasks[t] = Nov!NoTask
                   THEN [Nov!NoTask EXCEPT !.status = "pending"] ELSE novelTasks[t]]
      /\ settlements' = Append(settlements, d)
      /\ candidates' = [candidates EXCEPT ![c].state = Nov!StateFrom(c, f.result)]
      /\ successors' = IF f.card = Nov!NoCard THEN successors ELSE successors \cup {Nov!Successor(c)}
      /\ scorecards' = IF f.rescore THEN Nov!Registered(Nov!Recomputed(c, f.card), f.card) ELSE scorecards
      /\ settling' = settling \ {f}
  BY Zenon DEF Nov!CommitDecision
<1>5. d = [cand |-> c, rows |-> f.rows, result |-> f.result, card |-> f.card]
  BY Zenon DEF Nov!Determination
<1>6. /\ decisions[c] \in Seq(Nov!Row)
      /\ DOMAIN decisions[c] = 1 .. Len(decisions[c]) /\ Len(decisions[c]) \in Nat
      /\ \A k \in DOMAIN decisions[c] :
           /\ decisions[c][k].task \in Nov!TaskIds /\ decisions[c][k].task[1] = c
           /\ novelTasks[decisions[c][k].task].status = "completed"
  BY <1>2, DecisionsOf, Zenon
<1>7. /\ DOMAIN f.rows = 1 .. Len(decisions[c]) + 1
      /\ \A k \in DOMAIN decisions[c] : f.rows[k] = decisions[c][k]
      /\ f.rows[Len(decisions[c]) + 1] = f.row
      /\ \A k \in DOMAIN f.rows : k \in DOMAIN decisions[c] \/ k = Len(decisions[c]) + 1
  <2>1. /\ DOMAIN f.rows = 1 .. Len(decisions[c]) + 1
        /\ \A k \in DOMAIN decisions[c] : f.rows[k] = decisions[c][k]
        /\ f.rows[Len(decisions[c]) + 1] = f.row
    BY <1>2, <1>3, <1>6, AppendProperties, LenProperties
  <2> QED BY <1>6, <2>1
<1>8. /\ decisions'[c] = f.rows /\ \A b \in Candidates : b # c => decisions'[b] = decisions[b]
      /\ decisions' \in [Candidates -> Seq(Nov!Row)]
  <2>1. decisions \in [Candidates -> Seq(Nov!Row)]
    BY DEF NovInv, Nov!TypeOK
  <2> QED BY <1>2, <1>3, <1>4, <2>1
<1>9. candidates[c] # Nov!Absent
  BY <1>2, <1>3 DEF NovInv, TasksFit
<1>10. /\ candidates'[c] = [state |-> Nov!StateFrom(c, f.result), severity |-> candidates[c].severity]
       /\ \A b \in Candidates : b # c => candidates'[b] = candidates[b]
       /\ \A b \in Candidates : candidates'[b].severity = candidates[b].severity
       /\ candidates' \in [Candidates -> {Nov!Absent} \cup
             [state : {"pending"} \cup Nov!Reg!Validities, severity : Ratings]]
       /\ candidates'[c] # Nov!Absent
  <2>1. candidates \in [Candidates -> {Nov!Absent} \cup
             [state : {"pending"} \cup Nov!Reg!Validities, severity : Ratings]]
    BY DEF NovInv, Nov!TypeOK
  <2>2. candidates[c] \in [state : {"pending"} \cup Nov!Reg!Validities, severity : Ratings]
    BY <1>2, <1>9, <2>1
  <2>3. Nov!StateFrom(c, f.result) \in {"pending"} \cup Nov!Reg!Validities
    <3>1. f.result.outcome \in Nov!Reg!Validities
      BY <1>2 DEF Nov!Result
    <3> QED BY <2>2, <3>1 DEF Nov!StateFrom
  <2>4. \A s : s \in {"pending"} \cup Nov!Reg!Validities => s # "absent"
    BY DEF Nov!Reg!Validities
  <2> QED BY <1>2, <1>4, <2>1, <2>2, <2>3, <2>4 DEF Nov!Absent
<1>11. \A b \in Candidates : Severe(b)' = Severe(b)
  BY <1>10, Zenon DEF Severe
<1>12. /\ settlements' \in Seq(D) /\ DOMAIN settlements = 1 .. Len(settlements)
       /\ DOMAIN settlements' = 1 .. n /\ n \in Nat /\ Len(settlements) \in Nat
       /\ \A k \in DOMAIN settlements : settlements'[k] = settlements[k] /\ settlements[k] \in D
       /\ settlements'[n] = d /\ d \in D
       /\ \A k \in DOMAIN settlements' : k \in DOMAIN settlements \/ k = n
       /\ \A k \in DOMAIN settlements : k \in DOMAIN settlements' /\ k < n
       /\ n \in DOMAIN settlements'
  <2>1. d \in D
    BY <1>2, <1>5
  <2>2. settlements \in Seq(D) /\ DOMAIN settlements = 1 .. Len(settlements) /\ Len(settlements) \in Nat
        /\ \A k \in DOMAIN settlements : settlements[k] \in D
    BY SettlementTypes, Zenon
  <2> HIDE DEF D, d
  <2>3. /\ settlements' \in Seq(D) /\ Len(settlements') = n
        /\ \A k \in 1 .. Len(settlements) : settlements'[k] = settlements[k]
        /\ settlements'[n] = d
    BY <1>4, <2>1, <2>2, AppendProperties
  <2>4. DOMAIN settlements' = 1 .. n
    BY <2>3, LenProperties
  <2> QED BY <2>1, <2>2, <2>3, <2>4
<1>13. /\ d.cand = c /\ d.rows = f.rows /\ d.result = f.result /\ d.card = f.card
  BY <1>5
<1> HIDE DEF d
<1>14. \A t \in Nov!TaskIds :
         /\ t = f.task => novelTasks'[t] = [status |-> "completed", holder |-> novelTasks[t].holder]
         /\ t # f.task => \/ novelTasks'[t] = novelTasks[t]
                          \/ /\ t = tie /\ f.result.tieBreak /\ novelTasks[t].status = "absent"
                             /\ novelTasks'[t] = [status |-> "pending", holder |-> Nobody]
  <2>1. \A t \in Nov!TaskIds : novelTasks[t] \in [status : {"absent", "pending", "claimed", "completed"},
                                                 holder : Novelists \cup {Nobody}]
    BY DEF NovInv, Nov!TypeOK
  <2> QED BY <1>4, <2>1 DEF Nov!NoTask
<1>15. \A t \in Nov!TaskIds : t \in done <=> novelTasks[t].status = "completed" \/ t = f.task
  OBVIOUS
<1>16. \A t \in Nov!TaskIds :
         /\ novelTasks'[t].status = "completed" <=> t \in done
         /\ novelTasks[t].status # "absent" => novelTasks'[t].status # "absent"
         /\ t[1] # c => novelTasks'[t] = novelTasks[t]
         /\ novelTasks[t].status = "absent" /\ ~ (t = tie /\ f.result.tieBreak) =>
              novelTasks'[t].status = "absent"
  <2> SUFFICES ASSUME NEW t \in Nov!TaskIds
               PROVE  /\ novelTasks'[t].status = "completed" <=> t \in done
                      /\ novelTasks[t].status # "absent" => novelTasks'[t].status # "absent"
                      /\ t[1] # c => novelTasks'[t] = novelTasks[t]
                      /\ novelTasks[t].status = "absent" /\ ~ (t = tie /\ f.result.tieBreak) =>
                           novelTasks'[t].status = "absent"
    OBVIOUS
  <2>1. tie[1] = c
    OBVIOUS
  <2> HIDE DEF tie, done
  <2>2. CASE t = f.task
    <3>1. novelTasks'[t] = [status |-> "completed", holder |-> novelTasks[t].holder]
      BY <1>14, <2>2
    <3>2. novelTasks'[t].status = "completed" /\ novelTasks[t].status = "claimed"
      BY <1>3, <2>2, <3>1
    <3> QED BY <1>15, <2>2, <3>2
  <2>3. CASE t # f.task /\ novelTasks'[t] = novelTasks[t]
    BY <1>15, <2>3
  <2>4. CASE /\ t # f.task /\ t = tie /\ f.result.tieBreak /\ novelTasks[t].status = "absent"
             /\ novelTasks'[t] = [status |-> "pending", holder |-> Nobody]
    BY <1>15, <2>1, <2>4
  <2> QED BY <1>14, <2>2, <2>3, <2>4
<1>17. /\ f.result.tieBreak => ~ f.result.final /\ \A s \in Nov!PrimarySlots : <<c, s>> \in done
       /\ f.result.final => \A t \in Nov!TaskIds : t[1] = c => novelTasks[t].status = "absent" \/ t \in done
  <2>1. done \in SUBSET Nov!TaskIds
    BY <1>2
  <2> HIDE DEF done
  <2>2. done = {t \in Nov!TaskIds : novelTasks[t].status = "completed"} \cup {f.task}
    BY DEF done
  <2> QED BY <1>1, <2>1, <2>2, TasksDone
<1>18. f.result.tieBreak => novelTasks'[tie].status # "absent"
  <2>1. f.result.tieBreak /\ novelTasks[tie].status = "absent" => novelTasks[tie] = Nov!NoTask
    <3>1. novelTasks[tie] \in [status : {"absent", "pending", "claimed", "completed"},
                               holder : Novelists \cup {Nobody}]
      BY <1>2 DEF NovInv, Nov!TypeOK
    <3>2. novelTasks[tie].status = "absent" => novelTasks[tie].holder = Nobody
      BY <1>2 DEF NovInv, TasksFit
    <3> QED BY <3>1, <3>2 DEF Nov!NoTask
  <2>2. novelTasks[tie].status = "absent" => tie # f.task
    BY <1>3
  <2> HIDE DEF tie
  <2> QED BY <1>2, <1>4, <1>16, <2>1, <2>2 DEF Nov!NoTask
<1>19. \A b \in Candidates : b # c => Nov!HasFinal(b)' = Nov!HasFinal(b)
  <2>1. \A b \in Candidates : b # c => (Nov!HasFinal(b)' <=> Nov!HasFinal(b))
    BY <1>12, <1>13, Zenon DEF Nov!HasFinal
  <2>2. \A b \in Candidates : Nov!HasFinal(b) \in BOOLEAN /\ Nov!HasFinal(b)' \in BOOLEAN
    BY DEF Nov!HasFinal
  <2> QED BY <2>1, <2>2
<1> HIDE DEF done, tie, n, D
<1>20. Nov!TypeOK'
  <2>1. novelTasks' \in [Nov!TaskIds -> [status : {"absent", "pending", "claimed", "completed"},
                                         holder : Novelists \cup {Nobody}]]
    <3>1. \A t \in Nov!TaskIds : novelTasks[t] \in [status : {"absent", "pending", "claimed", "completed"},
                                                   holder : Novelists \cup {Nobody}]
      BY DEF NovInv, Nov!TypeOK
    <3>2. \A t \in Nov!TaskIds : novelTasks'[t] \in [status : {"absent", "pending", "claimed", "completed"},
                                                    holder : Novelists \cup {Nobody}]
      <4> SUFFICES ASSUME NEW t \in Nov!TaskIds
                   PROVE  novelTasks'[t] \in [status : {"absent", "pending", "claimed", "completed"},
                                              holder : Novelists \cup {Nobody}]
        OBVIOUS
      <4>1. novelTasks[t].holder \in Novelists \cup {Nobody}
        BY <3>1
      <4>2. CASE novelTasks'[t] = [status |-> "completed", holder |-> novelTasks[t].holder]
        BY <4>1, <4>2
      <4>3. CASE novelTasks'[t] = novelTasks[t]
        BY <3>1, <4>3
      <4>4. CASE novelTasks'[t] = [status |-> "pending", holder |-> Nobody]
        BY <4>4
      <4> QED BY <1>14, <4>2, <4>3, <4>4
    <3>3. novelTasks' = [t \in Nov!TaskIds |-> novelTasks'[t]]
      BY <1>4
    <3> QED BY <3>2, <3>3
  <2>2. successors' \subseteq [cand : Candidates, from : DOMAIN settlements']
    <3>1. successors \subseteq [cand : Candidates, from : DOMAIN settlements']
      BY <1>12 DEF NovInv, Nov!TypeOK
    <3>2. Nov!Successor(c) \in [cand : Candidates, from : DOMAIN settlements']
      BY <1>2, <1>12 DEF Nov!Successor, n
    <3> QED BY <1>4, <3>1, <3>2
  <2>3. scorecards' \subseteq [card : Nov!Card, pred : Cards \cup {Nov!NoCard}]
    <3>1. scorecards \subseteq [card : Nov!Card, pred : Cards \cup {Nov!NoCard}]
      BY DEF NovInv, Nov!TypeOK
    <3>2. ASSUME f.rescore
          PROVE  [card |-> Nov!Recomputed(c, f.card), pred |-> f.card]
                   \in [card : Nov!Card, pred : Cards \cup {Nov!NoCard}]
      <4>1. f.card \in Nov!Card
        BY <1>2, <1>3, <3>2 DEF Nov!ConstantsAssumption
      <4>2. Nov!Recomputed(c, f.card) \in Nov!Card
        BY <1>2, <4>1 DEF Nov!Recomputed, Nov!Card
      <4> QED BY <1>2, <4>2
    <3> QED BY <1>4, <3>1, <3>2 DEF Nov!Registered
  <2>4. settlements' \in Seq([cand : Candidates, rows : Seq(Nov!Row), result : Nov!Result,
                              card : Cards \cup {Nov!NoCard}])
    BY <1>12 DEF D
  <2> QED BY <1>8, <1>10, <2>1, <2>2, <2>3, <2>4, Zenon DEF Nov!TypeOK
<1>21. TasksFit'
  <2>1. \A t \in Nov!TaskIds : t = <<t[1], t[2]>> /\ \A s \in Nov!PrimarySlots : <<t[1], s>> \in Nov!TaskIds
    BY DEF Nov!TaskIds, Nov!NovelSlots
  <2> SUFFICES ASSUME NEW t \in Nov!TaskIds
               PROVE  /\ novelTasks'[t].status \in {"absent", "pending"} <=> novelTasks'[t].holder = Nobody
                      /\ novelTasks'[t].status # "absent" =>
                           /\ candidates'[t[1]] # Nov!Absent
                           /\ t[2] = "secondary" => Severe(t[1])'
                           /\ t[2] = "tie_break" =>
                                \A s \in Nov!PrimarySlots : novelTasks'[<<t[1], s>>].status = "completed"
    BY Zenon DEF TasksFit
  <2>2. /\ novelTasks[t].status \in {"absent", "pending"} <=> novelTasks[t].holder = Nobody
        /\ novelTasks[t].status # "absent" =>
             /\ candidates[t[1]] # Nov!Absent
             /\ t[2] = "secondary" => Severe(t[1])
             /\ t[2] = "tie_break" =>
                  \A s \in Nov!PrimarySlots : novelTasks[<<t[1], s>>].status = "completed"
    BY Zenon DEF NovInv, TasksFit
  <2>3. t[1] \in Candidates
    BY DEF Nov!TaskIds
  <2>4. candidates[t[1]] # Nov!Absent => candidates'[t[1]] # Nov!Absent
    BY <1>10, <2>3
  <2>5. \A s \in Nov!PrimarySlots : novelTasks[<<t[1], s>>].status = "completed" =>
                                      novelTasks'[<<t[1], s>>].status = "completed"
    BY <1>16, <2>1 DEF done
  <2>6. CASE t = f.task
    <3>1. novelTasks'[t].status = "completed" /\ novelTasks'[t].holder = novelTasks[t].holder
      <4>1. novelTasks'[t] = [status |-> "completed", holder |-> novelTasks[t].holder]
        BY <1>14, <2>6
      <4> QED BY <4>1
    <3>2. novelTasks[t].status = "claimed"
      BY <1>3, <2>6
    <3> QED BY <1>11, <2>2, <2>3, <2>4, <2>5, <3>1, <3>2
  <2>7. CASE novelTasks'[t] = novelTasks[t]
    BY <1>11, <2>2, <2>3, <2>4, <2>5, <2>7
  <2>8. CASE /\ t = tie /\ f.result.tieBreak
             /\ novelTasks'[t] = [status |-> "pending", holder |-> Nobody]
    <3>1. t[1] = c /\ t[2] = "tie_break"
      BY <2>8 DEF tie
    <3>2. \A s \in Nov!PrimarySlots : novelTasks'[<<t[1], s>>].status = "completed"
      BY <1>16, <1>17, <2>1, <2>8, <3>1
    <3> QED BY <1>10, <2>8, <3>1, <3>2
  <2> QED BY <1>14, <2>6, <2>7, <2>8
<1>22. RowsFit'
  <2>1. \A t \in Nov!TaskIds : t \in done <=> novelTasks[t].status = "completed" \/ t = f.task
    BY DEF done
  <2>2. ASSUME NEW b \in Candidates, NEW k \in DOMAIN decisions'[b]
        PROVE  /\ decisions'[b][k].task[1] = b
               /\ novelTasks'[decisions'[b][k].task].status = "completed"
               /\ \A l \in DOMAIN decisions'[b] :
                    decisions'[b][k].task = decisions'[b][l].task => k = l
    <3>1. CASE b # c
      <4>1. decisions'[b] = decisions[b]
        BY <1>8, <3>1
      <4>2. /\ decisions[b][k].task \in Nov!TaskIds /\ decisions[b][k].task[1] = b
            /\ novelTasks[decisions[b][k].task].status = "completed"
        BY <2>2, <4>1, DecisionsOf
      <4>3. \A l \in DOMAIN decisions[b] : decisions[b][k].task = decisions[b][l].task => k = l
        BY <2>2, <4>1, Zenon DEF NovInv, RowsFit
      <4> QED BY <1>16, <2>1, <4>1, <4>2, <4>3
    <3>2. CASE b = c
      <4>1. decisions'[b] = f.rows
        BY <1>8, <3>2
      <4>2. /\ f.rows[k].task[1] = c
            /\ \A l \in DOMAIN f.rows : f.rows[k].task = f.rows[l].task => k = l
        BY <1>3, <2>2, <4>1, Zenon DEF Judged
      <4>3. f.rows[k].task \in Nov!TaskIds /\ f.rows[k].task \in done
        <5>1. CASE k \in DOMAIN decisions[c]
          BY <1>6, <1>7, <2>1, <5>1
        <5>2. CASE k = Len(decisions[c]) + 1
          BY <1>2, <1>3, <1>7, <2>1, <5>2
        <5> QED BY <1>7, <2>2, <4>1, <5>1, <5>2
      <4> QED BY <1>16, <3>2, <4>1, <4>2, <4>3
    <3> QED BY <3>1, <3>2
  <2>3. ASSUME NEW t \in Nov!TaskIds, novelTasks'[t].status = "completed"
        PROVE  \E k \in DOMAIN decisions'[t[1]] : decisions'[t[1]][k].task = t
    <3>0. t[1] \in Candidates
      BY DEF Nov!TaskIds
    <3>1. CASE t = f.task
      <4>1. t[1] = c /\ Len(decisions[c]) + 1 \in DOMAIN f.rows
        BY <1>6, <1>7, <3>1
      <4> QED BY <1>3, <1>7, <1>8, <3>1, <4>1
    <3>2. CASE novelTasks[t].status = "completed"
      <4>1. PICK k \in DOMAIN decisions[t[1]] : decisions[t[1]][k].task = t
        BY <3>2, Zenon DEF NovInv, RowsFit
      <4>2. CASE t[1] # c
        BY <1>8, <3>0, <4>1, <4>2
      <4>3. CASE t[1] = c
        <5>1. k \in DOMAIN f.rows /\ f.rows[k] = decisions[c][k]
          BY <1>6, <1>7, <4>1, <4>3
        <5> QED BY <1>8, <4>1, <4>3, <5>1
      <4> QED BY <4>2, <4>3
    <3> QED BY <1>16, <2>1, <2>3, <3>1, <3>2
  <2> QED BY <2>2, <2>3 DEF RowsFit
<1>23. SettlementsFit'
  <2> DEFINE Fits(x) ==
        /\ candidates'[x.cand] # Nov!Absent
        /\ Judged(x.cand, Nov!RequiresTwoPrimaries(candidates'[x.cand].severity), x.rows, x.result)
        /\ \A i \in DOMAIN x.rows :
              \E j \in DOMAIN decisions'[x.cand] : decisions'[x.cand][j] = x.rows[i]
        /\ x.result.tieBreak => novelTasks'[<<x.cand, "tie_break">>].status # "absent"
  <2>1. ASSUME NEW k \in DOMAIN settlements PROVE Fits(settlements[k])
    <3> DEFINE s == settlements[k]
    <3>1. s.cand \in Candidates
      BY <1>12 DEF D
    <3>2. /\ candidates[s.cand] # Nov!Absent
          /\ Judged(s.cand, Severe(s.cand), s.rows, s.result)
          /\ \A i \in DOMAIN s.rows :
                \E j \in DOMAIN decisions[s.cand] : decisions[s.cand][j] = s.rows[i]
          /\ s.result.tieBreak => novelTasks[<<s.cand, "tie_break">>].status # "absent"
      BY <2>1, Zenon DEF NovInv, SettlementsFit
    <3> HIDE DEF s
    <3>3. candidates'[s.cand] # Nov!Absent
      BY <1>10, <3>1, <3>2
    <3>4. Judged(s.cand, Nov!RequiresTwoPrimaries(candidates'[s.cand].severity), s.rows, s.result)
      <4>1. candidates'[s.cand].severity = candidates[s.cand].severity
        BY <1>10, <3>1
      <4> QED BY <3>2, <4>1, Zenon DEF Severe
    <3>5. \A i \in DOMAIN s.rows : \E j \in DOMAIN decisions'[s.cand] : decisions'[s.cand][j] = s.rows[i]
      <4>1. \A j \in DOMAIN decisions[s.cand] :
              j \in DOMAIN decisions'[s.cand] /\ decisions'[s.cand][j] = decisions[s.cand][j]
        <5>1. CASE s.cand # c
          <6>1. decisions'[s.cand] = decisions[s.cand]
            BY <1>8, <3>1, <5>1
          <6> QED BY <6>1
        <5>2. CASE s.cand = c
          <6>1. \A j \in DOMAIN decisions[c] : j \in DOMAIN f.rows
            BY <1>6, <1>7
          <6> QED BY <1>7, <1>8, <5>2, <6>1
        <5> QED BY <5>1, <5>2
      <4> QED BY <3>2, <4>1
    <3>6. s.result.tieBreak => novelTasks'[<<s.cand, "tie_break">>].status # "absent"
      <4>1. <<s.cand, "tie_break">> \in Nov!TaskIds
        BY <3>1 DEF Nov!TaskIds, Nov!NovelSlots
      <4> QED BY <1>16, <3>2, <4>1
    <3> QED BY <3>3, <3>4, <3>5, <3>6 DEF s
  <2>2. Fits(d)
    <3>1. Judged(c, Nov!RequiresTwoPrimaries(candidates'[c].severity), f.rows, f.result)
      BY <1>2, <1>3, <1>10, Zenon DEF Severe
    <3>2. \A i \in DOMAIN f.rows : \E j \in DOMAIN decisions'[c] : decisions'[c][j] = f.rows[i]
      BY <1>8
    <3> QED BY <1>10, <1>13, <1>18, <3>1, <3>2 DEF tie
  <2> HIDE DEF Fits
  <2>3. \A k \in DOMAIN settlements' : Fits(settlements'[k])
    BY <1>12, <2>1, <2>2
  <2> QED BY <2>3, Zenon DEF SettlementsFit, Severe, Fits
<1>24. SettlingHolds'
  <2>1. \A b \in Candidates : b # c => /\ decisions'[b] = decisions[b] /\ candidates'[b] = candidates[b]
                                       /\ Nov!HasFinal(b)' = Nov!HasFinal(b)
    BY <1>8, <1>10, <1>19
  <2> QED BY <1>4, <1>16, <2>1, OthersHold
<1>25. Nov!SettledOnce'
  <2>1. \A k \in DOMAIN settlements : settlements[k].result.final => settlements[k].cand # c
    BY <1>3 DEF Nov!HasFinal
  <2> SUFFICES ASSUME NEW k \in DOMAIN settlements', settlements'[k].result.final
               PROVE  /\ \A t \in Nov!TaskIds : t[1] = settlements'[k].cand =>
                            novelTasks'[t].status \in {"absent", "completed"}
                      /\ \A j \in DOMAIN settlements' :
                            settlements'[j].cand = settlements'[k].cand => j <= k
    BY DEF Nov!SettledOnce
  <2>2. CASE k \in DOMAIN settlements
    <3>1. settlements'[k] = settlements[k] /\ settlements[k].result.final /\ settlements[k].cand # c
      BY <1>12, <2>1, <2>2
    <3>2. /\ \A t \in Nov!TaskIds : t[1] = settlements[k].cand =>
                novelTasks[t].status \in {"absent", "completed"}
          /\ \A j \in DOMAIN settlements : settlements[j].cand = settlements[k].cand => j <= k
      BY <2>2, <3>1, Zenon DEF NovInv, Nov!SettledOnce
    <3>3. \A t \in Nov!TaskIds : t[1] = settlements[k].cand => novelTasks'[t] = novelTasks[t]
      BY <1>16, <3>1
    <3>4. \A j \in DOMAIN settlements' : settlements'[j].cand = settlements[k].cand => j <= k
      BY <1>12, <1>13, <3>1, <3>2
    <3> QED BY <3>1, <3>2, <3>3, <3>4
  <2>3. CASE k = n
    <3>1. settlements'[k].cand = c /\ f.result.final
      BY <1>12, <1>13, <2>3
    <3>2. ASSUME NEW t \in Nov!TaskIds, t[1] = c PROVE novelTasks'[t].status \in {"absent", "completed"}
      <4>1. novelTasks[t].status = "absent" \/ t \in done
        BY <1>17, <3>1, <3>2
      <4>2. ~ f.result.tieBreak
        BY <1>17, <3>1
      <4> QED BY <1>16, <4>1, <4>2
    <3>3. \A j \in DOMAIN settlements' : j <= k
      BY <1>12, <2>3
    <3> QED BY <3>1, <3>2, <3>3
  <2> QED BY <1>12, <2>2, <2>3
<1>26. Nov!StateIsOutcome'
  <2> SUFFICES ASSUME NEW b \in Candidates, candidates'[b] # Nov!Absent
               PROVE  IF Nov!HasFinal(b)'
                        THEN \E k \in DOMAIN settlements' :
                                /\ settlements'[k].cand = b /\ settlements'[k].result.final
                                /\ candidates'[b].state = settlements'[k].result.outcome
                        ELSE candidates'[b].state = "pending"
    BY DEF Nov!StateIsOutcome
  <2>1. candidates[b] # Nov!Absent =>
          IF Nov!HasFinal(b)
            THEN \E k \in DOMAIN settlements :
                    /\ settlements[k].cand = b /\ settlements[k].result.final
                    /\ candidates[b].state = settlements[k].result.outcome
            ELSE candidates[b].state = "pending"
    BY Zenon DEF NovInv, Nov!StateIsOutcome
  <2>2. CASE b # c
    BY <1>10, <1>12, <1>19, <2>1, <2>2
  <2>3. CASE b = c /\ f.result.final
    <3>1. candidates'[b].state = f.result.outcome
      BY <1>10, <2>3 DEF Nov!StateFrom
    <3>2. /\ settlements'[n].cand = b /\ settlements'[n].result.final
          /\ candidates'[b].state = settlements'[n].result.outcome
      BY <1>12, <1>13, <2>3, <3>1
    <3>3. Nov!HasFinal(b)'
      BY <1>12, <3>2 DEF Nov!HasFinal
    <3> QED BY <1>12, <3>2, <3>3
  <2>4. CASE b = c /\ ~ f.result.final
    <3>1. candidates'[b].state = candidates[b].state
      BY <1>10, <2>4 DEF Nov!StateFrom
    <3>2. candidates[b].state = "pending"
      BY <1>3, <1>9, <2>1, <2>4
    <3>3. ~ Nov!HasFinal(b)'
      BY <1>3, <1>12, <1>13, <2>4 DEF Nov!HasFinal
    <3> QED BY <3>1, <3>2, <3>3
  <2> QED BY <2>2, <2>3, <2>4
<1>27. Nov!SuccessorsTraceable'
  <2>1. ASSUME NEW s \in successors'
        PROVE  LET x == settlements'[s.from] IN
               x.cand = s.cand /\ x.result.final /\ x.result.outcome = "confirmed"
    <3>1. CASE s \in successors
      <4>1. s.from \in DOMAIN settlements
        BY <3>1 DEF NovInv, Nov!TypeOK
      <4> QED BY <1>12, <3>1, <4>1 DEF NovInv, Nov!SuccessorsTraceable
    <3>2. CASE f.card # Nov!NoCard /\ s = Nov!Successor(c)
      <4>1. s.from = n /\ s.cand = c
        BY <3>2 DEF Nov!Successor, n
      <4> QED BY <1>3, <1>12, <1>13, <3>2, <4>1
    <3> QED BY <1>4, <2>1, <3>1, <3>2
  <2>2. ASSUME NEW s \in scorecards', s.card.id[1] # Nobody
        PROVE  /\ s.pred # Nov!NoCard /\ s.pred.immutable
               /\ \E u \in successors' : u.cand = s.card.id[1] /\ settlements'[u.from].card = s.pred
    <3>1. CASE s \in scorecards
      <4>1. /\ s.pred # Nov!NoCard /\ s.pred.immutable
            /\ \E u \in successors : u.cand = s.card.id[1] /\ settlements[u.from].card = s.pred
        BY <2>2, <3>1, Zenon DEF NovInv, Nov!SuccessorsTraceable
      <4>2. \A u \in successors : u \in successors' /\ u.from \in DOMAIN settlements
        BY <1>4 DEF NovInv, Nov!TypeOK
      <4>3. \A u \in successors : settlements'[u.from] = settlements[u.from]
        BY <1>12, <4>2
      <4> QED BY <4>1, <4>2, <4>3
    <3>2. CASE f.rescore /\ s = [card |-> Nov!Recomputed(c, f.card), pred |-> f.card]
      <4>1. s.pred = f.card /\ s.card.id[1] = c
        BY <3>2 DEF Nov!Recomputed
      <4>2. Nov!Successor(c).cand = c /\ Nov!Successor(c).from = n
        BY DEF Nov!Successor, n
      <4>3. Nov!Successor(c) \in successors'
        BY <1>3, <1>4, <3>2
      <4> QED BY <1>3, <1>12, <1>13, <3>2, <4>1, <4>2, <4>3
    <3> QED BY <1>4, <2>2, <3>1, <3>2 DEF Nov!Registered
  <2> QED BY <2>1, <2>2 DEF Nov!SuccessorsTraceable
<1> QED BY <1>20, <1>21, <1>22, <1>23, <1>24, <1>25, <1>26, <1>27 DEF NovInv

LEMMA NovStep ==
  ASSUME Nov!ConstantsAssumption, NovInv, OnePerCandidate, [Nov!Next]_(Nov!vars)
  PROVE  NovInv'
<1>1. ASSUME NEW f \in settling, Nov!Abort(f) PROVE NovInv'
  BY <1>1, FlightStep DEF Nov!Abort
<1>2. CASE UNCHANGED Nov!vars
  BY <1>2, FlightStep DEF Nov!vars
<1>3. ASSUME NEW card \in Cards, Nov!RegisterScorecard(card) PROVE NovInv'
  BY <1>3, RegisterStep
<1>4. ASSUME NEW queue \in Nov!Queues, NEW seed \in BOOLEAN, Nov!IngestQueue(queue, seed) PROVE NovInv'
  BY <1>4, IngestStep
<1>5. ASSUME NEW e \in Novelists, NEW t \in Nov!TaskIds, Nov!ReadClaim(e, t) PROVE NovInv'
  BY <1>5, ReadClaimStep
<1>6. ASSUME NEW e \in Novelists, NEW t \in Nov!TaskIds, NEW o \in Opinions,
             NEW card \in Cards \cup {Nov!NoCard}, NEW rescore \in BOOLEAN,
             Nov!ReadDecision(e, t, o, card, rescore)
      PROVE  NovInv'
  BY <1>6, ReadDecisionStep
<1>7. ASSUME NEW f \in settling, Nov!CommitClaim(f) PROVE NovInv'
  BY <1>7, CommitClaimStep
<1>8. ASSUME NEW f \in settling, Nov!CommitDecision(f) PROVE NovInv'
  BY <1>8, CommitDecisionStep
<1> QED BY <1>1, <1>2, <1>3, <1>4, <1>5, <1>6, <1>7, <1>8, Zenon DEF Nov!Next

LEMMA NovAlways ==
  ASSUME Nov!ConstantsAssumption PROVE Nov!Spec /\ []OnePerCandidate => []NovInv
BY NovInit, NovStep, PTL DEF Nov!Spec

-----------------------------------------------------------------------------
(* What follows for novel concerns *)

LEMMA ByTwoExperts ==
  ASSUME NovInv, NEW k \in DOMAIN settlements,
         settlements[k].result.final, Severe(settlements[k].cand)
  PROVE  /\ Len(settlements[k].rows) >= 2
         /\ \A i, j \in DOMAIN settlements[k].rows :
               i # j => settlements[k].rows[i].expert # settlements[k].rows[j].expert
<1> DEFINE d    == settlements[k]
           rows == d.rows
           p    == Nov!PrimaryRows(rows)
           t    == Nov!TieRows(rows)
<1>1. /\ rows \in Seq(Nov!Row) /\ Nov!Acceptable(rows) /\ Severe(d.cand)
      /\ d.result = Nov!DetermineNovel(rows, Severe(d.cand))
  BY Zenon DEF NovInv, SettlementsFit, Judged
<1> HIDE DEF rows
<1>2. \E i, j \in p : i # j
  <2>1. Nov!DetermineNovel(rows, TRUE).final => \E i, j \in p : i # j
    BY <1>1, PolicyMeans
  <2>2. Severe(d.cand) = TRUE
    BY <1>1 DEF Severe, Nov!RequiresTwoPrimaries
  <2> QED BY <1>1, <2>1, <2>2
<1>3. DOMAIN rows = 1 .. Len(rows) /\ Len(rows) \in Nat
  BY <1>1, LenProperties
<1>4. p \cup t = DOMAIN rows
  BY <1>1, PanelShape, Zenon
<1>5. Len(rows) >= 2
  BY <1>2, <1>3, <1>4
<1>6. /\ \A i, j, m \in p : i = j \/ i = m \/ j = m
      /\ \A i, m \in t : i = m
      /\ \A i, j \in p : i # j =>
            /\ rows[i].expert # rows[j].expert
            /\ \A m \in t : rows[m].expert # rows[i].expert
  BY <1>1, Zenon DEF Nov!Acceptable
<1>7. \A i, j \in DOMAIN rows : i # j => rows[i].expert # rows[j].expert
  <2> HIDE DEF p, t
  <2>1. \A i \in p, m \in t : rows[m].expert # rows[i].expert
    BY <1>2, <1>6
  <2> QED BY <1>4, <1>6, <2>1
<1> QED BY <1>5, <1>7 DEF rows

LEMMA AuditClean == ASSUME Nov!ConstantsAssumption, NovInv PROVE Nov!AuditPasses
<1>1. ASSUME NEW t \in Nov!TaskIds PROVE Nov!CheckTaskState(t)
  <2>1. novelTasks[t].status \in {"absent", "pending"} <=> novelTasks[t].holder = Nobody
    BY Zenon DEF NovInv, TasksFit
  <2>2. novelTasks[t].status = "completed" => \E k \in DOMAIN decisions[t[1]] : decisions[t[1]][k].task = t
    BY Zenon DEF NovInv, RowsFit
  <2>3. t[1] \in Candidates
    BY DEF Nov!TaskIds
  <2>4. \A k \in DOMAIN decisions[t[1]] :
           decisions[t[1]][k].task = t => novelTasks[t].status = "completed"
    BY <2>3, DecisionsOf
  <2> QED BY <2>1, <2>2, <2>4 DEF Nov!CheckTaskState
<1>2. ASSUME NEW k \in DOMAIN settlements PROVE Nov!CheckDetermination(settlements[k])
  <2> DEFINE d == settlements[k]
  <2>1. /\ \A i \in DOMAIN d.rows : \E j \in DOMAIN decisions[d.cand] : decisions[d.cand][j] = d.rows[i]
        /\ d.result.tieBreak => novelTasks[<<d.cand, "tie_break">>].status # "absent"
        /\ d.rows \in Seq(Nov!Row) /\ d.rows # << >>
    BY Zenon DEF NovInv, SettlementsFit, Judged
  <2>2. 1 \in DOMAIN d.rows
    <3>1. DOMAIN d.rows = 1 .. Len(d.rows) /\ Len(d.rows) \in Nat /\ Len(d.rows) # 0
      BY <2>1, LenProperties, EmptySeq
    <3> QED BY <3>1
  <2>3. decisions[d.cand] # << >>
    BY <2>1, <2>2
  <2> QED BY <2>1, <2>3, Zenon DEF Nov!CheckDetermination
<1>3. ASSUME NEW j \in DOMAIN settlements, NEW k \in DOMAIN settlements,
             settlements[j].result.final, settlements[k].result.final,
             settlements[j].cand = settlements[k].cand
      PROVE  settlements[j].result.outcome = settlements[k].result.outcome
  <2>1. j <= k /\ k <= j
    BY <1>3, Zenon DEF NovInv, Nov!SettledOnce
  <2>2. j \in Nat /\ k \in Nat
    BY SettlementTypes
  <2>3. j = k
    BY <2>1, <2>2
  <2> QED BY <2>3
<1> QED BY <1>1, <1>2, <1>3 DEF Nov!AuditPasses

LEMMA NovMeans ==
  ASSUME Nov!ConstantsAssumption, NovInv
  PROVE  /\ Nov!TypeOK /\ Nov!SettledOnce /\ Nov!SettledByIndependentExperts /\ Nov!AgreesWithRegistry
         /\ Nov!StateIsOutcome /\ Nov!SuccessorsTraceable /\ Nov!AuditPasses
<1>1. Nov!SettledByIndependentExperts
  BY ByTwoExperts, Zenon DEF Nov!SettledByIndependentExperts, Severe
<1>2. ASSUME NEW k \in DOMAIN settlements PROVE Agreed(settlements[k].rows, settlements[k].result)
  <2>1. \E two \in BOOLEAN : Judged(settlements[k].cand, two, settlements[k].rows, settlements[k].result)
    <3>1. Severe(settlements[k].cand) \in BOOLEAN
      BY DEF Severe, Nov!RequiresTwoPrimaries
    <3> QED BY <3>1, Zenon DEF NovInv, SettlementsFit
  <2> QED BY <2>1, PoliciesAgree, Zenon DEF Judged
<1>3. Nov!AgreesWithRegistry
  BY <1>2, Zenon DEF Nov!AgreesWithRegistry, Agreed
<1> QED BY <1>1, <1>3, AuditClean DEF NovInv

(* A severe candidate is settled by two experts or by three, and never by one who speaks
   twice, as long as no two requests about a candidate overlap: what a decision adds up to
   is read without a lock (novel_service.submit_decision).                               *)
THEOREM NovelSettledByTwo ==
  ASSUME Nov!ConstantsAssumption
  PROVE  Nov!Spec /\ []OnePerCandidate => []Nov!SettledByIndependentExperts
BY NovAlways, NovMeans, PTL

(* The two policies never disagree on two primaries, so a concern is settled alike whether
   a reviewer or the reference set raised it (determine_novel, determination.py).         *)
THEOREM NovelAgreesWithRegistry ==
  ASSUME Nov!ConstantsAssumption
  PROVE  Nov!Spec /\ []OnePerCandidate => []Nov!AgreesWithRegistry
BY NovAlways, NovMeans, PTL

(* A candidate is settled once, its state says how, its successors come from there, and the
   audit of the registry finds nothing.                                                   *)
THEOREM NovelSettledOnce ==
  ASSUME Nov!ConstantsAssumption
  PROVE  Nov!Spec /\ []OnePerCandidate =>
           []( /\ Nov!TypeOK /\ Nov!SettledOnce /\ Nov!StateIsOutcome
               /\ Nov!SuccessorsTraceable /\ Nov!AuditPasses)
BY NovAlways, NovMeans, PTL

(* One request at a time. *)
OneSettling == settling = {} \/ \E f : settling = {f}

LEMMA SameNumber == ASSUME NEW S PROVE Nov!Cardinality(S) = Cardinality(S)
BY DEF Nov!Cardinality, Cardinality

LEMMA OneSettlingStep ==
  ASSUME DecisionsInFlight = 1, OneSettling, [Nov!Next]_(Nov!vars) PROVE OneSettling'
<1>1. ASSUME NEW new, Nov!Cardinality(settling) < 1, settling' = settling \cup {new} PROVE OneSettling'
  <2>1. Cardinality(settling) < 1
    BY <1>1, SameNumber
  <2>2. \A f : Cardinality({f}) = 1
    BY FS_Singleton
  <2>3. settling = {}
    BY <2>1, <2>2 DEF OneSettling
  <2> QED BY <1>1, <2>3 DEF OneSettling
<1>2. ASSUME NEW e, NEW t, Nov!ReadClaim(e, t) PROVE OneSettling'
  BY <1>1, <1>2, Zenon DEF Nov!ReadClaim
<1>3. ASSUME NEW e, NEW t, NEW o, NEW card, NEW rescore, Nov!ReadDecision(e, t, o, card, rescore)
      PROVE  OneSettling'
  BY <1>1, <1>3, Zenon DEF Nov!ReadDecision
<1>4. ASSUME settling' \subseteq settling PROVE OneSettling'
  BY <1>4 DEF OneSettling
<1>5. \/ \E e, t : Nov!ReadClaim(e, t)
      \/ \E e, t, o, card, rescore : Nov!ReadDecision(e, t, o, card, rescore)
      \/ settling' \subseteq settling
  BY Zenon DEF Nov!Next, Nov!vars, Nov!RegisterScorecard, Nov!IngestQueue, Nov!CommitClaim,
         Nov!CommitDecision, Nov!Abort
<1> QED BY <1>2, <1>3, <1>4, <1>5

LEMMA NovelOneAtATime == ASSUME DecisionsInFlight = 1 PROVE Nov!Spec => []OnePerCandidate
<1>1. Nov!Init => OneSettling
  BY DEF Nov!Init, OneSettling
<1>2. OneSettling => OnePerCandidate
  BY DEF OneSettling, OnePerCandidate
<1>3. OneSettling /\ [Nov!Next]_(Nov!vars) => OneSettling'
  BY OneSettlingStep
<1> QED BY <1>1, <1>2, <1>3, PTL DEF Nov!Spec

-----------------------------------------------------------------------------
(* A behaviour of the parts is one of each part: the others rest. *)

LEMMA PartOfLedger == SpecParts => Spec
<1>1. InitParts => Init
  BY DEF InitParts
<1>2. [NextParts]_<<part, vars, calibration, reconstruction, novel>> => [Next]_vars
  BY Zenon DEF NextParts, Of, Rest
<1> QED BY <1>1, <1>2, PTL DEF SpecParts, Spec

LEMMA PartOfCalibration == SpecParts => Cal!Spec
<1>1. InitParts => Cal!Init
  BY DEF InitParts
<1>2. [NextParts]_<<part, vars, calibration, reconstruction, novel>> => [Cal!Next]_(Cal!vars)
  BY DEF NextParts, Of, Rest, calibration, Cal!vars
<1> QED BY <1>1, <1>2, PTL DEF SpecParts, Cal!Spec

LEMMA PartOfReconstruction == SpecParts => Rec!Spec
<1>1. InitParts => Rec!Init
  BY DEF InitParts
<1>2. [NextParts]_<<part, vars, calibration, reconstruction, novel>> => [Rec!Next]_(Rec!vars)
  BY DEF NextParts, Of, Rest, reconstruction, Rec!vars
<1> QED BY <1>1, <1>2, PTL DEF SpecParts, Rec!Spec

LEMMA PartOfNovel == SpecParts => Nov!Spec
<1>1. InitParts => Nov!Init
  BY DEF InitParts
<1>2. [NextParts]_<<part, vars, calibration, reconstruction, novel>> => [Nov!Next]_(Nov!vars)
  BY DEF NextParts, Of, Rest, novel, Nov!vars
<1> QED BY <1>1, <1>2, PTL DEF SpecParts, Nov!Spec

(* Qualifications are earned, and an expert has one that counts in a domain, where
   submissions are handled one at a time.                                          *)
THEOREM QualificationsAlwaysHold ==
  ASSUME ScoringInFlight = 1 PROVE SpecParts => []QualificationsHold
<1>1. Cal!ConstantsAssumption
  BY ExpertsAssumption DEF ExpertsAssumption
<1>2. CalInv => Cal!TypeOK /\ Cal!QualificationsAreEarned
  BY DEF CalInv
<1>3. Cal!Spec => []CalInv
  BY <1>1, CalInit, CalStep, PTL DEF Cal!Spec
<1>4. Cal!Spec => [](Cal!AnsweredMeansScored /\ Cal!OneActiveRow)
  BY <1>1, CalibrationOneAtATime, PTL
<1>5. Cal!TypeOK /\ Cal!QualificationsAreEarned /\ Cal!AnsweredMeansScored /\ Cal!OneActiveRow
        => QualificationsHold
  BY DEF QualificationsHold
<1> QED BY <1>2, <1>3, <1>4, <1>5, PartOfCalibration, PTL

(* Nothing is settled by one person, where decisions on novel concerns are handled one at
   a time; reconstructions need no such condition.                                       *)
THEOREM AlwaysSettledByExperts ==
  ASSUME DecisionsInFlight = 1 PROVE SpecParts => []SettledByExperts
<1>1. Nov!ConstantsAssumption
  BY ExpertsAssumption DEF ExpertsAssumption
<1>2. NovInv => /\ Nov!TypeOK /\ Nov!SettledOnce /\ Nov!SettledByIndependentExperts /\ Nov!AgreesWithRegistry
                /\ Nov!StateIsOutcome /\ Nov!SuccessorsTraceable /\ Nov!AuditPasses
  BY <1>1, NovMeans
<1>3. RecInv => Rec!TypeOK /\ Rec!DeterminationsRestOnTwoExperts
  BY DEF RecInv
<1>4. NovInv /\ RecInv /\ Rec!WorkMatchesTask => SettledByExperts
  BY <1>2, <1>3 DEF SettledByExperts
<1>5. Nov!Spec => []NovInv
  BY <1>1, NovAlways, NovelOneAtATime, PTL
<1> QED BY <1>4, <1>5, Reconstructed, ReconstructionsAreWork, PartOfReconstruction, PartOfNovel, PTL

(* Calibration keeps the standing that claims assume, where submissions are handled one at
   a time, and the reconstructions of an intake are the work of an independent panel.     *)
THEOREM PromisesAreKept ==
  ASSUME ScoringInFlight = 1 PROVE SpecParts => KeepsItsPromises
<1>1. Cal!ConstantsAssumption
  BY ExpertsAssumption DEF ExpertsAssumption
<1>2. Cal!Spec => Cal!RefinesStanding
  BY <1>1, CalibrationOneAtATime, PTL
<1> QED BY <1>2, ReconstructionIsReview, PartOfCalibration, PartOfReconstruction, PTL DEF KeepsItsPromises

(* One review in flight. *)
OneReview == reviews = {} \/ \E r : reviews = {r}

LEMMA OneReviewStep ==
  ASSUME ReviewsInFlight = 1, OneReview, [Rec!Next]_(Rec!vars) PROVE OneReview'
<1>1. ASSUME NEW i, NEW v, Rec!ReadReview(i, v) PROVE OneReview'
  <2>1. Cardinality(reviews) < 1
    BY <1>1, SameCount DEF Rec!ReadReview
  <2>2. \A f : Cardinality({f}) = 1
    BY FS_Singleton
  <2>3. reviews = {}
    BY <2>1, <2>2 DEF OneReview
  <2> QED BY <1>1, <2>3 DEF Rec!ReadReview, OneReview
<1>2. ASSUME reviews' \subseteq reviews PROVE OneReview'
  BY <1>2 DEF OneReview
<1>3. (\E i, v : Rec!ReadReview(i, v)) \/ reviews' \subseteq reviews
  BY Zenon
     DEF Rec!Next, Rec!IntakeRequests, Rec!Claims, Rec!Submits, Rec!Determines, Rec!SeedClaimTasks,
         Rec!ClaimClaimTask, Rec!SubmitClaimReconstruction, Rec!DetermineClaim, Rec!StandingChanges,
         Rec!CreateIntake, Rec!CommitReview, Rec!AbortReview, Rec!vars
<1> QED BY <1>1, <1>2, <1>3

(* What is final stays so, where reviews of intakes and updates of payments are handled one
   at a time: a rejected intake stays rejected, a payment or a cancellation what it is.     *)
THEOREM FinalAlwaysFinal ==
  ASSUME ReviewsInFlight = 1, Updates = 1 PROVE SpecParts => FinalStaysFinal
<1>1. Rec!Init => OneReview
  BY DEF Rec!Init, OneReview
<1>2. OneReview => OneReviewPerIntake
  BY DEF OneReview, OneReviewPerIntake
<1>3. OneReview /\ [Rec!Next]_(Rec!vars) => OneReview'
  BY OneReviewStep
<1>4. Rec!Spec => []OneReviewPerIntake
  BY <1>1, <1>2, <1>3, PTL DEF Rec!Spec
<1> QED BY <1>4, RejectionsAreFinal, FinalOneAtATime, PartOfLedger, PartOfReconstruction, PTL
        DEF FinalStaysFinal
=============================================================================
