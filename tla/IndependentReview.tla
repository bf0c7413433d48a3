------------------------- MODULE IndependentReview -------------------------
(***************************************************************************)
(* What the registry promises of a review panel, with nothing of how it    *)
(* keeps the promise (rights grants, qualification, queue order, decisions)*)
(*                                                                         *)
(* A seat is a task slot of one concern.  A reviewer is never given a seat *)
(* of a concern on which they hold or have reported another; the tie-break *)
(* seat opens only when both primary seats have reported; a report is      *)
(* final; an unfinished seat can only be reported or withdrawn.            *)
(***************************************************************************)
EXTENDS Determination

CONSTANTS Cases, Concerns, Reviewers, Nobody

Seats == [case : Cases, concern : Concerns, slot : Slots]

VARIABLES phase,    \* how far each seat has come
          holder    \* who sits, or last sat, in it

vars == <<phase, holder>>

Init == /\ phase  = [t \in Seats |-> "absent"]
        /\ holder = [t \in Seats |-> Nobody]

Taken(t)   == phase[t] \in {"claimed", "completed"}
Panel(t)   == {u \in Seats : u.concern = t.concern}
Primaries(t) == {u \in Panel(t) : u.case = t.case /\ u.slot \in PrimarySlots}

(* Seats S come into being; a tie-break among them needs its two reports,
   where `done' are the seats that have reported by the end of the step.  *)
Opened(S, done) ==
    \A t \in S : /\ phase[t] = "absent"
                 /\ t.slot = TieBreak =>
                      \A u \in Primaries(t) : u \in done

Reported == {t \in Seats : phase[t] = "completed"}

Open(S) ==
    /\ Opened(S, Reported)
    /\ phase' = [t \in Seats |-> IF t \in S THEN "pending" ELSE phase[t]]
    /\ UNCHANGED holder

Assign(t, r) ==
    /\ phase[t] = "pending"
    /\ \A u \in Panel(t) \ {t} : ~(Taken(u) /\ holder[u] = r)
    /\ phase'  = [phase EXCEPT ![t] = "claimed"]
    /\ holder' = [holder EXCEPT ![t] = r]

(* A report may open the tie-break seat of its concern in the same step. *)
Report(t, S) ==
    /\ phase[t] = "claimed"
    /\ t \notin S
    /\ Opened(S, Reported \cup {t})
    /\ phase' = [u \in Seats |-> IF u = t THEN "completed"
                                 ELSE IF u \in S THEN "pending"
                                 ELSE phase[u]]
    /\ UNCHANGED holder

Withdraw(S) ==
    /\ \A t \in S : phase[t] \in {"pending", "claimed"}
    /\ phase' = [t \in Seats |-> IF t \in S THEN "cancelled" ELSE phase[t]]
    /\ UNCHANGED holder

Next == \/ \E S \in SUBSET Seats : Open(S) \/ Withdraw(S)
        \/ \E t \in Seats, r \in Reviewers : Assign(t, r)
        \/ \E t \in Seats, S \in SUBSET Seats : Report(t, S)

Spec == Init /\ [][Next]_vars
=============================================================================
