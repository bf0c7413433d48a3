------------------------------ MODULE Standing ------------------------------
(***************************************************************************)
(* What a claim for work assumes of an expert's qualification in a domain, *)
(* with nothing of how it is earned: it is granted to somebody who has     *)
(* none, it lapses by the passing of time, and a lapsed one is in the way  *)
(* of a new one until a claim has noticed it.  Adjudication keeps exactly  *)
(* this of the expert programme, Calibration shows how it comes about.     *)
(***************************************************************************)
CONSTANTS Experts, Domains

VARIABLE standing

Init == standing = [q \in Experts \X Domains |-> "none"]

Earn(q) == /\ standing[q] = "none"
           /\ standing' = [standing EXCEPT ![q] = "active"]

Lapse(q) == /\ standing[q] = "active"
            /\ standing' = [standing EXCEPT ![q] = "lapsed"]

(* One claim notices all the lapsed rows of one expert it comes across. *)
Notice(e, D) ==
    standing' = [q \in Experts \X Domains |->
        IF q[1] = e /\ q[2] \in D /\ standing[q] = "lapsed" THEN "none" ELSE standing[q]]

Next == \/ \E q \in Experts \X Domains : Earn(q) \/ Lapse(q)
        \/ \E e \in Experts, D \in SUBSET Domains : Notice(e, D)

Spec == Init /\ [][Next]_standing
=============================================================================
