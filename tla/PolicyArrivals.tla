--------------------------- MODULE PolicyArrivals ---------------------------
(***************************************************************************)
(* Every history of adjudications that one concern can accumulate, fed to  *)
(* the policy of Determination: the two primaries in either order, then a  *)
(* tie-break only after the policy has asked for one.                      *)
(***************************************************************************)
EXTENDS Determination

VARIABLE rows      \* adjudication_submissions of one concern, by created_at

Init == rows = <<>>

Filled(slot) == \E i \in DOMAIN rows : rows[i].slot = slot

Arrive(slot, v, s) ==
    /\ ~Filled(slot)
    /\ slot = TieBreak => Determine(rows).tieBreak
    /\ rows' = Append(rows, [slot |-> slot, validity |-> v, severity |-> s])

Next == \E slot \in Slots, v \in Validities, s \in Severities : Arrive(slot, v, s)

Spec == Init /\ [][Next]_rows

-----------------------------------------------------------------------------
Outcome    == Determine(rows)
Decided(r) == r.status # UnderReview /\ ~r.tieBreak

Permuted(p) == [i \in DOMAIN rows |-> rows[p[i]]]
Orders      == {p \in [DOMAIN rows -> DOMAIN rows] :
                    \A i, j \in DOMAIN rows : p[i] = p[j] => i = j}

(* The order in which reviewers happened to submit (created_at, the order in
   which determine() meets the rows) never changes what is concluded.         *)
OrderIrrelevant == \A p \in Orders : Determine(Permuted(p)) = Outcome

(* A conclusion reached without a third reviewer never rates the concern above
   either primary, nor more than one level below either of them, and is not
   firmer on validity than the weaker of the two (_validity_from_two and
   _severity_from_two "resolve conservatively").                              *)
Firmness(v) == CASE v = "confirmed" -> 2 [] v = "qualified" -> 1 [] OTHER -> 0
Conservative ==
    Decided(Outcome) /\ ~Filled(TieBreak) =>
        \A i \in PrimaryRows(rows) :
            /\ Outcome.severity \in {rows[i].severity, rows[i].severity - 1}
            /\ Firmness(Outcome.status) <= Firmness(rows[i].validity)

(* Once one primary calls a concern critical, it is concluded only if the other
   agrees or a third reviewer has spoken: one primary can neither impose nor
   water down a critical classification.                                      *)
CriticalNeedsAgreement ==
    \A i \in PrimaryRows(rows) :
        rows[i].severity = Critical /\ Decided(Outcome) =>
            \/ Filled(TieBreak)
            \/ \A j \in PrimaryRows(rows) : rows[j].severity = Critical

(* The policy ends: two primaries, and the tie-break when it asked for one, always
   leave a decision that has a severity and asks for nobody else.             *)
NeverAsksTwice ==
    Filled(TieBreak) \/ (TwoPrimaries(rows) /\ ~Outcome.tieBreak) =>
        Decided(Outcome) /\ Outcome.severity \in Severities

(* The rows are well formed and the policy's result is a PolicyResult. *)
TypeOK == /\ rows \in Seq(Decision)
          /\ Outcome \in PolicyResult
          /\ Len(rows) <= 3
=============================================================================
