--------------------------- MODULE Determination ---------------------------
(***************************************************************************)
(* The concern-determination policy of opencritique_registry/determination.*)
(* Two primary adjudications of a concern are reconciled; when they are    *)
(* contested a third, tie-break, adjudication controls.  The policy is a   *)
(* pure function of the adjudications in the order they were stored.       *)
(***************************************************************************)
EXTENDS Integers, Sequences

Primary   == "primary"
Secondary == "secondary"
TieBreak  == "tie_break"
PrimarySlots == {Primary, Secondary}
Slots        == {Primary, Secondary, TieBreak}

Validities == {"confirmed", "qualified", "rejected", "unresolved"}

(* SEVERITY_ORDER: informational 0, minor 1, moderate 2, major 3, critical 4. *)
Severities == 0 .. 4
Critical   == 4
NoSeverity == -1

UnderReview == "under_review"

(* What the policy reads of one adjudication. *)
Decision == [slot : Slots, validity : Validities, severity : Severities]

(* PolicyResult without its wording. *)
PolicyResult == [status    : Validities \cup {UnderReview},
                 severity  : Severities \cup {NoSeverity},
                 tieBreak  : BOOLEAN]

-----------------------------------------------------------------------------
(* Reconciling the two primaries, dimension by dimension *)

ValidityFromTwo(left, right) ==
    IF left = right
      THEN [status |-> left, tie |-> FALSE]
      ELSE IF {left, right} = {"confirmed", "qualified"}
        THEN [status |-> "qualified", tie |-> FALSE]
        ELSE [status |-> UnderReview, tie |-> TRUE]

(* Variant: the first reviewer wins. *)
FirstOf(left, right)  == left
Gap(left, right)   == IF left < right THEN right - left ELSE left - right
Lower(left, right) == IF left < right THEN left ELSE right

SeverityFromTwo(left, right) ==
    IF left = right
      THEN [severity |-> left, tie |-> FALSE]
      ELSE IF Critical \in {left, right} \/ Gap(left, right) > 1
        THEN [severity |-> NoSeverity, tie |-> TRUE]
        ELSE [severity |-> Lower(left, right), tie |-> FALSE]

-----------------------------------------------------------------------------
(* The whole policy over the stored adjudications of one concern *)

PrimaryRows(rows) == {i \in DOMAIN rows : rows[i].slot \in PrimarySlots}
TieRows(rows)     == {i \in DOMAIN rows : rows[i].slot = TieBreak}

(* primaries[0] and primaries[1]: the two oldest primary rows, in order. *)
IsFirst(S, i)     == i \in S /\ \A j \in S : i <= j
IsSecond(S, i, j) == IsFirst(S, i) /\ IsFirst(S \ {i}, j)
IsLast(S, i)      == i \in S /\ \A j \in S : j <= i

TwoPrimaries(rows) == \E i, j \in PrimaryRows(rows) : i # j

Waiting == [status |-> UnderReview, severity |-> NoSeverity, tieBreak |-> FALSE]

Reconcile(left, right, rows) ==
    LET v == ValidityFromTwo(left.validity, right.validity)
        s == SeverityFromTwo(left.severity, right.severity)
    IN  IF ~(v.tie \/ s.tie)
          THEN [status |-> v.status, severity |-> s.severity, tieBreak |-> FALSE]
          ELSE IF TieRows(rows) = {}
            THEN [status   |-> UnderReview,
                  severity |-> IF s.tie THEN NoSeverity ELSE s.severity,
                  tieBreak |-> TRUE]
            ELSE LET last == CHOOSE i \in TieRows(rows) : IsLast(TieRows(rows), i)
                 IN  [status   |-> rows[last].validity,
                      severity |-> rows[last].severity,
                      tieBreak |-> FALSE]

(* A variant that is content with one primary. *)
DetermineFromOne(rows) ==
    IF PrimaryRows(rows) = {}
      THEN Waiting
      ELSE LET first  == CHOOSE i \in PrimaryRows(rows) : IsFirst(PrimaryRows(rows), i)
               others == PrimaryRows(rows) \ {first}
               second == IF others = {} THEN first
                         ELSE CHOOSE j \in others : IsFirst(others, j)
           IN  Reconcile(rows[first], rows[second], rows)

Determine(rows) ==
    IF ~TwoPrimaries(rows)
      THEN Waiting
      ELSE LET first  == CHOOSE i \in PrimaryRows(rows) : IsFirst(PrimaryRows(rows), i)
               second == CHOOSE j \in PrimaryRows(rows) : IsSecond(PrimaryRows(rows), first, j)
           IN  Reconcile(rows[first], rows[second], rows)
=============================================================================
