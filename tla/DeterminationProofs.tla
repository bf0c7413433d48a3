------------------------ MODULE DeterminationProofs ------------------------
(***************************************************************************)
(* What the determination policy guarantees for every list of adjudications*)
(* with at most one row per slot, which is what the unique task slot makes *)
(* of every list the registry feeds it: what it returns, that the order of *)
(* the list does not matter, and that it comes to an end.                  *)
(***************************************************************************)
EXTENDS Determination, TLAPS

OneRowPerSlot(rows) ==
    \A i, j \in DOMAIN rows : rows[i].slot = rows[j].slot => i = j

(* What determine() reads of each row. *)
WellFormed(rows) ==
    /\ DOMAIN rows \subseteq Nat
    /\ \A i \in DOMAIN rows : /\ rows[i].slot \in Slots
                              /\ rows[i].validity \in Validities
                              /\ rows[i].severity \in Severities

FirstPrimary(rows)  == CHOOSE i \in PrimaryRows(rows) : IsFirst(PrimaryRows(rows), i)
SecondPrimary(rows) ==
    CHOOSE j \in PrimaryRows(rows) : IsSecond(PrimaryRows(rows), FirstPrimary(rows), j)

(* primaries[0] and primaries[1] are two different rows of the list. *)
LEMMA PrimariesChosen ==
  ASSUME NEW rows, WellFormed(rows), OneRowPerSlot(rows), TwoPrimaries(rows)
  PROVE  /\ FirstPrimary(rows) \in PrimaryRows(rows)
         /\ SecondPrimary(rows) \in PrimaryRows(rows)
         /\ FirstPrimary(rows) # SecondPrimary(rows)
<1> DEFINE P == PrimaryRows(rows)
<1>1. PICK i \in P, j \in P : i # j
  BY DEF TwoPrimaries
<1>2. P \subseteq Nat /\ P \subseteq DOMAIN rows
  BY DEF WellFormed, PrimaryRows
<1>3. \A m \in P : m = i \/ m = j
  BY <1>1, <1>2 DEF PrimaryRows, OneRowPerSlot, PrimarySlots, Primary, Secondary
<1>4. \E m \in P : IsFirst(P, m)
  <2>1. CASE i < j
    BY <2>1, <1>1, <1>2, <1>3 DEF IsFirst
  <2>2. CASE j < i
    BY <2>2, <1>1, <1>2, <1>3 DEF IsFirst
  <2> QED BY <2>1, <2>2, <1>1, <1>2
<1>5. IsFirst(P, FirstPrimary(rows)) /\ FirstPrimary(rows) \in P
  BY <1>4 DEF FirstPrimary
<1>6. \E m \in P : IsSecond(P, FirstPrimary(rows), m)
  <2>1. CASE FirstPrimary(rows) = i
    <3>1. IsFirst(P \ {i}, j)
      BY <1>1, <1>2, <1>3 DEF IsFirst
    <3> QED BY <3>1, <2>1, <1>1, <1>5 DEF IsSecond
  <2>2. CASE FirstPrimary(rows) = j
    <3>1. IsFirst(P \ {j}, i)
      BY <1>1, <1>2, <1>3 DEF IsFirst
    <3> QED BY <3>1, <2>2, <1>1, <1>5 DEF IsSecond
  <2> QED BY <2>1, <2>2, <1>3, <1>5
<1>7. IsSecond(P, FirstPrimary(rows), SecondPrimary(rows)) /\ SecondPrimary(rows) \in P
  BY <1>6 DEF SecondPrimary
<1> QED BY <1>5, <1>7 DEF IsSecond, IsFirst

(* The last tie-break row is a row of the list, when there is one. *)
LEMMA TieChosen ==
  ASSUME NEW rows, WellFormed(rows), OneRowPerSlot(rows), TieRows(rows) # {}
  PROVE  (CHOOSE i \in TieRows(rows) : IsLast(TieRows(rows), i)) \in TieRows(rows)
<1>1. PICK i \in TieRows(rows) : TRUE
  OBVIOUS
<1>2. \A m \in TieRows(rows) : m = i /\ m \in Nat
  BY DEF TieRows, OneRowPerSlot, WellFormed
<1>3. IsLast(TieRows(rows), i)
  BY <1>1, <1>2 DEF IsLast
<1> QED BY <1>1, <1>3

(* Reconciling two primaries one dimension at a time stays within the types. *)
LEMMA DimensionTypes ==
  /\ \A l, r \in Validities :
       /\ ValidityFromTwo(l, r).status \in Validities \cup {UnderReview}
       /\ ValidityFromTwo(l, r).tie \in BOOLEAN
       /\ ~ValidityFromTwo(l, r).tie => ValidityFromTwo(l, r).status \in Validities
  /\ \A l, r \in Severities :
       /\ SeverityFromTwo(l, r).severity \in Severities \cup {NoSeverity}
       /\ SeverityFromTwo(l, r).tie \in BOOLEAN
       /\ ~SeverityFromTwo(l, r).tie => SeverityFromTwo(l, r).severity \in Severities
BY DEF ValidityFromTwo, SeverityFromTwo, Validities, Severities, UnderReview,
       NoSeverity, Lower, Gap, Critical

(* determine() always returns a PolicyResult; a result that asks for a tie-break
   or decides the concern rests on two primaries, and a tie-break is asked for
   only while none is there.                                                  *)
THEOREM DetermineResult ==
  ASSUME NEW rows, WellFormed(rows), OneRowPerSlot(rows)
  PROVE  /\ Determine(rows) \in PolicyResult
         /\ Determine(rows).tieBreak => TwoPrimaries(rows) /\ TieRows(rows) = {}
         /\ Determine(rows).tieBreak => Determine(rows).status = UnderReview
         /\ Determine(rows).status # UnderReview => TwoPrimaries(rows)
<1>1. CASE ~TwoPrimaries(rows)
  BY <1>1 DEF Determine, Waiting, PolicyResult, UnderReview, NoSeverity
<1>2. CASE TwoPrimaries(rows)
  <2> DEFINE l == rows[FirstPrimary(rows)]
             r == rows[SecondPrimary(rows)]
             v == ValidityFromTwo(l.validity, r.validity)
             s == SeverityFromTwo(l.severity, r.severity)
             last == CHOOSE i \in TieRows(rows) : IsLast(TieRows(rows), i)
  <2>1. Determine(rows) = Reconcile(l, r, rows)
    BY <1>2 DEF Determine, FirstPrimary, SecondPrimary
  <2>2. /\ l.validity \in Validities /\ r.validity \in Validities
        /\ l.severity \in Severities /\ r.severity \in Severities
    BY <1>2, PrimariesChosen DEF PrimaryRows, WellFormed
  <2>3. /\ v.status \in Validities \cup {UnderReview} /\ v.tie \in BOOLEAN
        /\ ~v.tie => v.status \in Validities
        /\ s.severity \in Severities \cup {NoSeverity} /\ s.tie \in BOOLEAN
        /\ ~s.tie => s.severity \in Severities
    BY <2>2, DimensionTypes
  <2>4. TieRows(rows) # {} => /\ rows[last].validity \in Validities
                              /\ rows[last].severity \in Severities
    BY TieChosen DEF TieRows, WellFormed
  <2> HIDE DEF l, r, v, s, last
  <2>5. Reconcile(l, r, rows) =
          IF ~(v.tie \/ s.tie)
            THEN [status |-> v.status, severity |-> s.severity, tieBreak |-> FALSE]
            ELSE IF TieRows(rows) = {}
              THEN [status |-> UnderReview,
                    severity |-> IF s.tie THEN NoSeverity ELSE s.severity,
                    tieBreak |-> TRUE]
              ELSE [status |-> rows[last].validity, severity |-> rows[last].severity,
                    tieBreak |-> FALSE]
    BY DEF Reconcile, l, r, v, s, last
  <2> QED BY <1>2, <2>1, <2>3, <2>4, <2>5 DEF PolicyResult
<1> QED BY <1>1, <1>2

-----------------------------------------------------------------------------
(* The order of the adjudications, and what two primaries can conclude. *)

(* The same adjudications, whatever the order. *)
SameRows(x, y) ==
    /\ \A i \in DOMAIN x : \E j \in DOMAIN y : y[j] = x[i]
    /\ \A j \in DOMAIN y : \E i \in DOMAIN x : x[i] = y[j]

(* Neither of the two primaries comes first. *)
LEMMA ReconcileEither ==
  ASSUME NEW l, NEW r, NEW rows, l.severity \in Severities, r.severity \in Severities
  PROVE  Reconcile(l, r, rows) = Reconcile(r, l, rows)
<1>1. ValidityFromTwo(l.validity, r.validity) = ValidityFromTwo(r.validity, l.validity)
  <2>1. {l.validity, r.validity} = {r.validity, l.validity}
    OBVIOUS
  <2> QED BY <2>1 DEF ValidityFromTwo
<1>2. SeverityFromTwo(l.severity, r.severity) = SeverityFromTwo(r.severity, l.severity)
  <2>1. l.severity \in Int /\ r.severity \in Int
    BY DEF Severities
  <2>2. /\ Gap(l.severity, r.severity) = Gap(r.severity, l.severity)
        /\ Lower(l.severity, r.severity) = Lower(r.severity, l.severity)
    BY <2>1 DEF Gap, Lower
  <2>3. Critical \in {l.severity, r.severity} <=> Critical \in {r.severity, l.severity}
    OBVIOUS
  <2> QED BY <2>2, <2>3 DEF SeverityFromTwo
<1> QED BY <1>1, <1>2 DEF Reconcile

(* The tie-break that controls is the same one. *)
LEMMA SameTie ==
  ASSUME NEW x, WellFormed(x), OneRowPerSlot(x), NEW y, WellFormed(y), OneRowPerSlot(y), SameRows(x, y),
         NEW l, NEW r
  PROVE  Reconcile(l, r, x) = Reconcile(l, r, y)
<1> DEFINE lastX == CHOOSE i \in TieRows(x) : IsLast(TieRows(x), i)
           lastY == CHOOSE i \in TieRows(y) : IsLast(TieRows(y), i)
<1>1. TieRows(x) = {} <=> TieRows(y) = {}
  BY DEF TieRows, SameRows
<1>2. ASSUME TieRows(x) # {}
      PROVE  x[lastX] = y[lastY]
  <2>1. lastX \in TieRows(x) /\ lastY \in TieRows(y)
    BY <1>1, <1>2, TieChosen
  <2> HIDE DEF lastX, lastY
  <2>2. PICK j \in DOMAIN y : y[j] = x[lastX]
    BY <2>1 DEF TieRows, SameRows
  <2>3. j = lastY
    BY <2>1, <2>2 DEF TieRows, OneRowPerSlot
  <2> QED BY <2>2, <2>3
<1> QED BY <1>1, <1>2 DEF Reconcile

(* determine() depends on what was submitted and not on when: the same     *)
(* adjudications in any other order, even numbered with gaps, have the     *)
(* same result.  This is why the order of created_at need not be modelled  *)
(* where requests race (AdjudicationTx).                                   *)
THEOREM OrderDoesNotMatter ==
  ASSUME NEW x, WellFormed(x), OneRowPerSlot(x), NEW y, WellFormed(y), OneRowPerSlot(y), SameRows(x, y)
  PROVE  Determine(x) = Determine(y)
<1>1. ASSUME NEW u, NEW w, OneRowPerSlot(u), SameRows(u, w), TwoPrimaries(u)
      PROVE  TwoPrimaries(w)
  <2>1. PICK i \in PrimaryRows(u), j \in PrimaryRows(u) : i # j
    BY <1>1 DEF TwoPrimaries
  <2>2. PICK k \in DOMAIN w, m \in DOMAIN w : w[k] = u[i] /\ w[m] = u[j]
    BY <1>1 DEF SameRows, PrimaryRows
  <2>3. u[i].slot # u[j].slot /\ k \in PrimaryRows(w) /\ m \in PrimaryRows(w)
    BY <1>1, <2>1, <2>2 DEF OneRowPerSlot, PrimaryRows
  <2> QED BY <2>2, <2>3 DEF TwoPrimaries
<1>2. TwoPrimaries(x) <=> TwoPrimaries(y)
  <2>1. SameRows(y, x)
    BY DEF SameRows
  <2> QED BY <1>1, <2>1
<1>3. CASE ~TwoPrimaries(x)
  BY <1>2, <1>3 DEF Determine
<1>4. CASE TwoPrimaries(x)
  <2> DEFINE fx == FirstPrimary(x)
             sx == SecondPrimary(x)
             fy == FirstPrimary(y)
             sy == SecondPrimary(y)
  <2>1. /\ fx \in PrimaryRows(x) /\ sx \in PrimaryRows(x) /\ fx # sx
        /\ fy \in PrimaryRows(y) /\ sy \in PrimaryRows(y) /\ fy # sy
    BY <1>2, <1>4, PrimariesChosen
  <2>2. Determine(x) = Reconcile(x[fx], x[sx], x) /\ Determine(y) = Reconcile(y[fy], y[sy], y)
    BY <1>2, <1>4 DEF Determine, FirstPrimary, SecondPrimary
  <2> HIDE DEF fx, sx, fy, sy
  <2>3. PICK i \in DOMAIN x, j \in DOMAIN x : x[i] = y[fy] /\ x[j] = y[sy]
    BY <2>1 DEF SameRows, PrimaryRows
  <2>4. i \in PrimaryRows(x) /\ j \in PrimaryRows(x) /\ i # j
    BY <2>1, <2>3 DEF PrimaryRows, OneRowPerSlot
  <2>5. \A k \in PrimaryRows(x) : k = fx \/ k = sx
    BY <2>1 DEF PrimaryRows, OneRowPerSlot, PrimarySlots
  <2>6. \/ y[fy] = x[fx] /\ y[sy] = x[sx]
        \/ y[fy] = x[sx] /\ y[sy] = x[fx]
    BY <2>3, <2>4, <2>5
  <2>7. x[fx].severity \in Severities /\ x[sx].severity \in Severities
    BY <2>1 DEF PrimaryRows, WellFormed
  <2>8. Reconcile(y[fy], y[sy], y) = Reconcile(x[fx], x[sx], y)
    BY <2>6, <2>7, ReconcileEither
  <2>9. Reconcile(x[fx], x[sx], x) = Reconcile(x[fx], x[sx], y)
    BY SameTie
  <2> QED BY <2>2, <2>8, <2>9
<1> QED BY <1>3, <1>4

(* The two primaries, and what is made of them. *)
LEMMA PrimariesReconciled ==
  ASSUME NEW rows, WellFormed(rows), OneRowPerSlot(rows), TwoPrimaries(rows)
  PROVE  \E i, j \in PrimaryRows(rows) :
           /\ Determine(rows) = Reconcile(rows[i], rows[j], rows)
           /\ rows[i].validity \in Validities /\ rows[j].validity \in Validities
           /\ rows[i].severity \in Severities /\ rows[j].severity \in Severities
           /\ \A k \in PrimaryRows(rows) : k = i \/ k = j
<1> DEFINE i == FirstPrimary(rows)
           j == SecondPrimary(rows)
<1>1. i \in PrimaryRows(rows) /\ j \in PrimaryRows(rows) /\ i # j
  BY PrimariesChosen
<1>2. Determine(rows) = Reconcile(rows[i], rows[j], rows)
  BY DEF Determine, FirstPrimary, SecondPrimary
<1> HIDE DEF i, j
<1>3. \A k \in PrimaryRows(rows) : k = i \/ k = j
  BY <1>1 DEF PrimaryRows, OneRowPerSlot, PrimarySlots
<1> QED BY <1>1, <1>2, <1>3 DEF PrimaryRows, WellFormed

(* Two primaries that conclude without a third reviewer are resolved       *)
(* downwards: the concern is rated as each of them or one level lower, and *)
(* is no firmer than either; and two cannot lower a critical rating, which *)
(* they leave only if both gave it (_validity_from_two,                    *)
(* _severity_from_two).                                                    *)
THEOREM TwoConcludeConservatively ==
  ASSUME NEW rows, WellFormed(rows), OneRowPerSlot(rows),
         Determine(rows).status # UnderReview, TieRows(rows) = {},
         NEW k \in PrimaryRows(rows)
  PROVE  /\ Determine(rows).severity \in {rows[k].severity, rows[k].severity - 1}
         /\ \/ Determine(rows).status = rows[k].validity
            \/ Determine(rows).status = "qualified" /\ rows[k].validity = "confirmed"
         /\ rows[k].severity = Critical => Determine(rows).severity = Critical
<1>1. TwoPrimaries(rows)
  BY DetermineResult
<1>2. PICK i \in PrimaryRows(rows), j \in PrimaryRows(rows) :
        /\ Determine(rows) = Reconcile(rows[i], rows[j], rows)
        /\ rows[i].validity \in Validities /\ rows[j].validity \in Validities
        /\ rows[i].severity \in Severities /\ rows[j].severity \in Severities
        /\ k = i \/ k = j
  BY <1>1, PrimariesReconciled
<1> DEFINE v == ValidityFromTwo(rows[i].validity, rows[j].validity)
           s == SeverityFromTwo(rows[i].severity, rows[j].severity)
<1>3. ~v.tie /\ ~s.tie /\ Determine(rows).status = v.status /\ Determine(rows).severity = s.severity
  BY <1>2 DEF Reconcile
<1>4. \/ v.status = rows[k].validity
      \/ v.status = "qualified" /\ rows[k].validity = "confirmed"
  BY <1>2, <1>3 DEF ValidityFromTwo, UnderReview
<1>5. /\ s.severity \in {rows[k].severity, rows[k].severity - 1}
      /\ rows[k].severity = Critical => s.severity = Critical
  <2>1. rows[i].severity \in Int /\ rows[j].severity \in Int
    BY <1>2 DEF Severities
  <2> QED BY <1>2, <1>3, <2>1 DEF SeverityFromTwo, Gap, Lower
<1> HIDE DEF v, s
<1> QED BY <1>3, <1>4, <1>5

(* The policy ends: two primaries and the tie-break, when it asked for     *)
(* one, always leave a decision with a severity, and nobody is asked again *)
(* (determine).                                                            *)
THEOREM NeverAsksAgain ==
  ASSUME NEW rows, WellFormed(rows), OneRowPerSlot(rows), TwoPrimaries(rows),
         TieRows(rows) # {} \/ ~Determine(rows).tieBreak
  PROVE  /\ Determine(rows).status \in Validities
         /\ Determine(rows).severity \in Severities
         /\ ~Determine(rows).tieBreak
<1>1. PICK i \in PrimaryRows(rows), j \in PrimaryRows(rows) :
        /\ Determine(rows) = Reconcile(rows[i], rows[j], rows)
        /\ rows[i].validity \in Validities /\ rows[j].validity \in Validities
        /\ rows[i].severity \in Severities /\ rows[j].severity \in Severities
  BY PrimariesReconciled
<1> DEFINE v == ValidityFromTwo(rows[i].validity, rows[j].validity)
           s == SeverityFromTwo(rows[i].severity, rows[j].severity)
           last == CHOOSE m \in TieRows(rows) : IsLast(TieRows(rows), m)
<1>2. /\ v.tie \in BOOLEAN /\ s.tie \in BOOLEAN
      /\ ~v.tie => v.status \in Validities
      /\ ~s.tie => s.severity \in Severities
  BY <1>1, DimensionTypes
<1>3. TieRows(rows) # {} => rows[last].validity \in Validities /\ rows[last].severity \in Severities
  BY TieChosen DEF TieRows, WellFormed
<1> HIDE DEF v, s, last
<1>4. Determine(rows) =
        IF ~(v.tie \/ s.tie)
          THEN [status |-> v.status, severity |-> s.severity, tieBreak |-> FALSE]
          ELSE IF TieRows(rows) = {}
            THEN [status |-> UnderReview,
                  severity |-> IF s.tie THEN NoSeverity ELSE s.severity,
                  tieBreak |-> TRUE]
            ELSE [status |-> rows[last].validity, severity |-> rows[last].severity,
                  tieBreak |-> FALSE]
  BY <1>1 DEF Reconcile, v, s, last
<1> QED BY <1>2, <1>3, <1>4
=============================================================================
