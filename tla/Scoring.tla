-------------------------------- MODULE Scoring --------------------------------
(***************************************************************************)
(* Evaluating a frozen submission against a frozen benchmark: which        *)
(* references count (reference_policy.py), which submitted concern is      *)
(* matched with which reference (matching.py), the counts and rates        *)
(* (engine.py), the spread over matcher settings (sensitivity.py) and the  *)
(* candidates left for novelty review (novel.py).                          *)
(*                                                                         *)
(* Case by case, as evaluate() loops.  Texts are abstracted to how alike a *)
(* submitted concern and a reference are, anchors to what they hit, and    *)
(* weights are doubled to stay integers.  A rate is its numerator and      *)
(* denominator.                                                            *)
(***************************************************************************)
EXTENDS Integers, Sequences, FiniteSets, SequencesExt

CONSTANTS
    Manifests,      \* benchmarks: [completeness, cases], a case a sequence of references
    Answers,        \* what a submission may hold for the first case
    LaterAnswers,   \* bound: and for the other cases
    Threshold, LowThreshold,
    AnchorWeight, TextWeight

Levels == <<"exact", "normalized", "object_label", "page_only">>

NonGold     == {"proposed", "under_review", "unresolved", "rejected", "superseded"}
GoldStatus  == {"confirmed", "qualified"}
Severities  == {"critical", "major", "moderate", "minor", "informational"}
CompleteForPrecision == {"complete_seeded", "adjudicated_output_complete"}

(* Twice the weight of the code. *)
Weight(severity) ==
    CASE severity = "critical" -> 8 [] severity = "major" -> 6 [] severity = "moderate" -> 4
      [] severity = "minor" -> 2 [] severity = "informational" -> 1

ScoringAssumption ==
    /\ \A m \in Manifests : \A i \in DOMAIN m.cases : \A j \in DOMAIN m.cases[i] :
         LET r == m.cases[i][j]
         IN  r.status \in NonGold \cup GoldStatus \cup {"resolved"} /\ r.severity \in Severities
    /\ Threshold \in Nat /\ LowThreshold \in Nat /\ LowThreshold <= Threshold
    /\ AnchorWeight \in Nat /\ TextWeight \in Nat

VARIABLES
    manifest, submission,   \* what is evaluated; the submission one answer per case, or absent
    evaluations,            \* the case evaluations so far
    totals                  \* the counters of evaluate()

vars == <<manifest, submission, evaluations, totals>>

NoTotals == [completed |-> 0, abstained |-> 0, failed |-> 0, submitted |-> 0, eligible |-> 0,
             matched |-> 0, unmatched |-> 0, missed |-> 0, falseCritical |-> 0, scored |-> 0,
             pnum |-> 0, pden |-> 0, rnum |-> 0, rden |-> 0, anchorsResolved |-> 0, anchorsTotal |-> 0]

Absent == [kind |-> "absent", concerns |-> << >>]

-----------------------------------------------------------------------------
(* Which references count. *)

Eligible(r) ==
    \/ r.status \in GoldStatus
    \/ r.status = "resolved" /\ r.disposition = "manuscript_correction"

EligibleReferences(refs) == SelectSeq(refs, Eligible)

-----------------------------------------------------------------------------
(* Anchors: a submitted anchor is the sets of reference anchors it hits on *)
(* each level; the first level with a hit decides.                         *)

ResolveAnchor(hits, among) ==
    LET Hit(l) == hits[l] \cap among
        first  == {l \in ToSet(Levels) : Hit(l) # {}
                     /\ \A i, j \in DOMAIN Levels : (Levels[j] = l /\ i < j) => Hit(Levels[i]) = {}}
    IN  IF first = {} THEN [status |-> "unresolved", anchors |-> {}]
        ELSE LET l == CHOOSE l \in first : TRUE
             IN  [status |-> IF Cardinality(Hit(l)) = 1 THEN l ELSE "ambiguous", anchors |-> Hit(l)]

AnchorsOf(refs) == UNION {refs[i].anchors : i \in DOMAIN refs}

(* Eligible references' anchors, or any of the case when they have none. *)
ResolveSubmitted(concern, refs, all) ==
    LET among == IF AnchorsOf(refs) = {} THEN AnchorsOf(all) ELSE AnchorsOf(refs)
    IN  [i \in DOMAIN concern.anchors |-> ResolveAnchor(concern.anchors[i], among)]

(* The last concern with an id overwrites the resolutions of earlier ones. *)
ResolvedIds(concerns, id, refs, all) ==
    LET last == CHOOSE i \in DOMAIN concerns : concerns[i].id = id
                  /\ \A j \in DOMAIN concerns : j > i => concerns[j].id # id
        res  == ResolveSubmitted(concerns[last], refs, all)
    IN  UNION {res[i].anchors : i \in DOMAIN res}

-----------------------------------------------------------------------------
(* Matching. *)

AnchorScore(resolved, anchors) ==
    IF resolved \cap anchors = {} THEN 0 ELSE IF resolved = anchors THEN 2 ELSE 1

Score(concern, r, resolved) ==
    AnchorWeight * AnchorScore(resolved, r.anchors) + TextWeight * concern.likeness[r.id]

Candidates(concerns, refs, all, threshold) ==
    {c \in {[sub |-> i, ref |-> j, id |-> concerns[i].id, reference |-> refs[j].id,
             score |-> Score(concerns[i], refs[j], ResolvedIds(concerns, concerns[i].id, refs, all))] :
            i \in DOMAIN concerns, j \in DOMAIN refs} : c.score >= threshold}

Earlier(c, d) == c.sub < d.sub \/ (c.sub = d.sub /\ c.ref < d.ref)

(* Variant: the sort is forgotten. *)
PrecedesInOrder(c, d) == Earlier(c, d)

(* The stable sort by score, best first. *)
Precedes(c, d) == c.score > d.score \/ (c.score = d.score /\ Earlier(c, d))

Fits(c, selected) ==
    /\ c.id \notin {s.id : s \in selected}
    /\ c.reference \notin {s.reference : s \in selected}

GreedyMatch(concerns, refs, all, threshold) ==
    LET sorted == SetToSortSeq(Candidates(concerns, refs, all, threshold), Precedes)
        Take(selected, c) == IF Fits(c, selected) THEN selected \cup {c} ELSE selected
    IN  FoldLeft(Take, {}, sorted)

-----------------------------------------------------------------------------
(* evaluate() *)

Init ==
    /\ manifest \in Manifests
    /\ \E first \in Answers \cup {Absent} :
       \E later \in [2 .. Len(manifest.cases) -> LaterAnswers \cup {Absent}] :
         submission = <<first>> \o [c \in 1 .. Len(manifest.cases) - 1 |-> later[c + 1]]
    /\ evaluations = << >>
    /\ totals = NoTotals

Current == Len(evaluations) + 1
Done    == Len(evaluations) = Len(manifest.cases)

AllRefs == manifest.cases[Current]
Refs    == EligibleReferences(AllRefs)
Answer  == submission[Current]

SumOver(seq, Value(_)) == FoldLeft(LAMBDA sum, x : sum + Value(x), 0, seq)

RecallWeight(refs) == SumOver(refs, LAMBDA r : Weight(r.severity))

Missed(refs) == [eligible |-> Len(refs), missed |-> Len(refs), rden |-> RecallWeight(refs)]

NoAnswer(counter) ==
    LET miss == Missed(Refs)
    IN  /\ totals' = [totals EXCEPT ![counter] = @ + 1, !.eligible = @ + miss.eligible,
                                    !.missed = @ + miss.missed, !.rden = @ + miss.rden]
        /\ evaluations' = Append(evaluations,
             [matches |-> {}, unmatched |-> << >>, missed |-> [i \in DOMAIN Refs |-> Refs[i].id]])
        /\ UNCHANGED <<manifest, submission>>

Abstain == ~Done /\ Answer.kind \in {"absent", "abstained"} /\ NoAnswer("abstained")

Fail == ~Done /\ Answer.kind = "failed" /\ NoAnswer("failed")

Scored(concerns) == IF manifest.completeness \in CompleteForPrecision THEN concerns ELSE << >>

Complete ==
    /\ ~Done /\ Answer.kind = "answered"
    /\ LET concerns == Answer.concerns
           matches  == GreedyMatch(concerns, Refs, AllRefs, Threshold)
           found    == {m.id : m \in matches}
           hit      == {m.reference : m \in matches}
           unmatched == SelectSeq(concerns, LAMBDA s : s.id \notin found)
           missed    == SelectSeq(Refs, LAMBDA r : r.id \notin hit)
           scored    == Scored(concerns)
           wrong     == SelectSeq(scored, LAMBDA s : s.id \notin found)
           right     == SelectSeq(scored, LAMBDA s : s.id \in found)
           WeightOf(x) == Weight(x.severity)
           Resolved(s) == LET res == ResolveSubmitted(s, Refs, AllRefs)
                          IN  Cardinality({i \in DOMAIN res : res[i].status \in ToSet(Levels)})
       IN  /\ totals' = [totals EXCEPT
                !.completed = @ + 1, !.submitted = @ + Len(concerns), !.eligible = @ + Len(Refs),
                !.matched = @ + Cardinality(matches), !.unmatched = @ + Len(unmatched),
                !.missed = @ + Len(missed), !.scored = @ + Len(scored),
                !.falseCritical = @ + Len(SelectSeq(wrong, LAMBDA s : s.severity = "critical")),
                !.pnum = @ + SumOver(right, WeightOf), !.pden = @ + SumOver(scored, WeightOf),
                !.rnum = @ + RecallWeight(Refs) - RecallWeight(missed), !.rden = @ + RecallWeight(Refs),
                !.anchorsResolved = @ + SumOver(concerns, Resolved),
                !.anchorsTotal = @ + SumOver(concerns, LAMBDA s : Len(s.anchors))]
           /\ evaluations' = Append(evaluations,
                [matches |-> matches, unmatched |-> [i \in DOMAIN unmatched |-> unmatched[i].id],
                 missed |-> [i \in DOMAIN missed |-> missed[i].id]])
    /\ UNCHANGED <<manifest, submission>>

Next == Abstain \/ Fail \/ Complete

Spec == Init /\ [][Next]_vars

-----------------------------------------------------------------------------
(* The metrics of a finished evaluation. *)

Incomplete == manifest.completeness \notin CompleteForPrecision

PrecisionFamilyShown == ~Incomplete /\ totals.eligible > 0

Rate(shown, num, den) == [shown |-> shown /\ den > 0, num |-> num, den |-> den]

Metrics ==
    [precision         |-> Rate(PrecisionFamilyShown, totals.matched, totals.submitted),
     weightedPrecision |-> Rate(PrecisionFamilyShown, totals.pnum, totals.pden),
     falseCritical     |-> Rate(PrecisionFamilyShown, totals.falseCritical, totals.completed),
     brier             |-> Rate(PrecisionFamilyShown, 0, totals.scored),
     recall            |-> Rate(totals.eligible > 0, totals.matched, totals.eligible),
     weightedRecall    |-> Rate(totals.eligible > 0, totals.rnum, totals.rden),
     anchors           |-> Rate(TRUE, totals.anchorsResolved, totals.anchorsTotal)]

(* build_novel_queue: the unmatched of every case, for incomplete references. *)
NovelQueue ==
    IF Incomplete
      THEN UNION {{<<c, evaluations[c].unmatched[i]>> : i \in DOMAIN evaluations[c].unmatched} :
                  c \in DOMAIN evaluations}
      ELSE {}

(* analyze_sensitivity with two thresholds: the pairs of each. *)
PairsAt(c, threshold) ==
    {<<m.sub, m.ref>> : m \in GreedyMatch(submission[c].concerns,
       EligibleReferences(manifest.cases[c]), manifest.cases[c], threshold)}

-----------------------------------------------------------------------------

UniqueIds == \A c \in DOMAIN submission : LET s == submission[c].concerns
                                         IN  \A i, j \in DOMAIN s : s[i].id = s[j].id => i = j

TypeOK ==
    /\ manifest \in Manifests
    /\ totals \in [DOMAIN NoTotals -> Nat]
    /\ Len(evaluations) <= Len(manifest.cases)

(* Every submitted concern is matched once or left over, every counted     *)
(* reference is found or missed, and every case is one of completed,       *)
(* abstained and failed; provided that the concerns of a case have ids of  *)
(* their own, which no validator asks for.                                 *)
CountsAddUp ==
    UniqueIds =>
      /\ totals.matched + totals.unmatched = totals.submitted
      /\ totals.matched + totals.missed = totals.eligible
      /\ totals.completed + totals.abstained + totals.failed = Len(evaluations)

(* The match of a case is stable: a submitted concern and a reference that *)
(* clear the threshold and are not matched with each other are so because  *)
(* one of them has a match that scores at least as well.                   *)
MatchIsStable ==
    UniqueIds => \A c \in DOMAIN evaluations :
      LET m == evaluations[c].matches
          refs == EligibleReferences(manifest.cases[c])
      IN  \A p \in Candidates(submission[c].concerns, refs, manifest.cases[c], Threshold) :
            \E q \in m : (q.sub = p.sub \/ q.ref = p.ref) /\ q.score >= p.score

(* A stricter threshold only removes pairs: what matches at the threshold  *)
(* matches at a lower one, so what sensitivity analysis calls unstable is  *)
(* never a pair that moved.                                                *)
ThresholdOnlyRemoves ==
    \A c \in DOMAIN evaluations :
      submission[c].kind = "answered" => PairsAt(c, Threshold) \subseteq PairsAt(c, LowThreshold)

(* The recall denominators depend on the benchmark only: two systems are   *)
(* measured against the same references, answered or not.                  *)
SameDenominator ==
    Done =>
      LET gold == SumOver(manifest.cases, LAMBDA refs : Len(EligibleReferences(refs)))
          weight == SumOver(manifest.cases, LAMBDA refs : RecallWeight(EligibleReferences(refs)))
      IN  totals.eligible = gold /\ totals.rden = weight

(* No precision-family value is published unless the reference set is      *)
(* complete and some reference counts, and each published rate lies        *)
(* between 0 and 1, duplicate ids or not.                                  *)
RatesAreRates ==
    Done =>
      /\ \A name \in DOMAIN Metrics \ {"falseCritical"} :
           Metrics[name].shown => Metrics[name].num <= Metrics[name].den
      /\ \A name \in {"precision", "weightedPrecision", "falseCritical", "brier"} :
           Metrics[name].shown =>
             /\ manifest.completeness \in {"complete_seeded", "adjudicated_output_complete"}
             /\ \E c \in DOMAIN manifest.cases : \E i \in DOMAIN manifest.cases[c] :
                  manifest.cases[c][i].status \in {"confirmed", "qualified"}
                  \/ manifest.cases[c][i].disposition = "manuscript_correction"

(* What an incomplete reference set leaves unmatched goes to novelty       *)
(* review, every concern once, and nothing counts as a false positive.     *)
UnmatchedAreCandidates ==
    (Done /\ Incomplete /\ UniqueIds) =>
      /\ Cardinality(NovelQueue) = totals.unmatched
      /\ totals.falseCritical = 0 /\ totals.pden = 0
=============================================================================
