----------------------------- MODULE MCEvaluation -----------------------------
(***************************************************************************)
(* Evaluation for TLC.                                                     *)
(***************************************************************************)
EXTENDS Evaluation, TLC

-----------------------------------------------------------------------------
(* Scoring: two benchmarks, complete and incomplete, of two cases each, and
   every answer of up to two concerns, which may share their id.           *)

R(id, anchors, status, disposition, severity) ==
    [id |-> id, anchors |-> anchors, status |-> status, disposition |-> disposition, severity |-> severity]

Confirmed == R("r1", {"a1"}, "confirmed", "none", "critical")
Qualified == R("r2", {"a1", "a2"}, "qualified", "none", "minor")
Corrected == R("r2", {"a2"}, "resolved", "manuscript_correction", "major")
Withdrawn == R("r1", {"a1"}, "resolved", "withdrawn", "critical")
Proposed  == R("r2", {"a2"}, "proposed", "none", "moderate")

CaseLists == { << <<Confirmed, Qualified>>, <<Withdrawn, Corrected>> >>,
               << <<Proposed, Withdrawn>>, << >> >> }
ScoredManifests == {[completeness |-> k, cases |-> s] :
                     k \in {"complete_seeded", "partial_natural"}, s \in CaseLists}

Hits(exact, normalized, page) ==
    [exact |-> exact, normalized |-> normalized, object_label |-> {}, page_only |-> page]
Anchors  == { <<Hits({"a1"}, {"a2"}, {})>>, <<Hits({}, {}, {"a1", "a2"})>> }
Concerns == {[id |-> x[1], severity |-> x[2], anchors |-> a, likeness |-> l] :
               x \in {<<"s1", "critical">>, <<"s2", "informational">>}, a \in Anchors,
               l \in [{"r1", "r2"} -> {0, 2}]}

Lists == {<< >>} \cup {<<s>> : s \in Concerns} \cup {<<s, t>> : s \in Concerns, t \in Concerns}
Given == {[kind |-> "answered", concerns |-> s] : s \in Lists}
           \cup {[kind |-> k, concerns |-> << >>] : k \in {"abstained", "failed"}}
Short == {a \in Given : Len(a.concerns) < 2}

-----------------------------------------------------------------------------
(* Signed scorecards: release keys that a ceremony makes or operators publish,
   through two rotations (the configuration); and beside it keys of both
   ceremonies, with test keys published by hand and files that may be altered. *)

ThreeKeys     == 1 .. 3
ForProduction == {{"production"}}

Damaged ==
    [keys |-> 1 .. 4, time |-> 1, root |-> 3, release |-> 1, ceremonies |-> 1, retired |-> 1,
     roles |-> {"test"}, channels |-> {{"production", "development"}}]

-----------------------------------------------------------------------------
(* Claim authorization. *)

OneKeyFor(roles) ==
    [keys |-> {1}, time |-> 2, root |-> 2, release |-> 1, ceremonies |-> 0, retired |-> 1,
     roles |-> roles, channels |-> ForProduction]
ClaimKeys == OneKeyFor({"claim_authority", "online_release"})

B(class, completeness, prereqs, comparative) ==
    [version |-> 0, class |-> class, completeness |-> completeness,
     prereqs |-> prereqs, comparative |-> comparative]
Contents   == {B("expert_natural", "adjudicated_output_complete", TRUE, FALSE),
               B("expert_natural", "partial_natural", TRUE, TRUE),
               B("expert_natural", "complete_seeded", FALSE, TRUE),
               B("live_private", "unknown", TRUE, TRUE)}

M(id, status, requires) == [id |-> id, status |-> status, requires |-> requires]
DecisionMetrics ==
    { << M("critical_precision", "authorized", "adjudicated_output_complete"),
         M("calibration", "authorized", "complete_seeded"),
         M("reference_recall", "authorized", "partial_natural") >>,
      << M("cost", "authorized", "any"), M("calibration", "withheld", "complete_seeded") >> }

-----------------------------------------------------------------------------
(* Release gates: two items, cases or exports or whatever a gate counts. *)

GateKeys == OneKeyFor({"evidence_authority", "online_release"})
AllGates == {"natural", "coarse", "staffing", "audit", "holdout", "independent"}
=============================================================================
