--------------------------- MODULE MCAdjudication ---------------------------
(***************************************************************************)
(* Constants of Adjudication for TLC, shared by its configurations.        *)
(***************************************************************************)
EXTENDS Adjudication, TLC

CONSTANTS c1, c2, a1, a2, a3, econ, stats

TwoCases == {c1, c2}
Three    == {a1, a2, a3}
Two      == {a1, a2}
Symmetry == Permutations(Three)
PairSymmetry == Permutations(Two)

(* One case with one concern, submitted as a major one. *)
OneConcern == {[case |-> c1, digest |-> 1, concerns |-> {1}, severe |-> {1}, artifacts |-> {}]}

(* Two versions of a case that share a concern id, and a second content for one
   of them.                                                                   *)
SharedConcern ==
    {[case |-> c1, digest |-> 1, concerns |-> {1}, severe |-> {}, artifacts |-> {1}],
     [case |-> c1, digest |-> 2, concerns |-> {1, 2}, severe |-> {}, artifacts |-> {}],
     [case |-> c2, digest |-> 3, concerns |-> {1}, severe |-> {}, artifacts |-> {1}]}

AllEcon == [k \in Concerns |-> econ]

(* Concern 2 is in a domain where nobody needs to be qualified. *)
TwoDomains == [k \in Concerns |-> IF k = 2 THEN stats ELSE econ]

Good(v, s) == [validity |-> v, severity |-> s, grounded |-> TRUE, counterposed |-> TRUE]

(* Agreement, an adjacent severity, a contested critical, a contested validity,
   and an input the service refuses for a severe concern.                     *)
FewInputs == {Good("confirmed", 3), Good("confirmed", 4), Good("rejected", 3)}
ManyInputs == FewInputs \cup {Good("qualified", 2),
    [validity |-> "confirmed", severity |-> 3, grounded |-> FALSE, counterposed |-> TRUE],
    [validity |-> "confirmed", severity |-> 3, grounded |-> TRUE, counterposed |-> FALSE]}
TwoInputs == {Good("confirmed", 3), Good("rejected", 3)}
OneInput  == {Good("confirmed", 3)}

Lasting == [use |-> ExpertUse, expiry |-> "never"]
Timed   == [use |-> ExpertUse, expiry |-> "ahead"]
OneGrantInput == {Lasting}
TwoGrantInputs == {Lasting, Timed}
AllGrantInputs == GrantInput

OneConflict == {<<a1, 1>>}
=============================================================================
