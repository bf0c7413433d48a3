-------------------------- MODULE MCAdjudicationTx --------------------------
(***************************************************************************)
(* Constants of AdjudicationTx for TLC, shared by its configurations.      *)
(***************************************************************************)
EXTENDS AdjudicationTx, TLC

CONSTANTS a1, a2, a3

Three == {a1, a2, a3}
Two   == {a1, a2}
None  == {}

(* Agreement and an adjacent severity that is a contested critical one. *)
Major == [validity |-> "confirmed", severity |-> 3]
Crit  == [validity |-> "confirmed", severity |-> 4]
MajorOrCritical == {Major, Crit}
OneDecision     == {Major}
=============================================================================
