------------------------------- MODULE MCExperts -------------------------------
(***************************************************************************)
(* Experts for TLC.                                                        *)
(***************************************************************************)
EXTENDS Experts, TLC

CONSTANTS
    e1, x1, x2, x3, n1, n2, n3, l1, l2, m1, m2, c1,
    k1, k2, econ, stats

-----------------------------------------------------------------------------
(* Calibration: an expert, two domains. *)

Gold(by, v, s) == [by |-> by, validity |-> v, severity |-> s]

(* Reference 4 is in dispute, and 5 belongs to another domain. *)
FourRefs == {1, 2, 4, 5}
References == [r \in FourRefs |->
    << Gold("x", "confirmed", 3), Gold("y", "confirmed", IF r = 4 THEN 4 ELSE 3) >>]
RefDomain == [r \in FourRefs |-> IF r = 5 THEN stats ELSE econ]

Set(d, refs, threshold) == [domain |-> d, refs |-> refs, minCases |-> 1,
                            passPercent |-> threshold, maxFalseCritical |-> 0, active |-> TRUE]

(* Two sets of one domain, one of another, an unusable one and a repeated one. *)
SeveralSets == {Set(econ, <<1, 2>>, 80), Set(econ, <<1>>, 95), Set(stats, <<5>>, 80),
                Set(econ, <<4>>, 80), Set(econ, <<1, 1>>, 80)}

(* Right; a false critical. *)
Graded == {[validity |-> "confirmed", severity |-> s] : s \in {3, 4}}

OneExpert    == {e1}
EconAndStats == {econ, stats}

-----------------------------------------------------------------------------
(* Claim reconstruction: three experts, two domains of which one calibrates. *)

Intake(id, d) == [id |-> id, by |-> k1, manager |-> FALSE, domain |-> d, class |-> "public",
                  adjudication |-> TRUE, release |-> FALSE, redistribution |-> FALSE]

(* One intake in a calibrated domain; one without the use; one whose artifact is
   somebody else's.                                                         *)
Several == {Intake(1, econ), [Intake(2, stats) EXCEPT !.adjudication = FALSE],
            [Intake(3, econ) EXCEPT !.by = k2]}
Uploader      == [i \in Several |-> k1]
Classified    == [i \in Several |-> "public"]
Submitters    == {k1, k2}
Reviewers     == {x1, x2, x3}
Econ          == {econ}

-----------------------------------------------------------------------------
(* The ledger: a review, which can be cancelled, and a calibration case, which
   cannot; two managers.                                                    *)

Earners     == {l1, l2}
TwoTasks    == {1, 2}
Types       == [t \in TwoTasks |-> IF t = 1 THEN "adjudication" ELSE "calibration"]
TwoManagers == {m1, m2}

-----------------------------------------------------------------------------
(* Novel concerns: one candidate, three experts. *)

O(v, s) == [validity |-> v, severity |-> s]

(* Agreement, the conservative pair, a contested critical, a gap of two. *)
Views == {O("confirmed", 3), O("qualified", 4), O("rejected", 1), O("unresolved", 3)}

(* The scorecard the queue came from, one that claims its number with another
   content, and one not marked immutable.                                  *)
Originals == {[id |-> <<Nobody, 1>>, content |-> 1, immutable |-> TRUE],
              [id |-> <<Nobody, 1>>, content |-> 2, immutable |-> TRUE],
              [id |-> <<Nobody, 2>>, content |-> 3, immutable |-> FALSE]}
OneCandidate == {c1}
ThreeExperts == {n1, n2, n3}

-----------------------------------------------------------------------------
Symmetry == Permutations(Reviewers)
=============================================================================
