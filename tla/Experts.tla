------------------------------- MODULE Experts -------------------------------
(***************************************************************************)
(* The expert programme and the review of novel concerns, side by side:    *)
(* credit and compensation, calibration, the reconstruction of claims and  *)
(* the settlement of novel concerns.  They use different tables, so that   *)
(* no property relates two of them: a behaviour is one of a single part,   *)
(* which Init chooses, and the others rest in their initial states.        *)
(***************************************************************************)
EXTENDS ExpertLedger

CONSTANTS
    Parts,              \* the parts to look at
    Domains,
    Trainees, Refs, DomainOf, Adjudications, SetInputs, Answers, Rated, MaxAttempts, None,
    Contributors, Intakes, Reconstructors, Calibrated, OwnerOf, ClassOf, MaxDeterminations,
    Candidates, Novelists, Opinions, Ratings, Cards,
    ScoringInFlight, ReviewsInFlight, DecisionsInFlight     \* requests of each part at a time

VARIABLES
    part,
    profiles, sets, attempts, qualifications, scoring,
    intakes, seeded, tasks, submissions, determinations, qualified, reviews,
    candidates, novelTasks, decisions, settlements, successors, scorecards, settling

-----------------------------------------------------------------------------
(* The parts.  The ledger, which this module extends, is the fourth. *)

Cal == INSTANCE Calibration WITH
    Experts <- Trainees, InFlight <- ScoringInFlight, flight <- scoring

Rec == INSTANCE ClaimReconstruction WITH
    Experts <- Reconstructors, InFlight <- ReviewsInFlight

Nov == INSTANCE NovelReview WITH
    Experts <- Novelists, InFlight <- DecisionsInFlight,
    tasks <- novelTasks, determinations <- settlements, flight <- settling

ASSUME ExpertsAssumption ==
    Cal!ConstantsAssumption /\ Rec!ConstantsAssumption /\ Nov!ConstantsAssumption

-----------------------------------------------------------------------------
calibration    == <<profiles, sets, attempts, qualifications, scoring>>
reconstruction == <<intakes, seeded, tasks, submissions, determinations, qualified, reviews>>
novel          == <<candidates, novelTasks, decisions, settlements, successors, scorecards, settling>>

InitParts ==
    /\ part \in Parts
    /\ Init /\ Cal!Init /\ Rec!Init /\ Nov!Init

Rest(p, partVars) == IF part = p THEN TRUE ELSE UNCHANGED partVars

Of(p) ==
    /\ part = p /\ UNCHANGED part
    /\ Rest("ledger", vars) /\ Rest("calibration", calibration)
    /\ Rest("reconstruction", reconstruction) /\ Rest("novel", novel)

NextParts ==
    \/ Of("ledger") /\ Next
    \/ Of("calibration") /\ Cal!Next
    \/ Of("reconstruction") /\ Rec!Next
    \/ Of("novel") /\ Nov!Next

SpecParts == InitParts /\ [][NextParts]_<<part, vars, calibration, reconstruction, novel>>

-----------------------------------------------------------------------------
(* What the runs check: WorkIsPaidOnce of the ledger as it is, and the properties of
   the other parts taken together where they say one thing.                         *)

(* Qualifications are earned.  Each row rests on a finished attempt that passes,
   no attempt earns two, an attempt that is answered has been scored, and an
   expert has at most one row in a domain that a claim would look at.        *)
QualificationsHold ==
    part = "calibration" =>
        /\ Cal!TypeOK
        /\ Cal!QualificationsAreEarned
        /\ Cal!AnsweredMeansScored
        /\ Cal!OneActiveRow

(* Nothing is settled by one person.  A reconstruction is the work of its holder
   and a claim settled by two of them; a novel candidate is settled once, by
   different experts where it is severe, as the policy of the registry would
   settle it; its state and its successors say so, and the audit of the
   registry finds no fault.                                                 *)
SettledByExperts ==
    CASE part = "reconstruction" ->
            /\ Rec!TypeOK
            /\ Rec!WorkMatchesTask
            /\ Rec!DeterminationsRestOnTwoExperts
      [] part = "novel" ->
            /\ Nov!TypeOK
            /\ Nov!SettledOnce
            /\ Nov!SettledByIndependentExperts
            /\ Nov!AgreesWithRegistry
            /\ Nov!StateIsOutcome
            /\ Nov!SuccessorsTraceable
            /\ Nov!AuditPasses
      [] OTHER -> TRUE

(* The expert programme keeps two promises: calibration the standing that claims
   for work assume, and the two reconstructions of an intake that of an
   independent review panel.                                                *)
KeepsItsPromises == Cal!RefinesStanding /\ Rec!RefinesReview

(* A rejected intake stays rejected, one review at a time, and a payment or a
   cancellation stays what it is, one status update at a time.              *)
FinalStaysFinal == Rec!ClosedStaysClosed /\ SettledStaysSettled

(* An expert who passes a calibration has a qualification in its domain
   (GOVERNANCE.md: calibration results authorize task eligibility).        *)
PassingQualifies == Cal!PassingQualifies
=============================================================================
