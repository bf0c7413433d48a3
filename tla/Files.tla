--------------------------------- MODULE Files ---------------------------------
(***************************************************************************)
(* What the command line keeps in files: the import of exports beside an   *)
(* upload, and side by side with it the import by commands that race, the  *)
(* pipeline of a manuscript, the acquisition ledger, the staging of        *)
(* packages and the matcher audit.  They use different files: a behaviour  *)
(* is one of a single part, which Init chooses, and the others rest in     *)
(* their initial states.                                                   *)
(***************************************************************************)
EXTENDS LiveImport

CONSTANTS
    Parts,              \* the parts to look at
    RacingImporters, RacingTexts, MaxRacingRewrites,
    Runners, Manuscripts, Gold, MaxRuns, MaxDeaths,
    Sources, Operators, Profiles, Records, Reasons, MaxCommands, MaxEdits,
    Stagers, FileNames, Contents, Packages, Minimum, MaxRebuilds, MaxKills,
    AuditSessions, Auditors, RacingSessions, RacingAuditors, Decisions, RacingDecisions,
    Populations, TargetSize, NaturalTarget, MaxJudgments, MaxRacingJudgments, MaxDraws, MaxRacingDraws

VARIABLES
    part,
    export2, text2, objects2, rows2, cases2, links2, running2, rewrites2, crashes2, uploads2,
    directory, registered, commandsRunning, runs, deaths,
    ledger, working, manuscript, record, ever, cleared, commands, edits,
    package, manifest, tree, staging, told, rebuilds, kills,
    manifests, judgments, reports, draws, handed,
    manifests2, judgments2, reports2, draws2, handed2

-----------------------------------------------------------------------------
(* The parts. *)

(* Commands that import at the same time, and nobody uploads. *)
Two == INSTANCE LiveImport WITH
    Importers <- RacingImporters, Uploaders <- {}, Texts <- RacingTexts,
    MaxRewrites <- MaxRacingRewrites, MaxUploads <- 0,
    export <- export2, text <- text2, objects <- objects2, rows <- rows2, cases <- cases2,
    links <- links2, running <- running2, rewrites <- rewrites2, crashes <- crashes2,
    uploads <- uploads2

Run == INSTANCE LiveRun WITH
    MaxCrashes <- MaxDeaths,
    files <- directory, cases <- registered, running <- commandsRunning, crashes <- deaths

Acq == INSTANCE AcquisitionLedger WITH text <- manuscript

Stage == INSTANCE ProductionIntake WITH
    Names <- FileNames, MaxCrashes <- MaxKills,
    reviews <- tree, running <- staging, crashes <- kills

Audit == INSTANCE MatcherAudit WITH Sessions <- AuditSessions

Sessions == INSTANCE MatcherAudit WITH
    Sessions <- RacingSessions, Auditors <- RacingAuditors, Decisions <- RacingDecisions,
    MaxJudgments <- MaxRacingJudgments, MaxDraws <- MaxRacingDraws,
    manifests <- manifests2, judgments <- judgments2, reports <- reports2, draws <- draws2,
    handed <- handed2

ASSUME FilesAssumption ==
    /\ Two!ImportAssumption /\ Run!RunAssumption /\ Acq!AcquisitionAssumption
    /\ Stage!IntakeAssumption /\ Audit!AuditAssumption /\ Sessions!AuditAssumption

-----------------------------------------------------------------------------
two         == <<export2, text2, objects2, rows2, cases2, links2, running2, rewrites2, crashes2, uploads2>>
pipeline    == <<directory, registered, commandsRunning, runs, deaths>>
acquisition == <<ledger, working, manuscript, record, ever, cleared, commands, edits>>
staged      == <<package, manifest, tree, staging, told, rebuilds, kills>>
audit       == <<manifests, judgments, reports, draws, handed>>
sessions    == <<manifests2, judgments2, reports2, draws2, handed2>>

AnyOf(S) == CHOOSE x \in S : TRUE

(* The parts that rest have one initial state. *)
InitParts ==
    /\ part \in Parts
    /\ Init /\ Two!Init /\ Run!Init /\ Acq!Init /\ Stage!Init /\ Audit!Init /\ Sessions!Init
    /\ part = "import" \/ (export = AnyOf(Exports) /\ text = AnyOf(Texts))
    /\ part = "two" \/ (export2 = AnyOf(Exports) /\ text2 = AnyOf(RacingTexts))
    /\ part = "staging" \/ package = AnyOf(Packages)

Rest(p, partVars) == IF part = p THEN TRUE ELSE UNCHANGED partVars

Of(p) ==
    /\ part = p /\ UNCHANGED part
    /\ Rest("import", vars) /\ Rest("two", two) /\ Rest("run", pipeline)
    /\ Rest("acquisition", acquisition) /\ Rest("staging", staged)
    /\ Rest("audit", audit) /\ Rest("sessions", sessions)

NextParts ==
    \/ Of("import") /\ Next
    \/ Of("two") /\ Two!Next
    \/ Of("run") /\ Run!Next
    \/ Of("acquisition") /\ Acq!Next
    \/ Of("staging") /\ Stage!Next
    \/ Of("audit") /\ Audit!Next
    \/ Of("sessions") /\ Sessions!Next

SpecParts == InitParts /\ [][NextParts]_<<part, vars, two, pipeline, acquisition, staged, audit, sessions>>

-----------------------------------------------------------------------------
(* What the run checks: the properties of LiveImport as they are, and those of
   the other parts taken together where they say one thing.                 *)

(* What lies in one directory, or hangs on one row, belongs together.  Two imports
   that race leave no row without its whole object and adjudicate a concern in
   one case only; the concerns of a case were found in its manuscript, a review is
   evaluated on the gold concerns of its manuscript, and a summary names only
   files made of the review it is about; and a tree shown as ready holds the
   files of one complete package.                                           *)
DirectoriesBelongTogether ==
    CASE part = "two" ->
            /\ Two!TypeOK
            /\ Two!StoreBacksRows
            /\ Two!ConcernInOneCase
      [] part = "run" ->
            /\ Run!TypeOK
            /\ Run!CaseOfItsRun
            /\ Run!EvaluatedOnItsGold
            /\ Run!SummaryVouches
      [] part = "staging" -> Stage!TypeOK /\ Stage!ReadyIsOnePackage
      [] OTHER -> TRUE

(* The acquisition ledger can be relied on.  Whatever a command writes, the next
   can read; a source once recorded is in every ledger that can be read; and a
   source imported as natural came with a manuscript cleared as natural.    *)
LedgerHolds ==
    part = "acquisition" =>
        /\ Acq!TypeOK
        /\ Acq!LedgerLoads
        /\ Acq!HistoryKept
        /\ Acq!NaturalWasCleared

(* The matcher audit counts as completed what its protocol calls completed, and
   only decisions that its session sampled, in one session.                 *)
AuditHolds ==
    CASE part = "audit" ->
            /\ Audit!TypeOK
            /\ Audit!CompletedAsProtocol
            /\ Audit!CompletedWereSampled
      [] part = "sessions" ->
            /\ Sessions!TypeOK
            /\ Sessions!CompletedAsProtocol
            /\ Sessions!CompletedWereSampled
      [] OTHER -> TRUE

(* A withdrawn source is never imported again, and more judgments never take a
   completed decision back.                                                 *)
FinalStays == Acq!WithdrawnIsFinal /\ Audit!CompletedStaysCompleted
=============================================================================
