-------------------------------- MODULE LiveRun --------------------------------
(***************************************************************************)
(* The live pipeline (runners/pipeline.py): one command reviews a          *)
(* manuscript with an upstream model, writes the review and what follows   *)
(* from it into a directory, and may register the review as a case.        *)
(*                                                                         *)
(* The directory is kept from one command to the next, its files are       *)
(* overwritten one by one and not atomically, and two steps read back what *)
(* is there: the conversion, and the registration, whose own steps are in  *)
(* module LiveImport.                                                      *)
(***************************************************************************)
EXTENDS Integers, Sequences

CONSTANTS
    Runners,        \* commands that may run at the same time
    Manuscripts,
    Gold,           \* the manuscripts a benchmark has gold concerns for
    MaxRuns, MaxCrashes     \* bounds

RunAssumption == Gold \subseteq Manuscripts /\ {MaxRuns, MaxCrashes} \subseteq Nat

VARIABLES
    files,      \* the directory: name -> content
    cases,      \* registered: manuscript -> the review its concerns are from
    running,    \* per runner: its command, or Idle
    runs, crashes

vars == <<files, cases, running, runs, crashes>>

Absent == [kind |-> "absent"]
Torn == [kind |-> "torn"]
Idle == [kind |-> "idle"]

Whole(file) == file.kind \notin {"absent", "torn"}

Names == {"review", "provenance", "handoff", "map", "submission", "evaluation", "scorecard", "summary"}
Evaluated == {"submission", "evaluation", "scorecard"}

(* What upstream finds in a manuscript is the review of that run. *)
ReviewOf(run) == [kind |-> "review", run |-> run.number, of |-> run.manuscript]

-----------------------------------------------------------------------------

(* resolve_gold_binding. *)
HasGold(m) == m \in Gold

(* Variant: the summary is written with the evaluation. *)
PlanSummaryEarly(m) ==
    IF HasGold(m) THEN <<"review", "provenance", "map", "submission", "evaluation", "summary", "scorecard">>
    ELSE <<"review", "provenance", "handoff">>

(* The files a command writes, in order. *)
Plan(m) ==
    IF HasGold(m) THEN <<"review", "provenance", "map", "submission", "evaluation", "scorecard", "summary">>
    ELSE <<"review", "provenance", "handoff">>

(* run_coarse_review: the upstream call, when it succeeds. *)
Start(p) ==
    /\ running[p] = Idle /\ runs < MaxRuns
    /\ \E m \in Manuscripts, register \in BOOLEAN :
         running' = [running EXCEPT ![p] =
           [kind |-> "run", number |-> runs + 1, manuscript |-> m, register |-> register,
            plan |-> Plan(m), open |-> FALSE, converted |-> Absent]]
    /\ runs' = runs + 1
    /\ UNCHANGED <<files, cases, crashes>>

(* build_live_coarse_map: the case of the command's manuscript. *)
MapOf(run) == [kind |-> "map", case |-> run.manuscript]

(* What is written next. *)
Content(run) ==
    LET name == Head(run.plan)
    IN  CASE name = "review" -> ReviewOf(run)
          [] name = "map" -> MapOf(run)
          [] name \in Evaluated -> run.converted
          [] OTHER -> [kind |-> name, run |-> run.number, of |-> run.manuscript]

(* The submission is made of the map and the review as they are on disk. *)
Convert(p) ==
    /\ running[p] # Idle /\ running[p].plan # << >> /\ Head(running[p].plan) = "submission"
    /\ running[p].converted = Absent
    /\ running' = [running EXCEPT ![p] =
         IF Whole(files["map"]) /\ Whole(files["review"])
         THEN [@ EXCEPT !.converted = [kind |-> "converted", case |-> files["map"].case, review |-> files["review"]]]
         ELSE Idle]
    /\ UNCHANGED <<files, cases, runs, crashes>>

(* write_text truncates a file ... *)
Open(p) ==
    /\ running[p] # Idle /\ running[p].plan # << >> /\ ~running[p].open
    /\ Head(running[p].plan) = "submission" => running[p].converted # Absent
    /\ files' = [files EXCEPT ![Head(running[p].plan)] = Torn]
    /\ running' = [running EXCEPT ![p].open = TRUE]
    /\ UNCHANGED <<cases, runs, crashes>>

(* ... and fills it. *)
Close(p) ==
    /\ running[p] # Idle /\ running[p].open
    /\ files' = [files EXCEPT ![Head(running[p].plan)] = Content(running[p])]
    /\ running' = [running EXCEPT ![p].open = FALSE, ![p].plan = Tail(@)]
    /\ UNCHANGED <<cases, runs, crashes>>

(* import_live_run: a whole export, and a case that is not there yet. *)
Import(m) ==
    cases' = IF Whole(files["review"]) /\ m \notin DOMAIN cases
             THEN [n \in DOMAIN cases \cup {m} |-> IF n = m THEN files["review"] ELSE cases[n]]
             ELSE cases

(* The end of a command, with --register or without. *)
Finish(p) ==
    /\ running[p] # Idle /\ running[p].plan = << >>
    /\ IF running[p].register THEN Import(running[p].manuscript) ELSE UNCHANGED cases
    /\ running' = [running EXCEPT ![p] = Idle]
    /\ UNCHANGED <<files, runs, crashes>>

(* resolve_manuscript_path: the provenance inside the export. *)
InferredManuscript == IF Whole(files["review"]) THEN {files["review"].of} ELSE {}

(* import-live-run on the directory, without --manuscript. *)
ImportDirectory ==
    /\ \E m \in InferredManuscript : Import(m)
    /\ UNCHANGED <<files, running, runs, crashes>>

Crash(p) ==
    /\ running[p] # Idle /\ crashes < MaxCrashes
    /\ running' = [running EXCEPT ![p] = Idle]
    /\ crashes' = crashes + 1
    /\ UNCHANGED <<files, cases, runs>>

Init ==
    /\ files = [name \in Names |-> Absent]
    /\ cases = [m \in {} |-> Absent]
    /\ running = [p \in Runners |-> Idle]
    /\ runs = 0 /\ crashes = 0

Pipeline(p) == Start(p) \/ Convert(p) \/ Open(p) \/ Close(p) \/ Finish(p)

Next == (\E p \in Runners : Pipeline(p) \/ Crash(p)) \/ ImportDirectory

Spec == Init /\ [][Next]_vars

-----------------------------------------------------------------------------

TypeOK ==
    /\ DOMAIN files = Names
    /\ \A name \in Names : Whole(files[name]) =>
         files[name].kind = IF name \in Evaluated THEN "converted" ELSE name
    /\ DOMAIN cases \subseteq Manuscripts

(* The concerns of a registered case were found in its manuscript, though  *)
(* the directory held the reviews of others before.                        *)
CaseOfItsRun == \A m \in DOMAIN cases : cases[m].of = m

(* A review is evaluated against the gold concerns of the manuscript it is *)
(* about.                                                                  *)
EvaluatedOnItsGold ==
    \A name \in Evaluated : Whole(files[name]) => files[name].case = files[name].review.of

(* While the summary is of the run whose review lies in the directory,     *)
(* every file it names was made of that review: a command that died half   *)
(* way, over the files of an earlier one, leaves no summary of its own.    *)
SummaryVouches ==
    /\ Whole(files["summary"]) /\ Whole(files["review"])
    /\ files["summary"].run = files["review"].run
    => \A name \in Evaluated : Whole(files[name]) /\ files[name].review = files["review"]
=============================================================================
