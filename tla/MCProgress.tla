------------------------------ MODULE MCProgress ------------------------------
(***************************************************************************)
(* What must eventually happen, for TLC: the liveness of five parts under  *)
(* the fairness each of their modules assumes.  The parts are alternatives *)
(* that Init chooses from, as in MCExperts; the adjudication core is taken *)
(* twice, once with disagreement and revocation, once with a queue.        *)
(***************************************************************************)
EXTENDS Integers, Sequences, FiniteSets

CONSTANTS
    Parts,          \* the parts to check
    c1, a1, a2, a3, e1, e2, k1, econ, Nobody, NoCase

VARIABLES
    part,
    artifacts, cases, concernIndex, grants, tasks, submissions, determinations,
    credits, appeals, standing, clock,
    artifactsQ, casesQ, concernIndexQ, grantsQ, tasksQ, submissionsQ, determinationsQ,
    creditsQ, appealsQ, standingQ, clockQ,
    intakes, seeded, claimTasks, reconstructions, outcomes, qualified, reviews,
    package, manifest, tree, staging, told, rebuilds, deaths,
    export, text, objects, rows, registered, links, running, rewrites, crashes, uploads

-----------------------------------------------------------------------------
(* The adjudication core. *)

TheCase  == {c1}
Econ     == {econ}
None     == {}
Two      == {a1, a2}
Three    == {a1, a2, a3}
Input(v) == [validity |-> v, severity |-> 3, grounded |-> TRUE, counterposed |-> TRUE]
Agreeing == {Input("confirmed")}
Differing == {Input("confirmed"), Input("rejected")}
Lasting  == {[use |-> "expert_adjudication", expiry |-> "never"]}
Expiring == Lasting \cup {[use |-> "expert_adjudication", expiry |-> "ahead"]}
Bundle(concerns) == [case |-> c1, digest |-> 1, concerns |-> concerns, severe |-> {1}, artifacts |-> {}]

(* One concern the reviewers may contest, two grants, of which one may lapse. *)
One        == {1}
OneConcern == {Bundle({1})}
OneDomain  == [k \in One |-> econ]

Review == INSTANCE Adjudication WITH
    Cases <- TheCase, Concerns <- One, Adjudicators <- Three, Domains <- Econ, Artifacts <- None,
    Bundles <- OneConcern, DomainOf <- OneDomain, Calibrated <- None, Conflicted <- None,
    Inputs <- Differing, GrantInputs <- Expiring, MaxGrants <- 2, MaxAppeals <- 0
ASSUME ReviewAssumption == Review!ConstantsAssumption

(* Two concerns of one case, so that the claim queue has an order, and only two
   reviewers.                                                               *)
Pair        == {1, 2}
TwoConcerns == {Bundle({1, 2})}
PairDomain  == [k \in Pair |-> econ]

Queue == INSTANCE Adjudication WITH
    Cases <- TheCase, Concerns <- Pair, Adjudicators <- Two, Domains <- Econ, Artifacts <- None,
    Bundles <- TwoConcerns, DomainOf <- PairDomain, Calibrated <- None, Conflicted <- None,
    Inputs <- Agreeing, GrantInputs <- Lasting, MaxGrants <- 1, MaxAppeals <- 0,
    artifacts <- artifactsQ, cases <- casesQ, concernIndex <- concernIndexQ, grants <- grantsQ,
    tasks <- tasksQ, submissions <- submissionsQ, determinations <- determinationsQ,
    credits <- creditsQ, appeals <- appealsQ, standing <- standingQ, clock <- clockQ
ASSUME QueueAssumption == Queue!ConstantsAssumption

-----------------------------------------------------------------------------
(* Claim reconstruction: two intakes, two experts. *)

Intake(id) == [id |-> id, by |-> k1, manager |-> FALSE, domain |-> econ, class |-> "public",
               adjudication |-> TRUE, release |-> FALSE, redistribution |-> FALSE]
Intakes      == {Intake(1), Intake(2)}
Uploader     == [i \in Intakes |-> k1]
Classified   == [i \in Intakes |-> "public"]
Contributor  == {k1}
Experts      == {e1, e2}

Claims == INSTANCE ClaimReconstruction WITH
    Contributors <- Contributor, Domains <- Econ, Calibrated <- None, OwnerOf <- Uploader,
    ClassOf <- Classified, MaxDeterminations <- 0, InFlight <- 1, tasks <- claimTasks,
    submissions <- reconstructions, determinations <- outcomes
ASSUME ClaimsAssumption == Claims!ConstantsAssumption

-----------------------------------------------------------------------------
(* Staging of a package: complete ones that share names and files, one half
   built, one from private runs, one that pins the sample contract.         *)

Manifest(files) ==
    [kind |-> "manifest", status |-> "ready", pin |-> "commit", rights |-> {"rr"},
     artifacts |-> [n \in DOMAIN files |-> [content |-> files[n], rights |-> "rr"]]]
Package(files) == [manifest |-> Manifest(files), files |-> files, private |-> FALSE]

First  == [n \in {"a", "b"} |-> "x"]
Second == [n \in {"a", "b"} |-> IF n = "a" THEN "x" ELSE "y"]
Third  == [n \in {"b", "c"} |-> "y"]
Private == [Package(Third) EXCEPT !.private = TRUE]
Built == {Package(First), Package(Second), Package(Third), Private,
          [Package(First) EXCEPT !.files = [n \in {"a"} |-> "x"]],
          [Package(First) EXCEPT !.manifest.pin = "sample"]}

Staging == INSTANCE ProductionIntake WITH
    Stagers <- One, Names <- {"a", "b", "c"}, Contents <- {"x", "y"}, Packages <- Built,
    Minimum <- 2, MaxRebuilds <- 2, MaxCrashes <- 2,
    reviews <- tree, running <- staging, crashes <- deaths
ASSUME StagingAssumption == Staging!IntakeAssumption

-----------------------------------------------------------------------------
(* Import of exports: two share a concern, one is without concerns. *)

Exports   == {{"a", "b"}, {"b"}, {}}
Importers == {"i"}
Uploaders == {"u"}

Import == INSTANCE LiveImport WITH
    Texts <- {"t1"}, Medias <- {"text/markdown"}, TextMedia <- "text/markdown",
    ExportMedia <- "application/json", Ids <- {""}, Versions <- {"1.0.0"},
    MaxRewrites <- 2, MaxCrashes <- 2, MaxUploads <- 1, cases <- registered
ASSUME ImportAssumption == Import!ImportAssumption

-----------------------------------------------------------------------------
review == <<artifacts, cases, concernIndex, grants, tasks, submissions, determinations,
            credits, appeals, standing, clock>>
queue  == <<artifactsQ, casesQ, concernIndexQ, grantsQ, tasksQ, submissionsQ, determinationsQ,
            creditsQ, appealsQ, standingQ, clockQ>>
claims == <<intakes, seeded, claimTasks, reconstructions, outcomes, qualified, reviews>>
staged == <<package, manifest, tree, staging, told, rebuilds, deaths>>
import == <<export, text, objects, rows, registered, links, running, rewrites, crashes, uploads>>

vars == <<part, review, queue, claims, staged, import>>

(* The parts that rest have one initial state. *)
Init ==
    /\ part \in Parts
    /\ Review!Init /\ Queue!Init /\ Claims!Init /\ Staging!Init /\ Import!Init
    /\ part = "staging" \/ package = Private
    /\ part = "import" \/ export = {}

Rest(p, partVars) == IF part = p THEN TRUE ELSE UNCHANGED partVars

Of(p) ==
    /\ part = p /\ UNCHANGED part
    /\ Rest("review", review) /\ Rest("queue", queue) /\ Rest("claims", claims)
    /\ Rest("staging", staged) /\ Rest("import", import)

Next ==
    \/ Of("review") /\ Review!Next
    \/ Of("queue") /\ Queue!Next
    \/ Of("claims") /\ Claims!Next
    \/ Of("staging") /\ Staging!Next
    \/ Of("import") /\ Import!Next

(* The fairness of each module, while its part runs: reviewers and experts who
   can work eventually do, a command runs on and is started again.  Nothing
   is owed by managers, the clock, or whoever rebuilds a package.           *)
Fairness ==
    /\ WF_vars(Of("review") /\ \E a \in Three : Review!ClaimTask(a))
    /\ WF_vars(Of("review") /\ \E a \in Three : Review!Submit(a))
    /\ WF_vars(Of("queue") /\ \E a \in Two : Queue!ClaimTask(a))
    /\ WF_vars(Of("queue") /\ \E a \in Two : Queue!Submit(a))
    /\ WF_vars(Of("claims") /\ Claims!Claims)
    /\ WF_vars(Of("claims") /\ Claims!Submits)
    /\ WF_vars(Of("staging") /\ Staging!Begin(1))
    /\ WF_vars(Of("staging") /\ Staging!Step(1))
    /\ WF_vars(Of("import") /\ Import!Build("i"))
    /\ WF_vars(Of("import") /\ Import!Import("i"))

FairSpec == Init /\ [][Next]_vars /\ Fairness

-----------------------------------------------------------------------------
(* A concern whose review is open is eventually decided, unless a revocation,
   a lapse or an expiry disturbs it: with disagreement and tie-breaks, and with
   two concerns that share their reviewers, so that no order of the claim queue
   strands one.                                                             *)
EventuallyDecided == Review!EventuallyDecided /\ Queue!EventuallyDecided

(* An accepted intake is eventually reconstructed twice, unless its acceptance
   is withdrawn.                                                            *)
EventuallyReconstructed == Claims!EventuallyReconstructed

(* Commands recover by being repeated.  Once the package stays complete, staging it
   again ends with a ready tree, whatever died or was half copied before; once
   the export stays one with concerns, importing it again registers a case,
   whatever crashed or was uploaded beside it.                              *)
CommandsRecover == Staging!Recovers /\ Import!RetriesRegister
=============================================================================
