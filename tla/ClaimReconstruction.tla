------------------------- MODULE ClaimReconstruction -------------------------
(***************************************************************************)
(* Manuscripts submitted for intake, the two blind reconstructions of their*)
(* claims, and what a manager determines from them                         *)
(* (opencritique_registry/expert_service.py).  One action is one request;  *)
(* a refused request is no step.  Where qualification comes from is the    *)
(* subject of Calibration; credit and payment are that of ExpertLedger.    *)
(***************************************************************************)
EXTENDS Integers, Sequences, FiniteSets

CONSTANTS
    Experts,
    Contributors,
    Intakes,        \* what may be submitted for intake, see IntakeInput
    Domains,
    Calibrated,     \* domains with an active calibration set
    OwnerOf,        \* who uploaded the source artifact of an intake, or Nobody
    ClassOf,        \* the rights classification stored with that artifact
    MaxDeterminations,
    InFlight,       \* intake reviews between their read and their commit
    Nobody

Slots == {"primary", "secondary"}
Classes == {"public", "consented_private", "confidential", "restricted"}

IntakeInput == [id : Nat, by : Contributors, manager : BOOLEAN, domain : Domains,
                class : Classes, adjudication : BOOLEAN, release : BOOLEAN,
                redistribution : BOOLEAN]

ConstantsAssumption ==
    /\ Intakes \subseteq IntakeInput
    /\ Calibrated \subseteq Domains
    /\ MaxDeterminations \in Nat /\ InFlight \in Nat
    /\ Nobody \notin Experts \cup Contributors

VARIABLES
    intakes,        \* status in case_intakes, "absent" where there is no row
    seeded,         \* intakes in the order their tasks were created
    tasks,          \* claim_reconstruction_tasks by <<intake, slot>>
    submissions,    \* claim_reconstruction_submissions
    determinations, \* claim_reconstruction_determinations, by created_at
    qualified,      \* <<expert, domain>> with a qualification that counts now
    reviews         \* intake reviews that have read the row and not yet committed

vars == <<intakes, seeded, tasks, submissions, determinations, qualified, reviews>>

TaskIds == Intakes \X Slots
Task == [status : {"absent", "pending", "claimed", "completed"}, holder : Experts \cup {Nobody}]
NoTask == [status |-> "absent", holder |-> Nobody]

Init ==
    /\ intakes = [i \in Intakes |-> "absent"]
    /\ seeded = << >>
    /\ tasks = [t \in TaskIds |-> NoTask]
    /\ submissions = {}
    /\ determinations = << >>
    /\ qualified = {}
    /\ reviews = {}

-----------------------------------------------------------------------------
(* Intake *)

(* The declared uses agree with the declared rights. *)
Consistent(i) ==
    /\ i.release => i.redistribution
    /\ i.class \in {"confidential", "restricted"} => ~ i.redistribution

CreateIntake(i) ==
    /\ intakes[i] = "absent"
    /\ Consistent(i)
    /\ OwnerOf[i] # Nobody
    /\ i.manager \/ OwnerOf[i] = i.by
    /\ ClassOf[i] = i.class
    /\ intakes' = [intakes EXCEPT ![i] = "submitted"]
    /\ UNCHANGED <<seeded, tasks, submissions, determinations, qualified, reviews>>

Verdicts == {"accepted", "needs_changes", "rejected"}

(* Variant: a rejection can be reconsidered as well. *)
ReadReviewAny(i, verdict) ==
    /\ Cardinality(reviews) < InFlight
    /\ intakes[i] # "absent"
    /\ reviews' = reviews \cup {[intake |-> i, verdict |-> verdict]}
    /\ UNCHANGED <<intakes, seeded, tasks, submissions, determinations, qualified>>

(* Anything but a rejection may be reconsidered, work under way or not.  The
   row is not locked between this read and the update that commits.        *)
ReadReview(i, verdict) ==
    /\ Cardinality(reviews) < InFlight
    /\ intakes[i] \in {"submitted", "needs_changes", "accepted"}
    /\ reviews' = reviews \cup {[intake |-> i, verdict |-> verdict]}
    /\ UNCHANGED <<intakes, seeded, tasks, submissions, determinations, qualified>>

CommitReview(r) ==
    /\ intakes' = [intakes EXCEPT ![r.intake] = r.verdict]
    /\ reviews' = reviews \ {r}
    /\ UNCHANGED <<seeded, tasks, submissions, determinations, qualified>>

AbortReview(r) ==
    /\ reviews' = reviews \ {r}
    /\ UNCHANGED <<intakes, seeded, tasks, submissions, determinations, qualified>>

-----------------------------------------------------------------------------
(* Reconstruction *)

TasksOf(i) == {i} \X Slots

SeedClaimTasks(i) ==
    /\ intakes[i] = "accepted"
    /\ i.adjudication
    /\ \A t \in TasksOf(i) : tasks[t].status = "absent"
    /\ tasks' = [t \in TaskIds |-> IF t[1] = i THEN [NoTask EXCEPT !.status = "pending"] ELSE tasks[t]]
    /\ seeded' = Append(seeded, i)
    /\ UNCHANGED <<intakes, submissions, determinations, qualified, reviews>>

Qualified(e, d) == d \in Calibrated => <<e, d>> \in qualified

Taken(t) == tasks[t].status \in {"claimed", "completed"}

(* Variants: work on another intake counts; a finished sibling is forgotten. *)
HoldsAny(e, t) == \E u \in TaskIds \ {t} : Taken(u) /\ tasks[u].holder = e

HoldsOpenSibling(e, t) ==
    \E u \in TasksOf(t[1]) \ {t} : tasks[u].status = "claimed" /\ tasks[u].holder = e

HoldsSibling(e, t) == \E u \in TasksOf(t[1]) \ {t} : Taken(u) /\ tasks[u].holder = e

Eligible(e, t) ==
    /\ tasks[t].status = "pending"
    /\ intakes[t[1]] = "accepted"
    /\ Qualified(e, t[1].domain)
    /\ ~ HoldsSibling(e, t)

(* created_at, then slot. *)
Place(i) == CHOOSE k \in DOMAIN seeded : seeded[k] = i
Before(u, t) == \/ Place(u[1]) < Place(t[1])
                \/ u[1] = t[1] /\ u[2] = "primary" /\ t[2] = "secondary"

ClaimClaimTask(e, t) ==
    /\ Eligible(e, t)
    /\ \A u \in TaskIds : Eligible(e, u) /\ u # t => Before(t, u)
    /\ tasks' = [tasks EXCEPT ![t] = [status |-> "claimed", holder |-> e]]
    /\ UNCHANGED <<intakes, seeded, submissions, determinations, qualified, reviews>>

(* The holder answers, whatever has become of the intake since. *)
SubmitClaimReconstruction(e, t) ==
    /\ tasks[t].status = "claimed" /\ tasks[t].holder = e
    /\ tasks' = [tasks EXCEPT ![t].status = "completed"]
    /\ submissions' = submissions \cup {[task |-> t, expert |-> e]}
    /\ UNCHANGED <<intakes, seeded, determinations, qualified, reviews>>

SubmissionsOn(i) == {s \in submissions : s.task[1] = i}

Outcomes == {"accepted", "needs_tie_break", "unresolved", "rejected"}

DetermineClaim(i, outcome, chosen) ==
    /\ Len(determinations) < MaxDeterminations
    /\ intakes[i] # "absent"
    /\ chosen \subseteq SubmissionsOn(i)
    /\ Cardinality(SubmissionsOn(i)) >= 2 \/ outcome = "unresolved"
    /\ determinations' = Append(determinations, [intake |-> i, outcome |-> outcome, chosen |-> chosen])
    /\ UNCHANGED <<intakes, seeded, tasks, submissions, qualified, reviews>>

-----------------------------------------------------------------------------
(* Qualification, as far as claims can see it *)

StandingChanges(e, d) ==
    /\ d \in Calibrated
    /\ qualified' = IF <<e, d>> \in qualified THEN qualified \ {<<e, d>>} ELSE qualified \cup {<<e, d>>}
    /\ UNCHANGED <<intakes, seeded, tasks, submissions, determinations, reviews>>

-----------------------------------------------------------------------------
IntakeRequests ==
    \/ \E i \in Intakes :
          CreateIntake(i) \/ SeedClaimTasks(i) \/ \E v \in Verdicts : ReadReview(i, v)
    \/ \E r \in reviews : CommitReview(r) \/ AbortReview(r)

Claims  == \E e \in Experts, t \in TaskIds : ClaimClaimTask(e, t)
Submits == \E e \in Experts, t \in TaskIds : SubmitClaimReconstruction(e, t)

Determines == \E i \in Intakes, o \in Outcomes :
    \E chosen \in SUBSET SubmissionsOn(i) : DetermineClaim(i, o, chosen)

Next == \/ IntakeRequests \/ Claims \/ Submits \/ Determines
        \/ \E e \in Experts, d \in Domains : StandingChanges(e, d)

Spec == Init /\ [][Next]_vars

(* Experts who can work eventually do; nothing is said of managers. *)
FairSpec == Spec /\ WF_vars(Claims) /\ WF_vars(Submits)

-----------------------------------------------------------------------------
(* Properties *)

(* The tables are well formed. *)
TypeOK ==
    /\ intakes \in [Intakes -> {"absent", "submitted"} \cup Verdicts]
    /\ seeded \in Seq(Intakes)
    /\ tasks \in [TaskIds -> Task]
    /\ submissions \subseteq [task : TaskIds, expert : Experts]
    /\ determinations \in Seq([intake : Intakes, outcome : Outcomes, chosen : SUBSET submissions])
    /\ qualified \subseteq Experts \X Domains
    /\ reviews \subseteq [intake : Intakes, verdict : Verdicts]

(* A determination that settles or contests anything rests on reconstructions
   by two different experts, both of that intake; what it chose is among them. *)
DeterminationsRestOnTwoExperts ==
    \A k \in DOMAIN determinations :
        LET d == determinations[k] IN
        /\ d.chosen \subseteq SubmissionsOn(d.intake)
        /\ d.outcome # "unresolved" =>
              \E s, u \in SubmissionsOn(d.intake) : s.task # u.task /\ s.expert # u.expert

(* A completed task has exactly one submission, its holder's, and no other
   task has any.                                                           *)
WorkMatchesTask ==
    \A t \in TaskIds :
        {s.expert : s \in {x \in submissions : x.task = t}}
            = IF tasks[t].status = "completed" THEN {tasks[t].holder} ELSE {}

(* A rejected intake stays rejected (the service refuses to review it: "closed
   intake cannot be reviewed").                                            *)
ClosedStaysClosed ==
    [][\A i \in Intakes : intakes[i] = "rejected" => intakes'[i] = "rejected"]_vars

(* The two reconstructions are a review panel like the two primary reviews of
   a concern: no expert sits twice.                                        *)
Seat(t) == <<t.concern, t.slot>>
IsSeat(t) == t.slot \in Slots

Panel == INSTANCE IndependentReview WITH
    Cases <- {"claims"}, Concerns <- Intakes, Reviewers <- Experts,
    phase <- [t \in [case : {"claims"}, concern : Intakes, slot : Slots \cup {"tie_break"}] |->
                 IF IsSeat(t) THEN tasks[Seat(t)].status ELSE "absent"],
    holder <- [t \in [case : {"claims"}, concern : Intakes, slot : Slots \cup {"tie_break"}] |->
                 IF IsSeat(t) THEN tasks[Seat(t)].holder ELSE Nobody]

RefinesReview == Panel!Spec

(* Once its tasks exist, an intake is reconstructed twice, unless its
   acceptance is withdrawn: no order of the queue strands it.              *)
EventuallyReconstructed ==
    \A i \in Intakes :
        i \in {seeded[k] : k \in DOMAIN seeded} ~>
            \/ \A t \in TasksOf(i) : tasks[t].status = "completed"
            \/ intakes[i] # "accepted"
=============================================================================
