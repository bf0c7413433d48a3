---------------------------- MODULE Adjudication ----------------------------
(***************************************************************************)
(* The registry's adjudication core, opencritique_registry/service.py: case*)
(* registration, use grants, review tasks, submissions, determinations and *)
(* appeal records.  One action is one request, run as the one database     *)
(* transaction auth.get_session gives it; a request that is refused (an    *)
(* HTTPException) rolls back and is therefore no step at all.  Interleaved *)
(* transactions are the subject of AdjudicationTx.                         *)
(***************************************************************************)
EXTENDS Determination

CONSTANTS
    Cases,          \* case versions: (case_id, case_version) pairs
    Concerns,       \* concern ids, numbered in their sort order
    Adjudicators,
    Domains,
    Artifacts,      \* content hashes
    Bundles,        \* the case bundles that may be submitted for registration
    DomainOf,       \* domain profile of the manuscript version a concern is about
    Calibrated,     \* domains with an active calibration set
    Conflicted,     \* <<adjudicator, concern>>: conflicts declared disqualifying
    Inputs,         \* what adjudicators may submit
    GrantInputs,    \* the grants managers may record
    MaxGrants, MaxAppeals,
    Nobody, NoCase

TaskIds == [case : Cases, concern : Concerns, slot : Slots]

Bundle == [case : Cases, digest : Nat, concerns : SUBSET Concerns,
           severe : SUBSET Concerns, artifacts : SUBSET Artifacts]

Input == [validity : Validities, severity : Severities,
          grounded : BOOLEAN,       \* cites known evidence or asks for follow-up
          counterposed : BOOLEAN]   \* has a counterposition assessment

(* The data uses the adjudication path asks about. *)
ExpertUse == "expert_adjudication"
PublicUse == "public_release"
Uses      == {ExpertUse, PublicUse}

(* expires_at: unset, still ahead, or behind the clock. *)
Expiries   == {"never", "ahead", "behind"}
GrantInput == [use : Uses, expiry : Expiries]

ASSUME ConstantsAssumption ==
    /\ Concerns \subseteq Nat
    /\ Bundles \subseteq Bundle
    /\ DomainOf \in [Concerns -> Domains]
    /\ Calibrated \subseteq Domains
    /\ Conflicted \subseteq Adjudicators \X Concerns
    /\ Inputs \subseteq Input
    /\ GrantInputs \subseteq GrantInput
    /\ MaxGrants \in Nat /\ MaxAppeals \in Nat
    /\ Nobody \notin Adjudicators
    /\ NoCase \notin Cases

Grant == [case : Cases, use : Uses, status : {"active", "revoked"},
          expiry : Expiries]

TaskStatus == {"absent", "pending", "claimed", "completed", "cancelled"}
Task == [status : TaskStatus, assignee : Adjudicators \cup {Nobody}, born : Nat]

Submission == [slot : Slots, validity : Validities, severity : Severities,
               case : Cases, adjudicator : Adjudicators]

(* `covers' is how many rows the stored submission_ids name. *)
DeterminationRow == [case : Cases, covers : Nat, result : PolicyResult]

AppealRow == [concern : Concerns, determination : Nat, predecessor : Nat]

VARIABLES
    artifacts,      \* artifacts table
    cases,          \* cases table, as the set of registered bundles
    concernIndex,   \* concern_index table: concern_id (its primary key) -> case
    grants,         \* use_grants table, by created_at
    tasks,          \* adjudication_tasks table, by its unique (case, concern, slot)
    submissions,    \* adjudication_submissions of each concern, by created_at
    determinations, \* determinations of each concern, by created_at
    credits,        \* contribution_credits: <<actor, task>>
    appeals,        \* appeal_records table, by created_at
    standing,       \* the expert_qualifications row, if any, by <<adjudicator, domain>>
    clock           \* transactions that stamped created_at on tasks or submissions

reviewVars == <<tasks, submissions, determinations, credits, clock>>
vars == <<artifacts, cases, concernIndex, grants, tasks, submissions,
          determinations, credits, appeals, standing, clock>>

(* No active row, an active row, an active row past its expires_at. *)
Standing == {"none", "active", "lapsed"}

NoTask == [status |-> "absent", assignee |-> Nobody, born |-> 0]

Init ==
    /\ artifacts = {}
    /\ cases = {}
    /\ concernIndex = [k \in Concerns |-> NoCase]
    /\ grants = <<>>
    /\ tasks = [t \in TaskIds |-> NoTask]
    /\ submissions = [k \in Concerns |-> <<>>]
    /\ determinations = [k \in Concerns |-> <<>>]
    /\ credits = {}
    /\ appeals = <<>>
    /\ standing = [q \in Adjudicators \X Domains |-> "none"]
    /\ clock = 0

-----------------------------------------------------------------------------
(* Rights: active_grant and require_use_grant *)

(* A variant that forgets to ask for the use. *)
AnyActiveGrant(gs, c, use) ==
    \E i \in DOMAIN gs : /\ gs[i].case = c
                         /\ gs[i].status = "active"
                         /\ gs[i].expiry # "behind"

ActiveGrant(gs, c, use) ==
    \E i \in DOMAIN gs : /\ gs[i].case = c /\ gs[i].use = use
                         /\ gs[i].status = "active"
                         /\ gs[i].expiry # "behind"

Authorised(c) == ActiveGrant(grants, c, ExpertUse)

Issue(c, g) == [case |-> c, use |-> g.use, status |-> "active", expiry |-> g.expiry]

RegisteredCase(c) == \E b \in cases : b.case = c

AddGrant(c, g) ==
    /\ Len(grants) < MaxGrants
    /\ RegisteredCase(c)
    /\ grants' = Append(grants, Issue(c, g))
    /\ UNCHANGED <<artifacts, cases, concernIndex, reviewVars, appeals, standing>>

(* A variant that takes finished tasks for open ones. *)
OpenOrDone(t) == tasks[t].status \in {"pending", "claimed", "completed"}

Open(t) == tasks[t].status \in {"pending", "claimed"}

RevokeGrant(i) ==
    /\ grants[i].status = "active"
    /\ LET gs == [grants EXCEPT ![i].status = "revoked"]
           c  == grants[i].case
           stop == grants[i].use = ExpertUse /\ ~ActiveGrant(gs, c, ExpertUse)
       IN  /\ grants' = gs
           /\ tasks' = [t \in TaskIds |->
                          IF stop /\ t.case = c /\ Open(t)
                            THEN [tasks[t] EXCEPT !.status = "cancelled"]
                            ELSE tasks[t]]
    /\ UNCHANGED <<artifacts, cases, concernIndex, submissions, determinations,
                   credits, appeals, standing, clock>>

(* The wall clock passes expires_at; no code runs, the row keeps its status. *)
GrantLapses(i) ==
    /\ grants[i].expiry = "ahead"
    /\ grants' = [grants EXCEPT ![i].expiry = "behind"]
    /\ UNCHANGED <<artifacts, cases, concernIndex, reviewVars, appeals, standing>>

-----------------------------------------------------------------------------
(* Registration *)

PutArtifact(x) ==
    /\ x \notin artifacts
    /\ artifacts' = artifacts \cup {x}
    /\ UNCHANGED <<cases, concernIndex, grants, reviewVars, appeals, standing>>

(* concern_index has concern_id alone as its primary key.  The variant upserts. *)
MergedIndex(K) == TRUE
Unindexed(K)   == \A k \in K : concernIndex[k] = NoCase

(* The same (id, version) is answered from the stored row or refused; a concern
   id already indexed breaks the primary key and rolls the registration back.  *)
RegisterCase(b, gs) ==
    /\ ~RegisteredCase(b.case)
    /\ b.artifacts \subseteq artifacts
    /\ Unindexed(b.concerns)
    /\ Len(grants) + Len(gs) <= MaxGrants
    /\ cases' = cases \cup {b}
    /\ concernIndex' = [k \in Concerns |->
                          IF k \in b.concerns THEN b.case ELSE concernIndex[k]]
    /\ grants' = grants \o [i \in DOMAIN gs |-> Issue(b.case, gs[i])]
    /\ UNCHANGED <<artifacts, reviewVars, appeals, standing>>

-----------------------------------------------------------------------------
(* Tasks *)

Pending == [status |-> "pending", assignee |-> Nobody, born |-> clock]

(* Existing tasks, cancelled ones included, are returned as they are. *)
SeedTasks(c, K) ==
    /\ Authorised(c)
    /\ \E b \in cases : b.case = c /\ K \subseteq b.concerns
    /\ LET new == {t \in TaskIds : /\ t.case = c /\ t.concern \in K
                                   /\ t.slot \in PrimarySlots
                                   /\ tasks[t].status = "absent"}
       IN  /\ new # {}
           /\ tasks' = [t \in TaskIds |-> IF t \in new THEN Pending ELSE tasks[t]]
    /\ clock' = clock + 1
    /\ UNCHANGED <<artifacts, cases, concernIndex, grants, submissions,
                   determinations, credits, appeals, standing>>

(* _adjudicator_is_qualified *)
Qualified(a, d) == d \in Calibrated => standing[<<a, d>>] = "active"

Held(t) == tasks[t].status \in {"claimed", "completed"}

(* Variant: only finished siblings count. *)
BlockedByFinished(a, t) ==
    \E u \in TaskIds \ {t} : /\ u.concern = t.concern /\ tasks[u].assignee = a
                             /\ tasks[u].status = "completed"
(* blocks_duplicate_primary, over the siblings claim_task reads by concern *)
Blocked(a, t) ==
    \E u \in TaskIds \ {t} : u.concern = t.concern /\ tasks[u].assignee = a /\ Held(u)

Eligible(a, t) ==
    /\ tasks[t].status = "pending"
    /\ Authorised(t.case)
    /\ Qualified(a, DomainOf[t.concern])
    /\ ~Blocked(a, t)

(* ORDER BY created_at, slot: the rows of one transaction follow the loops of
   seed_tasks, sorted concern ids and then slots.                            *)
SlotRank == [s \in Slots |-> CASE s = Primary -> 0 [] s = Secondary -> 1
                               [] s = TieBreak -> 2]
Older(t, u) ==
    \/ tasks[t].born < tasks[u].born
    \/ tasks[t].born = tasks[u].born /\ t.concern < u.concern
    \/ /\ tasks[t].born = tasks[u].born /\ t.concern = u.concern
       /\ SlotRank[t.slot] < SlotRank[u.slot]

(* A row found past its expires_at on the way to t gets the status expired; when no
   task is eligible the 404 rolls that back too.                                   *)
LookedAt(d, t) ==
    \E u \in TaskIds : /\ DomainOf[u.concern] = d
                       /\ tasks[u].status = "pending" /\ Authorised(u.case) /\ ~Older(t, u)
Expired(a, t) ==
    [q \in Adjudicators \X Domains |->
        IF q[1] = a /\ q[2] \in Calibrated /\ standing[q] = "lapsed" /\ LookedAt(q[2], t)
          THEN "none" ELSE standing[q]]

ClaimTask(a) ==
    \E t \in TaskIds :
        /\ Eligible(a, t)
        /\ \A u \in TaskIds : Eligible(a, u) => ~Older(u, t)
        /\ tasks' = [tasks EXCEPT ![t] = [@ EXCEPT !.status = "claimed", !.assignee = a]]
        /\ standing' = Expired(a, t)
        /\ UNCHANGED <<artifacts, cases, concernIndex, grants, submissions,
                       determinations, credits, appeals, clock>>

-----------------------------------------------------------------------------
(* Submission and the determination it recomputes *)

(* The 422 and 409 answers of submit_adjudication.  Declarations are truthful:
   a conflicted adjudicator declares the conflict every time.                *)
Severe(t) == \E b \in cases : b.case = t.case /\ t.concern \in b.severe
Acceptable(a, t, in) ==
    /\ in.grounded
    /\ Severe(t) => in.counterposed
    /\ <<a, t.concern>> \notin Conflicted

Row(a, t, in) == [slot |-> t.slot, validity |-> in.validity,
                  severity |-> in.severity, case |-> t.case, adjudicator |-> a]

TieTask(t) == [t EXCEPT !.slot = TieBreak]

(* _recompute_determination: the row it adds.  The variant reads the submissions
   without the flush that makes the new one visible (autoflush is off).         *)
RecomputedUnflushed(t, rows) ==
    LET seen == SubSeq(rows, 1, Len(rows) - 1)
    IN  [case |-> t.case, covers |-> Len(seen), result |-> Determine(seen)]
Recomputed(t, rows) ==
    [case |-> t.case, covers |-> Len(rows), result |-> Determine(rows)]

(* ... and the task it opens.  Variants: while under review; on severity alone. *)
OpensWhileWaiting(u, t, result) ==
    u = TieTask(t) /\ result.status = UnderReview /\ tasks[u].status = "absent"
OpensOnSeverity(u, t, result) ==
    /\ u = TieTask(t) /\ result.tieBreak /\ result.severity = NoSeverity
    /\ tasks[u].status = "absent"
Opens(u, t, result) ==
    u = TieTask(t) /\ result.tieBreak /\ tasks[u].status = "absent"

SubmitAdjudication(a, t, in) ==
    LET k    == t.concern
        rows == Append(submissions[k], Row(a, t, in))
        det  == Recomputed(t, rows)
    IN  /\ tasks[t].assignee = a
        /\ tasks[t].status = "claimed"
        /\ Authorised(t.case)
        /\ Acceptable(a, t, in)
        /\ submissions' = [submissions EXCEPT ![k] = rows]
        /\ credits' = credits \cup {<<a, t>>}
        /\ determinations' = [determinations EXCEPT ![k] = Append(@, det)]
        /\ tasks' = [u \in TaskIds |->
                       IF u = t THEN [tasks[u] EXCEPT !.status = "completed"]
                       ELSE IF Opens(u, t, det.result) THEN Pending
                       ELSE tasks[u]]
        /\ clock' = clock + 1
        /\ UNCHANGED <<artifacts, cases, concernIndex, grants, appeals, standing>>

-----------------------------------------------------------------------------
(* Appeal and correction records *)

(* A variant that accepts any record as predecessor. *)
CreateAppealUnchecked(k, d, p) ==
    /\ Len(appeals) < MaxAppeals
    /\ d \in DOMAIN determinations[k]
    /\ p # 0 => p \in DOMAIN appeals
    /\ appeals' = Append(appeals, [concern |-> k, determination |-> d, predecessor |-> p])
    /\ UNCHANGED <<artifacts, cases, concernIndex, grants, reviewVars, standing>>

CreateAppealRecord(k, d, p) ==
    /\ Len(appeals) < MaxAppeals
    /\ d \in DOMAIN determinations[k]
    /\ p # 0 => p \in DOMAIN appeals /\ appeals[p].concern = k
    /\ appeals' = Append(appeals, [concern |-> k, determination |-> d, predecessor |-> p])
    /\ UNCHANGED <<artifacts, cases, concernIndex, grants, reviewVars, standing>>

-----------------------------------------------------------------------------
(* Qualifications come and go with calibration and the clock.  A passed calibration
   adds a row unless one is active, be it expired or not.                          *)

Qualify(a, d) ==
    /\ d \in Calibrated
    /\ standing[<<a, d>>] = "none"
    /\ standing' = [standing EXCEPT ![<<a, d>>] = "active"]
    /\ UNCHANGED <<artifacts, cases, concernIndex, grants, reviewVars, appeals>>

QualificationLapses(a, d) ==
    /\ standing[<<a, d>>] = "active"
    /\ standing' = [standing EXCEPT ![<<a, d>>] = "lapsed"]
    /\ UNCHANGED <<artifacts, cases, concernIndex, grants, reviewVars, appeals>>

-----------------------------------------------------------------------------
(* Reads: what a request may show an adjudicator *)

(* can_read_case for the adjudicator role, with a concern_id *)
CanReadConcern(a, k) ==
    \E t \in TaskIds : t.concern = k /\ tasks[t].assignee = a /\ Held(t)

(* task_payload: the holder of a task, whatever its status, may fetch it; a
   tie-break payload carries the primary decisions; in the variant all do. *)
AllPriorViews(t) == PrimaryRows(submissions[t.concern])

PriorViews(t) ==
    IF t.slot = TieBreak THEN PrimaryRows(submissions[t.concern]) ELSE {}

PriorsShown(a, k) ==
    UNION {PriorViews(t) : t \in {u \in TaskIds : u.concern = k /\ tasks[u].assignee = a}}

(* latest_determination *)
Latest(k) == determinations[k][Len(determinations[k])]

-----------------------------------------------------------------------------
Registration ==
    \/ \E x \in Artifacts : PutArtifact(x)
    \/ \E b \in Bundles, n \in 0 .. MaxGrants :
         \E gs \in [1 .. n -> GrantInputs] : RegisterCase(b, gs)

Rights ==
    \/ \E c \in Cases, g \in GrantInputs : AddGrant(c, g)
    \/ \E i \in DOMAIN grants : RevokeGrant(i) \/ GrantLapses(i)

Submit(a) == \E t \in TaskIds, in \in Inputs : SubmitAdjudication(a, t, in)

Review ==
    \/ \E c \in Cases, K \in SUBSET Concerns : SeedTasks(c, K)
    \/ \E a \in Adjudicators : ClaimTask(a) \/ Submit(a)

Appeal == \E k \in Concerns, p \in 0 .. MaxAppeals :
             \E d \in DOMAIN determinations[k] : CreateAppealRecord(k, d, p)

Qualification == \E a \in Adjudicators, d \in Domains :
                    Qualify(a, d) \/ QualificationLapses(a, d)

Next == Registration \/ Rights \/ Review \/ Appeal \/ Qualification

Spec == Init /\ [][Next]_vars

(* As long as somebody may claim a task, somebody eventually does, and likewise
   for submitting one; managers, the clock and calibration owe nothing.       *)
Fairness == /\ WF_vars(\E a \in Adjudicators : ClaimTask(a))
            /\ WF_vars(\E a \in Adjudicators : Submit(a))

FairSpec == Spec /\ Fairness

-----------------------------------------------------------------------------
(* Properties *)

(* The tables hold well-formed rows. *)
TypeOK ==
    /\ artifacts \subseteq Artifacts
    /\ cases \subseteq Bundles
    /\ concernIndex \in [Concerns -> Cases \cup {NoCase}]
    /\ grants \in Seq(Grant)
    /\ tasks \in [TaskIds -> Task]
    /\ submissions \in [Concerns -> Seq(Submission)]
    /\ determinations \in [Concerns -> Seq(DeterminationRow)]
    /\ credits \subseteq Adjudicators \X TaskIds
    /\ appeals \in Seq(AppealRow)
    /\ standing \in [Adjudicators \X Domains -> Standing]
    /\ clock \in Nat

(* Nobody reviews a concern twice: two tasks of one concern that are claimed or
   completed belong to different people, and so do any two stored adjudications
   of it, whatever was cancelled, re-granted and claimed again in between
   (claim_task and blocks_duplicate_primary).                                  *)
IndependentReviewers ==
    /\ \A t, u \in TaskIds :
         t # u /\ t.concern = u.concern /\ Held(t) /\ Held(u)
           => tasks[t].assignee # tasks[u].assignee
    /\ \A k \in Concerns : \A i, j \in DOMAIN submissions[k] :
         i # j => submissions[k][i].adjudicator # submissions[k][j].adjudicator

(* The newest determination is the policy's answer to all the adjudications of
   the concern, never to an older set of them (_recompute_determination).      *)
DeterminationsCurrent ==
    \A k \in Concerns :
        IF submissions[k] = <<>>
          THEN determinations[k] = <<>>
          ELSE /\ determinations[k] # <<>>
               /\ Latest(k).covers = Len(submissions[k])
               /\ Latest(k).result = Determine(submissions[k])

(* Work, its record and its credit go together: a task is completed exactly when
   one adjudication of its slot by its assignee is stored, and exactly its
   assignee is credited with it (submit_adjudication, revoke_grant).           *)
RowOf(t, i) ==
    /\ i \in DOMAIN submissions[t.concern]
    /\ LET row == submissions[t.concern][i] IN
         row.slot = t.slot /\ row.case = t.case /\ row.adjudicator = tasks[t].assignee
WorkIsRecordedOnce ==
    /\ \A t \in TaskIds :
         /\ tasks[t].status = "completed" <=> \E i \in DOMAIN submissions[t.concern] : RowOf(t, i)
         /\ \A a \in Adjudicators :
              <<a, t>> \in credits <=> tasks[t].status = "completed" /\ tasks[t].assignee = a
    /\ \A k \in Concerns : \A i, j \in DOMAIN submissions[k] :
         submissions[k][i].slot = submissions[k][j].slot => i = j

(* A tie-break is asked for when, and only when, two finished primaries disagree:
   the task exists only beside two completed primary tasks of its concern, and a
   newest determination that requires it never lacks one.                      *)
TieBreakWhenContested ==
    /\ \A t \in TaskIds :
         t.slot = TieBreak /\ tasks[t].status # "absent" =>
             \A s \in PrimarySlots : tasks[[t EXCEPT !.slot = s]].status = "completed"
    /\ \A k \in Concerns :
         determinations[k] # <<>> /\ Latest(k).result.tieBreak =>
             \E t \in TaskIds : /\ t.concern = k /\ t.slot = TieBreak
                                /\ tasks[t].status # "absent"

(* No expert works on a settled question: once the newest determination decides
   a concern, none of its tasks is pending or claimed.                         *)
DecidedK(k) == /\ determinations[k] # <<>>
               /\ Latest(k).result.status # UnderReview
SettledMeansDone ==
    \A t \in TaskIds : DecidedK(t.concern) => ~Open(t)

(* Revoking the last live authorisation stops the work at once: a task is pending
   or claimed only while its case has an expert grant that was not revoked.     *)
OpenWorkIsBacked ==
    \A t \in TaskIds : Open(t) =>
        \E i \in DOMAIN grants : /\ grants[i].case = t.case
                                 /\ grants[i].use = ExpertUse
                                 /\ grants[i].status = "active"

(* A concern id stays with the case version that first registered it: no task,
   adjudication or determination of it ever belongs to another one, although
   siblings, submissions and determinations are looked up by concern id alone. *)
ConcernKeepsItsCase ==
    /\ \A t \in TaskIds :
         tasks[t].status # "absent" => concernIndex[t.concern] = t.case
    /\ \A k \in Concerns :
         /\ \A i \in DOMAIN submissions[k] : submissions[k][i].case = concernIndex[k]
         /\ \A i \in DOMAIN determinations[k] : determinations[k][i].case = concernIndex[k]

(* Blinding: whoever still owes a primary or secondary review can learn nothing
   of anyone else's decision, neither from a task payload they may fetch nor
   from the determination they may read.                                       *)
BlindUntilSubmitted ==
    \A t \in TaskIds, a \in Adjudicators :
        /\ t.slot \in PrimarySlots
        /\ tasks[t].status = "claimed" /\ tasks[t].assignee = a
        =>  /\ PriorsShown(a, t.concern) = {}
            /\ CanReadConcern(a, t.concern) /\ determinations[t.concern] # <<>>
                 => Latest(t.concern).result = Waiting

(* Appeal records name a determination of their concern and older records of the
   same concern only, so that every chain of predecessors ends (ADR-0004).     *)
AppealsTraceable ==
    \A i \in DOMAIN appeals :
        /\ appeals[i].determination \in DOMAIN determinations[appeals[i].concern]
        /\ appeals[i].predecessor # 0 =>
             /\ appeals[i].predecessor < i
             /\ appeals[appeals[i].predecessor].concern = appeals[i].concern

(* What conformance.audit_registry asks of a task (_check_task_state): a submission
   to each completed one and to no other, a holder to each claimed one and to no
   pending one; and of a determination: its submissions, the tie-break it asks for. *)
Submitted(t) ==
    \E i \in DOMAIN submissions[t.concern] :
        /\ submissions[t.concern][i].slot = t.slot
        /\ submissions[t.concern][i].case = t.case
CheckTaskState(t) ==
    /\ tasks[t].status = "pending" => tasks[t].assignee = Nobody
    /\ tasks[t].status = "claimed" => tasks[t].assignee # Nobody
    /\ tasks[t].status = "completed" <=> Submitted(t)
CheckDetermination(k, row) ==
    /\ row.covers <= Len(submissions[k])
    /\ row.result.tieBreak =>
         \E t \in TaskIds : t.concern = k /\ t.slot = TieBreak /\ tasks[t].status # "absent"

(* The registry's own audit finds no fault in these tables after any request, with
   tasks or with determinations, old ones included.                             *)
AuditPasses ==
    /\ \A t \in TaskIds : CheckTaskState(t)
    /\ \A k \in Concerns : \A i \in DOMAIN determinations[k] :
         CheckDetermination(k, determinations[k][i])

(* A decision is never revised by what comes after it. *)
DecidedStaysDecided ==
    [][\A k \in Concerns : DecidedK(k) => DecidedK(k)' /\ Latest(k)'.result = Latest(k).result]_vars

(* ADR-0004, "never silently rewritten in place": adjudications, determinations
   and appeals are only ever appended to, and a completed task stays as it is.  *)
Extends(new, old) == Len(old) <= Len(new) /\ \A i \in DOMAIN old : new[i] = old[i]
OnlyAppended ==
    /\ \A k \in Concerns : /\ Extends(submissions'[k], submissions[k])
                           /\ Extends(determinations'[k], determinations[k])
    /\ Extends(appeals', appeals)
    /\ \A t \in TaskIds : tasks[t].status = "completed" => tasks'[t] = tasks[t]
HistoryIsAppendOnly == [][OnlyAppended]_vars

(* The registry keeps the promises of IndependentReview. *)
Panel == INSTANCE IndependentReview
           WITH Reviewers <- Adjudicators,
                phase  <- [t \in TaskIds |-> tasks[t].status],
                holder <- [t \in TaskIds |-> tasks[t].assignee]
RefinesReview == Panel!Spec

(* With enough unconflicted, qualified adjudicators who keep working, every seeded
   concern is decided: neither the oldest-first queue nor the rule that nobody
   reviews twice ever strands one.  What does strand one is a lost authorisation:
   while it is gone nothing may be claimed, and a slot that a revocation cancelled
   is never issued again, not even under a new grant (seed_tasks, service.py:476).*)
Seeded(k) == \E t \in TaskIds : t.concern = k /\ tasks[t].status # "absent"
Disturbed(k) == \/ ~Authorised(concernIndex[k])
                \/ \E t \in TaskIds : t.concern = k /\ tasks[t].status = "cancelled"
EventuallyDecided == \A k \in Concerns : Seeded(k) ~> (DecidedK(k) \/ Disturbed(k))

(* service.py:841 answers a disqualifying conflict with "requires reassignment",
   and docs/expert-program-ops.md plans it: the conflicted holder of a claimed
   task does not keep it for ever.                                              *)
ConflictLeadsToReassignment ==
    \A t \in TaskIds, a \in Adjudicators :
        (tasks[t].status = "claimed" /\ tasks[t].assignee = a /\ <<a, t.concern>> \in Conflicted)
            ~> (tasks[t].assignee # a \/ tasks[t].status # "claimed")

-----------------------------------------------------------------------------
(* The inductive strengthening of the invariants above that AdjudicationProofs
   uses.  Every registered bundle owns its concerns, and every stored row is the
   work of the completed task of its case, concern and slot.                   *)
BundlesIndexed == \A b \in cases : \A k \in b.concerns : concernIndex[k] = b.case

RowTask(k, i) == [case |-> submissions[k][i].case, concern |-> k,
                  slot |-> submissions[k][i].slot]
RowsAreWork ==
    \A k \in Concerns : \A i \in DOMAIN submissions[k] :
        /\ tasks[RowTask(k, i)].status = "completed"
        /\ tasks[RowTask(k, i)].assignee = submissions[k][i].adjudicator
        /\ \A j \in DOMAIN submissions[k] :
             submissions[k][i].slot = submissions[k][j].slot => i = j

DistinctHolders ==
    \A t, u \in TaskIds :
        t # u /\ t.concern = u.concern /\ Held(t) /\ Held(u)
          => tasks[t].assignee # tasks[u].assignee

(* A slot without a task has no holder either. *)
AbsentUnheld == \A t \in TaskIds : tasks[t].status = "absent" => tasks[t].assignee = Nobody

IInv == /\ TypeOK /\ BundlesIndexed /\ ConcernKeepsItsCase /\ AbsentUnheld
        /\ RowsAreWork /\ DistinctHolders /\ OpenWorkIsBacked
        /\ DeterminationsCurrent /\ TieBreakWhenContested
=============================================================================
