----------------------------- MODULE NovelReview -----------------------------
(***************************************************************************)
(* Concerns a reviewer raised that the reference set does not know: their  *)
(* queue, the blinded decisions on them, and the successor benchmarks and  *)
(* scorecards that a confirmed one gives rise to                           *)
(* (opencritique_registry/novel_service.py, its policy in                  *)
(* opencritique_evaluation/novel_determination.py).                        *)
(*                                                                         *)
(* The service has no route of its own; a request is a call inside one     *)
(* database transaction.  Neither claim_task nor submit_decision locks the *)
(* rows it reads, so each is a read step, which leaves its writes in       *)
(* `flight', and a commit step.                                            *)
(***************************************************************************)
EXTENDS Integers, Sequences, FiniteSetsExt

CONSTANTS
    Candidates,
    Experts,
    Opinions,       \* the decisions experts may submit: [validity, severity]
    Ratings,        \* the severities the reviewer may have given a candidate
    Cards,          \* public scorecards callers may present, see Card
    InFlight,       \* requests between their read and their commit
    Nobody

Reg == INSTANCE Determination      \* the policy for concerns of the registry itself

PrimarySlots == {"primary", "secondary"}
NovelSlots   == PrimarySlots \cup {"tie_break"}

(* Scorecards are named by a number, recomputed ones by their candidate too. *)
Card   == [id : (Candidates \cup {Nobody}) \X Nat, content : Nat, immutable : BOOLEAN]
NoCard == [id |-> <<Nobody, -1>>, content |-> -1, immutable |-> TRUE]

ConstantsAssumption ==
    /\ Opinions \subseteq [validity : Reg!Validities, severity : Reg!Severities]
    /\ Ratings \subseteq Reg!Severities
    /\ Cards \subseteq Card
    /\ \A card \in Cards : card.id[1] = Nobody      \* what callers present was not recomputed here
    /\ InFlight \in Nat
    /\ Nobody \notin Experts \cup Candidates

VARIABLES
    candidates,     \* novel_candidates: the state column and the immutable snapshot
    tasks,          \* novel_adjudication_tasks by <<candidate, slot>>
    decisions,      \* novel_adjudication_submissions of each candidate, by created_at
    determinations, \* novel_determinations, by created_at
    successors,     \* benchmark_versions created from a determination
    scorecards,     \* scorecard_records
    flight          \* requests that have read and not yet committed

vars == <<candidates, tasks, decisions, determinations, successors, scorecards, flight>>

TaskIds == Candidates \X NovelSlots
NoTask  == [status |-> "absent", holder |-> Nobody]
Absent  == [state |-> "absent", severity |-> -1]

Init ==
    /\ candidates = [c \in Candidates |-> Absent]
    /\ tasks = [t \in TaskIds |-> NoTask]
    /\ decisions = [c \in Candidates |-> << >>]
    /\ determinations = << >>
    /\ successors = {}
    /\ scorecards = {}
    /\ flight = {}

-----------------------------------------------------------------------------
(* The policy.  A decision row is [task, expert, validity, severity]. *)

RequiresTwoPrimaries(severity) == severity >= 3

ValidityFromTwo(left, right) ==
    IF left = right THEN [value |-> left, tie |-> FALSE]
    ELSE IF {left, right} = {"confirmed", "qualified"}
           THEN [value |-> "qualified", tie |-> FALSE]
           ELSE [value |-> "unresolved", tie |-> TRUE]

Gap(left, right) == IF left < right THEN right - left ELSE left - right
Lower(left, right) == IF left < right THEN left ELSE right

SeverityFromTwo(left, right) ==
    IF left = right THEN [value |-> left, tie |-> FALSE]
    ELSE IF 4 \notin {left, right} /\ Gap(left, right) <= 1
           THEN [value |-> Lower(left, right), tie |-> FALSE]
           ELSE [value |-> -1, tie |-> TRUE]

PrimaryRows(rows) == {k \in DOMAIN rows : rows[k].task[2] \in PrimarySlots}
TieRows(rows)     == {k \in DOMAIN rows : rows[k].task[2] = "tie_break"}

(* What determine_novel raises on: more rows of a kind than it knows, or one
   expert in two places.  The request fails as a whole.  It looks at tie-breaks
   only where one is required; elsewhere there are none.                   *)
AnyPanel(rows) == TRUE       \* variant: nobody looks

Acceptable(rows) ==
    LET p == PrimaryRows(rows)
        t == TieRows(rows)
    IN  /\ \A i, j, k \in p : i = j \/ i = k \/ j = k
        /\ \A i, k \in t : i = k
        /\ \A i, j \in p : i # j =>
              /\ rows[i].expert # rows[j].expert
              /\ \A k \in t : rows[k].expert # rows[i].expert

Settled(opinion) == [outcome |-> opinion.validity, severity |-> opinion.severity,
                     tieBreak |-> FALSE, final |-> TRUE]
Open(severity, tie) == [outcome |-> "unresolved", severity |-> severity,
                        tieBreak |-> tie, final |-> FALSE]

(* The two primaries, in the order in which they came. *)
Reconcile(left, right, rows) ==
    LET t == TieRows(rows)
        v == ValidityFromTwo(left.validity, right.validity)
        s == SeverityFromTwo(left.severity, right.severity)
    IN  IF ~(v.tie \/ s.tie) THEN Settled([validity |-> v.value, severity |-> s.value])
        ELSE IF t = {} THEN Open(s.value, TRUE)
        ELSE Settled(rows[Max(t)])

DetermineNovel(rows, two) ==
    LET p == PrimaryRows(rows)
        others == p \ {Min(p)}
    IN  IF p = {} THEN Open(-1, FALSE)
        ELSE IF others # {} THEN Reconcile(rows[Min(p)], rows[Min(others)], rows)
        ELSE IF ~two /\ TieRows(rows) = {} THEN Settled(rows[Min(p)])
        ELSE Open(-1, FALSE)

-----------------------------------------------------------------------------
(* Registering and queueing *)

(* A known scorecard, or benchmark version, is returned as it is.          *)
Registered(card, pred) ==
    IF \E s \in scorecards : s.card.id = card.id THEN scorecards
    ELSE scorecards \cup {[card |-> card, pred |-> pred]}

RegisterScorecard(card) ==
    /\ \A s \in scorecards : s.card.id = card.id => s.card.content = card.content
    /\ scorecards' = Registered(card, NoCard)
    /\ UNCHANGED <<candidates, tasks, decisions, determinations, successors, flight>>

SlotsFor(severity) == IF RequiresTwoPrimaries(severity) THEN PrimarySlots ELSE {"primary"}

(* `queue' gives the snapshot, of which the model keeps the severity, of each
   candidate in it.  One that is known with another snapshot refuses them all. *)
IngestQueue(queue, seed) ==
    LET new == {c \in DOMAIN queue : candidates[c] = Absent} IN
    /\ \A c \in DOMAIN queue \ new : candidates[c].severity = queue[c]
    /\ candidates' = [c \in Candidates |->
          IF c \in new THEN [state |-> "pending", severity |-> queue[c]] ELSE candidates[c]]
    /\ tasks' = [t \in TaskIds |->
          IF seed /\ t[1] \in new /\ t[2] \in SlotsFor(queue[t[1]])
            THEN [NoTask EXCEPT !.status = "pending"] ELSE tasks[t]]
    /\ UNCHANGED <<decisions, determinations, successors, scorecards, flight>>

-----------------------------------------------------------------------------
(* Claims *)

HasDecided(e, c) == \E k \in PrimaryRows(decisions[c]) : decisions[c][k].expert = e

ReadClaim(e, t) ==
    /\ Cardinality(flight) < InFlight
    /\ tasks[t].status = "pending"
    /\ ~ HasDecided(e, t[1])
    /\ flight' = flight \cup {[kind |-> "claim", task |-> t, expert |-> e]}
    /\ UNCHANGED <<candidates, tasks, decisions, determinations, successors, scorecards>>

CommitClaim(f) ==
    /\ f.kind = "claim"
    /\ tasks' = [tasks EXCEPT ![f.task] = [status |-> "claimed", holder |-> f.expert]]
    /\ flight' = flight \ {f}
    /\ UNCHANGED <<candidates, decisions, determinations, successors, scorecards>>

-----------------------------------------------------------------------------
(* Decisions *)

HasFinal(c) == \E k \in DOMAIN determinations :
    determinations[k].cand = c /\ determinations[k].result.final

(* The caller may present the scorecard the candidate came from, and the means
   to score it anew; only a confirmed candidate makes use of them.         *)
Admits(result, card) ==
    result.final /\ result.outcome = "confirmed" /\ card # NoCard

(* The decision and everything _recompute derives from it, as of this read.  *)
ReadDecision(e, t, opinion, card, rescore) ==
    LET row  == [task |-> t, expert |-> e, validity |-> opinion.validity, severity |-> opinion.severity]
        rows == Append(decisions[t[1]], row)
        result == DetermineNovel(rows, RequiresTwoPrimaries(candidates[t[1]].severity))
        admitted == Admits(result, card)
    IN  /\ Cardinality(flight) < InFlight
        /\ tasks[t].status = "claimed" /\ tasks[t].holder = e
        /\ ~ HasFinal(t[1])
        /\ Acceptable(rows)
        /\ admitted /\ rescore => card.immutable
        /\ flight' = flight \cup
             {[kind |-> "submit", task |-> t, row |-> row, rows |-> rows, result |-> result,
               card |-> IF admitted THEN card ELSE NoCard, rescore |-> rescore /\ admitted]}
        /\ UNCHANGED <<candidates, tasks, decisions, determinations, successors, scorecards>>

StateFrom(c, result) == IF result.final THEN result.outcome ELSE candidates[c].state

(* The version of a successor names its candidate, its row the determination
   (the next one) it was created from.                                     *)
Successor(c) == [cand |-> c, from |-> Len(determinations) + 1]
Recomputed(c, card) == [id |-> <<c, card.id[2]>>, content |-> card.content, immutable |-> TRUE]
Determination(f) == [cand |-> f.task[1], rows |-> f.rows, result |-> f.result, card |-> f.card]

(* A task has one submission (the unique key of the table). *)
CommitDecision(f) ==
    LET c   == f.task[1]
        tie == <<c, "tie_break">>
    IN  /\ f.kind = "submit"
        /\ \A k \in DOMAIN decisions[c] : decisions[c][k].task # f.task
        /\ decisions' = [decisions EXCEPT ![c] = Append(@, f.row)]
        /\ tasks' = [t \in TaskIds |->
              IF t = f.task THEN [tasks[t] EXCEPT !.status = "completed"]
              ELSE IF t = tie /\ f.result.tieBreak /\ tasks[t] = NoTask
                     THEN [NoTask EXCEPT !.status = "pending"] ELSE tasks[t]]
        /\ determinations' = Append(determinations, Determination(f))
        /\ candidates' = [candidates EXCEPT ![c].state = StateFrom(c, f.result)]
        /\ successors' = IF f.card = NoCard THEN successors ELSE successors \cup {Successor(c)}
        /\ scorecards' = IF f.rescore THEN Registered(Recomputed(c, f.card), f.card) ELSE scorecards
        /\ flight' = flight \ {f}

Abort(f) ==
    /\ flight' = flight \ {f}
    /\ UNCHANGED <<candidates, tasks, decisions, determinations, successors, scorecards>>

-----------------------------------------------------------------------------
Queues == UNION {[S -> Ratings] : S \in (SUBSET Candidates \ {{}})}

Next ==
    \/ \E card \in Cards : RegisterScorecard(card)
    \/ \E queue \in Queues, seed \in BOOLEAN : IngestQueue(queue, seed)
    \/ \E e \in Experts, t \in TaskIds :
          \/ ReadClaim(e, t)
          \/ \E o \in Opinions, card \in Cards \cup {NoCard}, rescore \in BOOLEAN :
                ReadDecision(e, t, o, card, rescore)
    \/ \E f \in flight : CommitClaim(f) \/ CommitDecision(f) \/ Abort(f)

Spec == Init /\ [][Next]_vars
-----------------------------------------------------------------------------
(* Properties *)

Row     == [task : TaskIds, expert : Experts, validity : Reg!Validities, severity : Reg!Severities]
Result  == [outcome : Reg!Validities, severity : Reg!Severities \cup {-1},
            tieBreak : BOOLEAN, final : BOOLEAN]

(* The tables are well formed. *)
TypeOK ==
    /\ candidates \in [Candidates -> {Absent} \cup
          [state : {"pending"} \cup Reg!Validities, severity : Ratings]]
    /\ tasks \in [TaskIds -> [status : {"absent", "pending", "claimed", "completed"},
                             holder : Experts \cup {Nobody}]]
    /\ decisions \in [Candidates -> Seq(Row)]
    /\ determinations \in Seq([cand : Candidates, rows : Seq(Row), result : Result,
                                card : Cards \cup {NoCard}])
    /\ successors \subseteq [cand : Candidates, from : DOMAIN determinations]
    /\ scorecards \subseteq [card : Card, pred : Cards \cup {NoCard}]

(* A candidate is settled once, by its last determination, and then nothing of
   it is left to do: no task is open and no other determination will follow
   ("candidate already has a finalized determination").                    *)
SettledOnce ==
    \A k \in DOMAIN determinations :
        determinations[k].result.final =>
            /\ \A t \in TaskIds : t[1] = determinations[k].cand =>
                  tasks[t].status \in {"absent", "completed"}
            /\ \A j \in DOMAIN determinations :
                  determinations[j].cand = determinations[k].cand => j <= k

(* What settles a major or critical candidate is decided by two experts, and a
   contested one by a third.                                               *)
SettledByIndependentExperts ==
    \A k \in DOMAIN determinations :
        LET d == determinations[k] IN
        d.result.final /\ RequiresTwoPrimaries(candidates[d.cand].severity) =>
            /\ Len(d.rows) >= 2
            /\ \A i, j \in DOMAIN d.rows : i # j => d.rows[i].expert # d.rows[j].expert

(* The policy for novel concerns is a second implementation of the one for the
   registry's own: on two primaries, with or without a tie-break, they reach
   the same outcome.                                                       *)
AsRegistered(rows) == [k \in DOMAIN rows |->
    [slot |-> rows[k].task[2], validity |-> rows[k].validity, severity |-> rows[k].severity]]

AgreesWithRegistry ==
    \A k \in DOMAIN determinations :
        LET d == determinations[k]
            r == Reg!Determine(AsRegistered(d.rows))
        IN  Len(d.rows) >= 2 =>
                /\ d.result.tieBreak = r.tieBreak
                /\ d.result.final = (r.status # Reg!UnderReview)
                /\ d.result.severity = r.severity
                /\ d.result.final => d.result.outcome = r.status

(* The state of a candidate is the outcome that settled it, or still pending. *)
StateIsOutcome ==
    \A c \in Candidates : candidates[c] # Absent =>
        IF HasFinal(c)
          THEN \E k \in DOMAIN determinations :
                  /\ determinations[k].cand = c /\ determinations[k].result.final
                  /\ candidates[c].state = determinations[k].result.outcome
          ELSE candidates[c].state = "pending"

(* Every successor benchmark comes from the determination that confirmed its
   candidate, and every recomputed scorecard cites the scorecard it replaces
   and belongs to such a successor.                                        *)
SuccessorsTraceable ==
    /\ \A s \in successors :
          LET d == determinations[s.from] IN
          d.cand = s.cand /\ d.result.final /\ d.result.outcome = "confirmed"
    /\ \A s \in scorecards : s.card.id[1] # Nobody =>
          /\ s.pred # NoCard /\ s.pred.immutable
          /\ \E u \in successors : u.cand = s.card.id[1] /\ determinations[u.from].card = s.pred

CheckTaskState(t) ==
    /\ tasks[t].status = "pending" => tasks[t].holder = Nobody
    /\ tasks[t].status = "claimed" => tasks[t].holder # Nobody
    /\ tasks[t].status = "completed" <=> \E k \in DOMAIN decisions[t[1]] : decisions[t[1]][k].task = t

CheckDetermination(d) ==
    /\ \A k \in DOMAIN d.rows :
          \E j \in DOMAIN decisions[d.cand] : decisions[d.cand][j] = d.rows[k]
    /\ d.result.final => decisions[d.cand] # << >>
    /\ d.result.tieBreak => tasks[<<d.cand, "tie_break">>].status # "absent"

(* The registry's audit (conformance._audit_novel_determinations) finds no fault:
   tasks, decisions and determinations name each other, a tie-break asked for
   has its task, and no candidate was settled twice with different outcomes. *)
AuditPasses ==
    /\ \A t \in TaskIds : CheckTaskState(t)
    /\ \A k \in DOMAIN determinations : CheckDetermination(determinations[k])
    /\ \A j, k \in DOMAIN determinations :
          /\ determinations[j].result.final /\ determinations[k].result.final
          /\ determinations[j].cand = determinations[k].cand
          => determinations[j].result.outcome = determinations[k].result.outcome
=============================================================================
