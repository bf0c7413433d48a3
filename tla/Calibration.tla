---------------------------- MODULE Calibration ----------------------------
(***************************************************************************)
(* The expert programme up to the point where it lets an expert work:      *)
(* profiles, calibration sets, attempts, qualifications and their expiry   *)
(* (opencritique_registry/expert_service.py, expert_policy.py).            *)
(*                                                                         *)
(* A submission is two steps, because what it decides (is the attempt      *)
(* finished, is there a qualification already) it reads from the committed *)
(* rows and its own before it commits.  InFlight = 1 is SQLite's single    *)
(* writer; more is PostgreSQL, where two submissions for different tasks   *)
(* lock nothing in common.                                                 *)
(***************************************************************************)
EXTENDS Integers, Sequences, FiniteSets, SequencesExt

CONSTANTS
    Experts,
    Domains,
    Refs,           \* the concerns calibration sets may refer to
    DomainOf,       \* domain profile of the manuscript version of each
    Adjudications,  \* the adjudications in the case bundle of each, in order
    SetInputs,      \* the calibration sets managers may create
    Answers,        \* what experts may submit
    Rated,          \* domains the qualification policy has a threshold for
    MaxAttempts,    \* bound on calibration_attempts
    InFlight,       \* submissions between their reads and their commit
    None            \* a task that is not answered

(* Severities are ranks, 4 is critical. *)
Severities == 0 .. 4
Critical   == 4
CalibrationSet == [domain : Domains, refs : Seq(Refs), minCases : Nat, passPercent : 0 .. 100,
                   maxFalseCritical : Nat, active : BOOLEAN]

ConstantsAssumption ==
    /\ DomainOf \in [Refs -> Domains]
    /\ \A r \in Refs : \A i \in 1 .. Len(Adjudications[r]) :
           Adjudications[r][i].severity \in Severities
    /\ SetInputs \subseteq CalibrationSet
    /\ \A s \in SetInputs : Len(s.refs) > 0 /\ s.minCases \in 1 .. Len(s.refs)
    /\ \A x \in Answers : x.severity \in Severities
    /\ Rated \subseteq Domains
    /\ MaxAttempts \in Nat
    /\ InFlight \in Nat
    /\ None \notin Answers

VARIABLES
    profiles,       \* status in expert_profiles, "none" where there is no row
    sets,           \* calibration_sets
    attempts,       \* calibration_attempts with their tasks, by created_at
    qualifications, \* expert_qualifications, by created_at
    flight          \* submissions that have read and not yet committed

vars == <<profiles, sets, attempts, qualifications, flight>>

Attempt == [expert : Experts, set : SetInputs,
            status : {"in_progress", "completed"}, passed : BOOLEAN,
            answers : Seq(Answers \cup {None})]

(* `lapsed': expires_at is behind the clock. *)
Qualification == [expert : Experts, domain : Domains, attempt : Nat,
                  status : {"active", "expired"}, lapsed : BOOLEAN]

Submission == [attempt : Nat, task : Nat, answer : Answers,
               ready : BOOLEAN, passed : BOOLEAN, grants : BOOLEAN]

Init ==
    /\ profiles = [e \in Experts |-> "none"]
    /\ sets = {}
    /\ attempts = << >>
    /\ qualifications = << >>
    /\ flight = {}

-----------------------------------------------------------------------------
(* Profiles and calibration sets *)

UpsertProfile(e) ==
    /\ profiles[e] = "none"
    /\ profiles' = [profiles EXCEPT ![e] = "calibration"]
    /\ UNCHANGED <<sets, attempts, qualifications, flight>>

(* A reference has two adjudications or more, which agree on both dimensions. *)
Agreed(r) ==
    /\ Len(Adjudications[r]) >= 2
    /\ \A i, j \in DOMAIN Adjudications[r] :
           /\ Adjudications[r][i].validity = Adjudications[r][j].validity
           /\ Adjudications[r][i].severity = Adjudications[r][j].severity

CreateCalibrationSet(s) ==
    /\ s \notin sets
    /\ \A i \in DOMAIN s.refs : DomainOf[s.refs[i]] = s.domain /\ Agreed(s.refs[i])
    /\ sets' = sets \cup {s}
    /\ UNCHANGED <<profiles, attempts, qualifications, flight>>

-----------------------------------------------------------------------------
(* Attempts *)

(* Asking again while an attempt is open returns it.  A concern referred to
   twice breaks the unique (attempt, concern) of the tasks.                *)
StartCalibration(e, s) ==
    /\ Len(attempts) < MaxAttempts
    /\ profiles[e] # "none"
    /\ s \in sets /\ s.active
    /\ \A i \in DOMAIN attempts :
           ~ (attempts[i].expert = e /\ attempts[i].set = s /\ attempts[i].status = "in_progress")
    /\ IsInjective(s.refs)
    /\ attempts' = Append(attempts,
           [expert |-> e, set |-> s, status |-> "in_progress", passed |-> FALSE,
            answers |-> [i \in 1 .. Len(s.refs) |-> None]])
    /\ UNCHANGED <<profiles, sets, qualifications, flight>>

(* The references agree, so the most common decision is any of them. *)
ReferenceDecision(r) == Adjudications[r][1]

Correct(s, answers) ==
    Cardinality({i \in DOMAIN s.refs : answers[i].validity = ReferenceDecision(s.refs[i]).validity})

Gap(x, y) == IF x < y THEN y - x ELSE x - y

Distance(s, answers) ==
    FoldLeft(LAMBDA sum, i : sum + Gap(answers[i].severity, ReferenceDecision(s.refs[i]).severity),
             0, [i \in 1 .. Len(s.refs) |-> i])

FalseCriticals(s, answers) ==
    Cardinality({i \in DOMAIN s.refs : /\ answers[i].severity = Critical
                                       /\ ReferenceDecision(s.refs[i]).severity # Critical})

(* 0.75 * accuracy + 0.25 * (1 - mean distance / 4) >= threshold, in 16ths of a case. *)
Passes(s, answers) ==
    LET n == Len(s.refs) IN
    /\ n >= s.minCases
    /\ 100 * (12 * Correct(s, answers) + 4 * n - Distance(s, answers)) >= 16 * n * s.passPercent
    /\ FalseCriticals(s, answers) <= s.maxFalseCritical

(* The query for an existing qualification looks at the status alone. *)
HasActiveRow(e, d) ==
    \E k \in DOMAIN qualifications :
        /\ qualifications[k].expert = e
        /\ qualifications[k].domain = d
        /\ qualifications[k].status = "active"

(* Variant: the score is computed before the flush. *)
OutcomeUnflushed(a, i, x) ==
    LET answers == attempts[a].answers
        ready   == None \notin Range(answers)
        passed  == ready /\ Passes(attempts[a].set, answers)
    IN  [attempt |-> a, task |-> i, answer |-> x, ready |-> ready, passed |-> passed,
         grants |-> passed /\ ~ HasActiveRow(attempts[a].expert, attempts[a].set.domain)]

(* What a submission concludes from the answers it can see, its own included. *)
Outcome(a, i, x) ==
    LET answers == [attempts[a].answers EXCEPT ![i] = x]
        ready   == None \notin Range(answers)
        passed  == ready /\ Passes(attempts[a].set, answers)
    IN  [attempt |-> a, task |-> i, answer |-> x, ready |-> ready, passed |-> passed,
         grants |-> passed /\ ~ HasActiveRow(attempts[a].expert, attempts[a].set.domain)]

(* The unique task_id of submissions holds a second one for the same task
   back until this one has ended, and then refuses it.  An expiry cannot be
   computed for a domain the policy does not know: that submission fails.  *)
ReadSubmission(a, i, x) ==
    /\ Cardinality(flight) < InFlight
    /\ i \in DOMAIN attempts[a].answers
    /\ attempts[a].answers[i] = None
    /\ \A f \in flight : <<f.attempt, f.task>> # <<a, i>>
    /\ Outcome(a, i, x).grants => attempts[a].set.domain \in Rated
    /\ flight' = flight \cup {Outcome(a, i, x)}
    /\ UNCHANGED <<profiles, sets, attempts, qualifications>>

NewQualification(f) ==
    [expert |-> attempts[f.attempt].expert, domain |-> attempts[f.attempt].set.domain,
     attempt |-> f.attempt, status |-> "active", lapsed |-> FALSE]

CommitSubmission(f) ==
    LET e == attempts[f.attempt].expert IN
    /\ attempts' = [attempts EXCEPT
           ![f.attempt].answers[f.task] = f.answer,
           ![f.attempt].status = IF f.ready THEN "completed" ELSE @,
           ![f.attempt].passed = IF f.ready THEN f.passed ELSE @]
    /\ profiles' = IF f.ready
                     THEN [profiles EXCEPT ![e] = IF f.passed THEN "eligible" ELSE "calibration"]
                     ELSE profiles
    /\ qualifications' = IF f.grants THEN Append(qualifications, NewQualification(f))
                                     ELSE qualifications
    /\ flight' = flight \ {f}
    /\ UNCHANGED sets

(* Any request may fail before its commit. *)
AbortSubmission(f) ==
    /\ flight' = flight \ {f}
    /\ UNCHANGED <<profiles, sets, attempts, qualifications>>

-----------------------------------------------------------------------------
(* Expiry, and the claims that notice it *)

QualificationLapses(k) ==
    /\ qualifications[k].status = "active" /\ ~ qualifications[k].lapsed
    /\ qualifications' = [qualifications EXCEPT ![k].lapsed = TRUE]
    /\ UNCHANGED <<profiles, sets, attempts, flight>>

NeedsQualification(d) == \E s \in sets : s.domain = d /\ s.active

Valid(e, d) ==
    \E k \in DOMAIN qualifications :
        /\ qualifications[k].expert = e /\ qualifications[k].domain = d
        /\ qualifications[k].status = "active" /\ ~ qualifications[k].lapsed

Qualified(e, d) == NeedsQualification(d) => Valid(e, d)

Marked(q, e, D) ==
    IF /\ q.expert = e /\ q.domain \in D /\ NeedsQualification(q.domain)
       /\ q.status = "active" /\ q.lapsed
      THEN [q EXCEPT !.status = "expired"] ELSE q

(* A claim goes down its queue past tasks of the domains D and takes one of
   domain d, for review or for reconstruction.  One that takes nothing
   answers 404, and its marks are rolled back with it.                     *)
Claim(e, d, D) ==
    /\ Qualified(e, d)
    /\ qualifications' = [k \in DOMAIN qualifications |-> Marked(qualifications[k], e, D \cup {d})]
    /\ UNCHANGED <<profiles, sets, attempts, flight>>

Next ==
    \/ \E e \in Experts : UpsertProfile(e)
    \/ \E s \in SetInputs : CreateCalibrationSet(s)
    \/ \E e \in Experts, s \in SetInputs : StartCalibration(e, s)
    \/ \E a \in DOMAIN attempts, x \in Answers :
          \E i \in DOMAIN attempts[a].answers : ReadSubmission(a, i, x)
    \/ \E f \in flight : CommitSubmission(f) \/ AbortSubmission(f)
    \/ \E k \in DOMAIN qualifications : QualificationLapses(k)
    \/ \E e \in Experts, d \in Domains, D \in SUBSET Domains : Claim(e, d, D)

Spec == Init /\ [][Next]_vars

-----------------------------------------------------------------------------
(* Properties *)

(* The tables are well formed: one answer or none per task, and a submission
   in flight is for a task that is still unanswered.                       *)
TypeOK ==
    /\ profiles \in [Experts -> {"none", "calibration", "eligible"}]
    /\ sets \subseteq SetInputs
    /\ attempts \in Seq(Attempt)
    /\ \A a \in DOMAIN attempts : Len(attempts[a].answers) = Len(attempts[a].set.refs)
    /\ qualifications \in Seq(Qualification)
    /\ flight \subseteq Submission
    /\ \A f \in flight : /\ f.attempt \in DOMAIN attempts
                         /\ f.task \in DOMAIN attempts[f.attempt].answers
                         /\ attempts[f.attempt].answers[f.task] = None

(* Each qualification was earned by a finished attempt of its expert, in its
   domain, whose stored answers pass; no attempt earns two.  Answers are
   stored by several requests, the score is computed by one of them.       *)
QualificationsAreEarned ==
    \A k \in DOMAIN qualifications :
        LET q == qualifications[k] IN
        /\ q.attempt \in DOMAIN attempts
        /\ LET a == attempts[q.attempt] IN
           /\ a.status = "completed" /\ a.passed
           /\ a.expert = q.expert /\ a.set.domain = q.domain
           /\ None \notin Range(a.answers) /\ Passes(a.set, a.answers)
        /\ \A l \in DOMAIN qualifications : qualifications[l].attempt = q.attempt => l = k

(* An attempt whose tasks are all answered has been scored.  Nothing scores
   one later: its tasks take no second answer, and asking for an attempt
   returns it, so that the expert could never try that set again.          *)
AnsweredMeansScored ==
    \A a \in DOMAIN attempts :
        None \notin Range(attempts[a].answers) => attempts[a].status = "completed"

(* An expert has at most one row in a domain that a claim would look at.   *)
OneActiveRow ==
    \A k, l \in DOMAIN qualifications :
        /\ qualifications[k].status = "active" /\ qualifications[l].status = "active"
        /\ qualifications[k].expert = qualifications[l].expert
        /\ qualifications[k].domain = qualifications[l].domain
        => k = l

(* The programme implements the standing that claims for work assume:
   earned by those who have none, lapsing, and in the way until noticed.   *)
StandingOf(e, d) ==
    LET live == {k \in DOMAIN qualifications :
                    /\ qualifications[k].expert = e /\ qualifications[k].domain = d
                    /\ qualifications[k].status = "active"} IN
    IF live = {} THEN "none"
    ELSE IF \E k \in live : ~ qualifications[k].lapsed THEN "active" ELSE "lapsed"

S == INSTANCE Standing WITH standing <- [q \in Experts \X Domains |-> StandingOf(q[1], q[2])]

RefinesStanding == S!Spec

-----------------------------------------------------------------------------
(* What the documents say and the code does not do *)

(* Passing a calibration makes the expert eligible for work in its domain
   (GOVERNANCE.md: calibration results authorize task eligibility).        *)
PassingQualifies ==
    [][\A a \in DOMAIN attempts :
          attempts'[a].passed /\ ~ attempts[a].passed =>
              Qualified(attempts[a].expert, attempts[a].set.domain)']_vars
=============================================================================
