------------------------------ MODULE MatcherAudit ------------------------------
(***************************************************************************)
(* The audit of matcher decisions by humans                                *)
(* (opencritique_evaluation/matcher_audit.py, with the API of              *)
(* registry/matcher_audit_api.py): a stratified sample is drawn into a     *)
(* session, auditors judge its candidates, the judgments are analyzed into *)
(* an agreement report beside the session's manifest, and the release gate *)
(* discovers from these files how many decisions are completed.            *)
(*                                                                         *)
(* Sessions are numbered in the order of their paths, auditors in the      *)
(* order of their ids.  A candidate is [id, domain], domain "none" for all *)
(* but the representative of a domain.  Hashes of lists are the lists.     *)
(***************************************************************************)
EXTENDS Integers, Sequences, FiniteSets, SequencesExt

CONSTANTS
    Sessions, Auditors,
    Decisions,      \* AuditDecision, or the part of it a run uses
    Populations,    \* decisions to draw from: [class, near, far, pool], sets of candidates
    TargetSize,     \* target_size of a draw
    NaturalTarget,  \* NATURAL_DOD_TARGET
    MaxJudgments,   \* bound: judgments ever handed in
    MaxDraws        \* bound: draws of a session

None == [kind |-> "none"]

AuditAssumption ==
    /\ Sessions \subseteq Nat /\ IsFiniteSet(Sessions) /\ Auditors \subseteq Nat
    /\ Decisions \subseteq {"correct_match", "partial_overbroad_match", "incorrect_match", "unresolved"}
    /\ \A p \in Populations : p.class \in {"sample", "natural"}
    /\ {TargetSize, NaturalTarget, MaxJudgments, MaxDraws} \subseteq Nat

VARIABLES
    manifests,      \* per session: MatcherAuditSessionManifest, or None
    judgments,      \* per session: what the auditors handed in, in order
    reports,        \* per session: the agreement report on disk, or None
    draws,          \* per session: how often it was drawn
    handed          \* judgments ever handed in

vars == <<manifests, judgments, reports, draws, handed>>

Written(s) == manifests[s] # None

Auditees(js) == {js[i].candidate : i \in DOMAIN js}
About(js, c) == SelectSeq(js, LAMBDA j : j.candidate = c)

-----------------------------------------------------------------------------
(* Drawing a sample. *)

Decided(p) == p.near \cup p.far \cup p.pool

PerGroup(groups) ==
    LET share == IF groups = 0 THEN TargetSize ELSE TargetSize \div groups
    IN  IF share < 1 THEN 1 ELSE share

Smaller(a, b) == IF a < b THEN a ELSE b

(* Shuffled groups, an equal share of each, cut at the target. *)
Selections(p) ==
    LET groups == {g \in {p.near, p.far, p.pool} : g # {}}
        per    == PerGroup(Cardinality(groups))
        Share(g) == {S \in SUBSET g : Cardinality(S) = Smaller(per, Cardinality(g))}
        all    == {n \cup f \cup q : n \in Share(p.near), f \in Share(p.far), q \in Share(p.pool)}
    IN  UNION {{S \in SUBSET a : Cardinality(S) = Smaller(TargetSize, Cardinality(a))} : a \in all}

(* build_session_manifest *)
NaturalMet(p, drawn) ==
    /\ p.class = "natural"
    /\ Cardinality(Decided(p)) >= NaturalTarget
    /\ Cardinality(drawn) >= Smaller(NaturalTarget, Cardinality(Decided(p)))

Draw(s) ==
    /\ draws[s] < MaxDraws
    /\ \E p \in Populations, drawn \in SUBSET UNION {Decided(q) : q \in Populations} :
         /\ drawn \in Selections(p)
         /\ manifests' = [manifests EXCEPT ![s] =
              [kind |-> "manifest", population |-> p, drawn |-> drawn, natural_dod_met |-> NaturalMet(p, drawn)]]
    /\ judgments' = [judgments EXCEPT ![s] = << >>]
    /\ draws' = [draws EXCEPT ![s] = @ + 1]
    /\ UNCHANGED <<reports, handed>>

-----------------------------------------------------------------------------
(* Judging, and the analysis of what was judged. *)

Latest(s) == IF judgments[s] = << >> THEN 0 ELSE Last(judgments[s]).at

(* decided_at is the clock of whoever judges: later, or the same instant. *)
Judge(s) ==
    /\ Written(s) /\ handed < MaxJudgments
    /\ \E c \in manifests[s].drawn, a \in Auditors, d \in Decisions, at \in {Latest(s), Latest(s) + 1} :
         judgments' = [judgments EXCEPT ![s] = Append(@, [candidate |-> c.id, auditor |-> a, decision |-> d, at |-> at])]
    /\ handed' = handed + 1
    /\ UNCHANGED <<manifests, reports, draws>>

Counted(js, d) == Len(SelectSeq(js, LAMBDA j : j.decision = d))

(* A false-match rate of a quarter invalidates the policy. *)
Invalidated(js) ==
    LET matchish == Counted(js, "incorrect_match") + Counted(js, "correct_match")
                      + Counted(js, "partial_overbroad_match")
    IN  matchish > 0 /\ 4 * Counted(js, "incorrect_match") >= matchish

Known(js, drawn) == Auditees(js) \subseteq {c.id : c \in drawn}

(* analyze, and the report its caller persists beside the manifest. *)
Analyze(s) ==
    /\ Written(s) /\ judgments[s] # << >>
    /\ Known(judgments[s], manifests[s].drawn)
    /\ reports' = [reports EXCEPT ![s] =
         [kind |-> "report", class |-> manifests[s].population.class, drawn |-> manifests[s].drawn,
          judgments |-> judgments[s], policy_invalidated |-> Invalidated(judgments[s])]]
    /\ UNCHANGED <<manifests, judgments, draws, handed>>

Init ==
    /\ manifests = [s \in Sessions |-> None]
    /\ judgments = [s \in Sessions |-> << >>]
    /\ reports = [s \in Sessions |-> None]
    /\ draws = [s \in Sessions |-> 0]
    /\ handed = 0

Next == \E s \in Sessions : Draw(s) \/ Judge(s) \/ Analyze(s)

Spec == Init /\ [][Next]_vars

-----------------------------------------------------------------------------
(* Discovery: what the files say is completed. *)

Before(j, k) == j.at < k.at \/ (j.at = k.at /\ j.auditor < k.auditor)

(* The sort by time and auditor keeps equal judgments in their order. *)
Earlier(js, k, m) == Before(js[k], js[m]) \/ (~Before(js[m], js[k]) /\ k < m)

Firsts(js) ==
    {m \in DOMAIN js : \A k \in DOMAIN js : (k # m /\ js[k].auditor = js[m].auditor) => Earlier(js, m, k)}

(* The first judgments of the first two auditors. *)
Primaries(js) == {m \in Firsts(js) : Cardinality({k \in Firsts(js) : Earlier(js, k, m)}) < 2}

SameDecision(js, ms) == \A m, n \in ms : js[m].decision = js[n].decision

IsCandidateAdjudicationComplete(js) ==
    LET two == Primaries(js)
    IN  /\ Cardinality(two) = 2
        /\ SameDecision(js, two)
           \/ \E i \in DOMAIN js : js[i].auditor \notin {js[m].auditor : m \in two}

(* Variant: any report beside the manifest counts. *)
BoundAnyhow(s) == reports[s] # None

(* A report that counts: natural, and of the sample of its manifest. *)
Bound(s) ==
    /\ Written(s) /\ manifests[s].population.class = "natural"
    /\ reports[s] # None
    /\ reports[s].class = "natural"
    /\ reports[s].drawn = manifests[s].drawn

CompletedIn(s) ==
    {c \in Auditees(reports[s].judgments) : IsCandidateAdjudicationComplete(About(reports[s].judgments, c))}

(* Session after session; a candidate counts in the first that completed it. *)
Discover ==
    LET Add(found, s) ==
          LET new == CompletedIn(s) \ found.completed
          IN  IF ~Bound(s) \/ new = {} THEN found
              ELSE [completed |-> found.completed \cup new,
                    sessions |-> found.sessions \cup {s},
                    judgments |-> found.judgments \cup {<<s, c>> : c \in new}]
    IN  FoldLeft(Add, [completed |-> {}, sessions |-> {}, judgments |-> {}],
                 SetToSortSeq(Sessions, <))

-----------------------------------------------------------------------------

TypeOK ==
    \A s \in Sessions :
      /\ Written(s) => /\ manifests[s].population \in Populations
                       /\ Cardinality(manifests[s].drawn) <= Smaller(TargetSize, Cardinality(Decided(manifests[s].population)))
                       /\ manifests[s].natural_dod_met => manifests[s].population.class = "natural"
      /\ Len(judgments[s]) <= handed
      /\ ~Written(s) => reports[s] = None

(* What counts as completed is what the protocol calls completed: three    *)
(* auditors judged it in one natural session, or two did and their first   *)
(* decisions are the same; and every such decision counts once.            *)
CompletedAsProtocol ==
    LET Done(s, c) ==
          LET js == About(reports[s].judgments, c)
              First(x) == SelectSeq(js, LAMBDA j : j.auditor = x)[1].decision
              by == {js[i].auditor : i \in DOMAIN js}
          IN  Cardinality(by) >= 3
              \/ (Cardinality(by) = 2 /\ Cardinality({First(x) : x \in by}) = 1)
    IN  Discover.completed =
          UNION {{c \in Auditees(reports[s].judgments) : Done(s, c)} :
                 s \in {t \in Sessions : reports[t] # None /\ Bound(t)}}

(* Every completed decision is in the sample its session holds now, and    *)
(* its judgments belong to exactly one session: a session drawn again      *)
(* loses what was judged before.                                           *)
CompletedWereSampled ==
    LET found == Discover
    IN  /\ \A c \in found.completed : \E s \in found.sessions :
             /\ manifests[s].population.class = "natural"
             /\ c \in {x.id : x \in manifests[s].drawn}
        /\ Cardinality(found.judgments) = Cardinality(found.completed)

(* More judgments never take a completed decision back: a report that      *)
(* extends the one on disk keeps what is completed.                        *)
CompletedStaysCompleted ==
    [][(/\ manifests' = manifests
        /\ \A s \in Sessions : reports[s] # None => IsPrefix(reports[s].judgments, reports'[s].judgments))
         => Discover.completed \subseteq (Discover.completed)']_vars
=============================================================================
