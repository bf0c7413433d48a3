-------------------------- MODULE ClaimAuthorization --------------------------
(***************************************************************************)
(* Who may say what about a result: signed claim-authorization decisions,  *)
(* their verification against the live benchmark and the trust store       *)
(* (opencritique_evaluation/claim_auth_verify.py), the authorization       *)
(* derived from them (models.py), the gates per metric (metric_auth.py),   *)
(* and the public scorecard that comes out (scorecard.py).                 *)
(*                                                                         *)
(* A result is evaluated, authorized and turned into a scorecard by        *)
(* separate calls; the trust store, the benchmark and the clock move on in *)
(* between.  Envelopes are as they were signed: the digest and signature   *)
(* checks of a damaged file are those of ScorecardSigning.                 *)
(***************************************************************************)
EXTENDS TrustStore, Sequences, SequencesExt

CONSTANTS
    Benchmarks,     \* the contents a benchmark manifest may have, see Content
    Declarations,   \* the lists of authorized metrics a decision may carry
    DecisionLife,   \* instants a decision runs
    VerifyModes,    \* the policy modes callers verify under
    MaxEnvelopes,   \* bound: envelopes
    MaxResults,     \* bound: results
    MaxScorecards,  \* bound: scorecards
    Mixes           \* whether a caller may attach another envelope than the one it verified

Completeness == {"complete_seeded", "adjudicated_output_complete", "partial_natural", "discovery_open", "unknown"}
Scopes       == {"none", "private_method_report", "public_domain_bounded", "public_comparative"}
PublicScopes == {"public_domain_bounded", "public_comparative"}
Requirements == {"any", "complete_seeded", "adjudicated_output_complete", "partial_natural", "discovery_open"}

PrecisionCalibration == {"critical_precision", "major_precision", "calibration", "false_critical_rate"}
Scientific == PrecisionCalibration \cup {"anchor_integrity", "seeded_defect_recall", "reference_recall"}
MetricIds  == Scientific \cup {"cost", "latency"}

AuthorizedMetric == [id : MetricIds, status : {"authorized", "withheld", "not_applicable"},
                     requires : Requirements]

(* What the content hash of a manifest covers.  `prereqs' stands for the   *)
(* conjunction of the flags a public claim needs, `version' for the cases, *)
(* scopes, matcher and scoring policy a decision is bound to.              *)
Content == [version : Nat, class : {"expert_natural", "live_private", "synthetic"},
            completeness : Completeness, prereqs : BOOLEAN, comparative : BOOLEAN]

ClaimAssumption ==
    /\ Benchmarks \subseteq Content
    /\ Declarations \subseteq Seq(AuthorizedMetric)
    /\ DecisionLife \in Nat \ {0}
    /\ VerifyModes \subseteq Modes
    /\ MaxEnvelopes \in Nat /\ MaxResults \in Nat /\ MaxScorecards \in Nat /\ Mixes \in BOOLEAN

VARIABLES
    manifest,       \* the live benchmark: its content and the envelope its digest names
    envelopes,      \* signed decisions
    results,        \* evaluation results, with their authorization
    scorecards      \* public scorecards

claimVars == <<manifest, envelopes, results, scorecards>>
vars == <<now, store, revocations, origin, manifest, envelopes, results, scorecards>>

NoEnvelope == [none |-> TRUE]
NoAuth     == [scope |-> "none", verified |-> FALSE, metrics |-> << >>]

-----------------------------------------------------------------------------
(* Metrics. *)

SatisfiedBy(requirement) ==
    CASE requirement = "any" -> Completeness
      [] requirement = "complete_seeded" -> {"complete_seeded"}
      [] requirement = "adjudicated_output_complete" -> {"complete_seeded", "adjudicated_output_complete"}
      [] requirement = "partial_natural" -> Completeness \ {"discovery_open", "unknown"}
      [] requirement = "discovery_open" -> Completeness \ {"unknown"}

IncompleteReference == {"partial_natural", "discovery_open", "unknown"}

ResolveMetrics(metrics, completeness) ==
    LET Keeps(m) == /\ completeness \in SatisfiedBy(m.requires)
                    /\ ~(m.id \in PrecisionCalibration /\ completeness \in IncompleteReference)
    IN  [i \in DOMAIN metrics |->
           IF metrics[i].status = "authorized" /\ ~Keeps(metrics[i])
             THEN [metrics[i] EXCEPT !.status = "withheld"] ELSE metrics[i]]

AnyScientific(metrics) ==
    \E i \in DOMAIN metrics : metrics[i].status = "authorized" /\ metrics[i].id \in Scientific

(* The last entry of an id counts. *)
IsAuthorized(metrics, id) ==
    \E i \in DOMAIN metrics :
      /\ metrics[i].id = id /\ metrics[i].status = "authorized"
      /\ \A j \in DOMAIN metrics : j > i => metrics[j].id # id

RecallId(completeness) ==
    IF completeness \in IncompleteReference THEN "reference_recall" ELSE "seeded_defect_recall"

Rows == {"anchors", "precision", "weighted_precision", "recall", "weighted_recall", "false_critical", "brier"}

MetricOf(row, completeness) ==
    CASE row = "anchors" -> "anchor_integrity"
      [] row = "precision" -> "critical_precision"
      [] row = "weighted_precision" -> "major_precision"
      [] row \in {"recall", "weighted_recall"} -> RecallId(completeness)
      [] row = "false_critical" -> "false_critical_rate"
      [] row = "brier" -> "calibration"

-----------------------------------------------------------------------------
(* Verification of an envelope against a benchmark, in the order of the code. *)

ManifestHash(m) == [m EXCEPT !.envelope = NoEnvelope]

ClaimRoles(mode) ==
    ClaimAuthoritySigningRoles \cup (IF mode \in {"development", "test"} THEN {"test"} ELSE {})

VerifyClaim(e, m, mode, haveStore) ==
    LET policy == KeyPolicy(<<e.key, e.mark>>, mode, PolicyTime(mode, e.at), ClaimRoles(mode))
    IN  IF e = NoEnvelope THEN "envelope_missing"
        ELSE IF m.envelope # NoEnvelope /\ m.envelope # e THEN "digest_mismatch"
        ELSE IF ~haveStore THEN "unknown_key"
        ELSE IF policy # "ok" THEN policy
        ELSE IF now < e.at THEN "decision_not_yet_valid"
        ELSE IF now > e.until THEN "decision_expired"
        ELSE IF e.binds # ManifestHash(m) THEN "binding_mismatch"
        ELSE IF e.scope \notin PublicScopes THEN "scope_not_public"
        ELSE "ok"

DerivedAuthorization(m, e, report) ==
    IF report # "ok" \/ (e.scope = "public_comparative" /\ ~m.comparative) THEN NoAuth
    ELSE [scope |-> e.scope, verified |-> TRUE, metrics |-> ResolveMetrics(e.metrics, m.completeness)]

(* BenchmarkManifest.claim_authorization *)
AuthorizationOf(m, e, mode, haveStore) ==
    IF m.class = "live_private" THEN [NoAuth EXCEPT !.scope = "private_method_report"]
    ELSE IF ~(m.class = "expert_natural" /\ m.prereqs) \/ e = NoEnvelope THEN NoAuth
    ELSE DerivedAuthorization(m, e, VerifyClaim(e, m, mode, haveStore))

PerformanceAuthorized(auth) ==
    auth.scope \in PublicScopes /\ auth.verified /\ AnyScientific(auth.metrics)

(* Validation of an EvaluationResult, which may correct what it is given. *)
Synced(m, auth, e) ==
    LET kept == IF auth.scope \in PublicScopes /\ (e = NoEnvelope \/ ~auth.verified)
                  THEN NoAuth
                  ELSE [auth EXCEPT !.metrics = ResolveMetrics(@, m.completeness)]
    IN  [manifest |-> m, auth |-> kept, envelope |-> e, flag |-> PerformanceAuthorized(kept)]

-----------------------------------------------------------------------------
(* The scorecard. *)

(* Variant: the authorization a result carries is not verified again. *)
ReportOnTrust(r, mode, haveStore) == "ok"

ReportFor(r, mode, haveStore) == VerifyClaim(r.envelope, r.manifest, mode, haveStore)

Coerced(r) == [r EXCEPT !.auth = NoAuth, !.flag = FALSE]

ApplyMetrics(r) ==
    LET auth == [r.auth EXCEPT !.metrics = ResolveMetrics(@, r.manifest.completeness)]
    IN  [r EXCEPT !.auth = auth, !.flag = PerformanceAuthorized(auth)]

Scorecard(r, mode, haveStore) ==
    LET public   == r.auth.scope \in PublicScopes
        verified == public /\ ReportFor(r, mode, haveStore) = "ok"
        final    == IF verified THEN ApplyMetrics(r) ELSE IF public THEN Coerced(r) ELSE r
        Shown(row) == verified => IsAuthorized(final.auth.metrics, MetricOf(row, r.manifest.completeness))
    IN  [result   |-> final,
         rows     |-> {row \in Rows : Shown(row)},
         headline |-> IF verified /\ AnyScientific(final.auth.metrics) THEN "scientific"
                      ELSE IF final.auth.scope = "private_method_report" THEN "private" ELSE "record"]

-----------------------------------------------------------------------------
(* Actions. *)

Init ==
    /\ TrustInit
    /\ manifest \in {[version |-> b.version, class |-> b.class, completeness |-> b.completeness,
                      prereqs |-> b.prereqs, comparative |-> b.comparative,
                      envelope |-> NoEnvelope] : b \in Benchmarks}
    /\ envelopes = {} /\ results = {} /\ scorecards = {}

ValidDecision(metrics) ==
    \A i \in DOMAIN metrics :
      (metrics[i].status = "authorized" /\ metrics[i].id \in PrecisionCalibration)
      => metrics[i].requires \in {"complete_seeded", "adjudicated_output_complete"}

SignDecision ==
    /\ Cardinality(envelopes) < MaxEnvelopes
    /\ \E k \in DOMAIN store, scope \in PublicScopes, metrics \in Declarations :
         /\ ValidDecision(metrics)
         /\ envelopes' = envelopes \cup
              {[key |-> k, mark |-> store[k].mark, at |-> now, until |-> now + DecisionLife,
                scope |-> scope, metrics |-> metrics, binds |-> ManifestHash(manifest)]}
    /\ UNCHANGED <<trustVars, manifest, results, scorecards>>

(* The digest of an envelope is written into the manifest. *)
NameEnvelope ==
    /\ \E e \in envelopes : manifest' = [manifest EXCEPT !.envelope = e]
    /\ UNCHANGED <<trustVars, envelopes, results, scorecards>>

Amend ==
    /\ manifest.version = 0
    /\ manifest' = [manifest EXCEPT !.version = 1]
    /\ UNCHANGED <<trustVars, envelopes, results, scorecards>>

(* evaluate() asks for the authorization without a trust store. *)
Evaluate ==
    /\ Cardinality(results) < MaxResults
    /\ results' = results \cup
         {Synced(manifest, AuthorizationOf(manifest, manifest.envelope, "production", FALSE), NoEnvelope)}
    /\ UNCHANGED <<trustVars, manifest, envelopes, scorecards>>

(* A caller verifies an envelope and attaches one to the result. *)
Authorize ==
    /\ Cardinality(results) < MaxResults
    /\ \E e, attached \in envelopes, mode \in VerifyModes :
         /\ Mixes \/ attached = e
         /\ results' = results \cup
              {Synced(manifest, AuthorizationOf(manifest, e, mode, TRUE), attached)}
    /\ UNCHANGED <<trustVars, manifest, envelopes, scorecards>>

(* With a trust store, or without one, as the scorecard command does it. *)
BuildScorecard ==
    /\ Cardinality(scorecards) < MaxScorecards
    /\ \E r \in results, mode \in VerifyModes, haveStore \in BOOLEAN :
         scorecards' = scorecards \cup {Scorecard(r, mode, haveStore)}
    /\ UNCHANGED <<trustVars, manifest, envelopes, results>>

Next ==
    \/ TrustNext /\ UNCHANGED claimVars
    \/ SignDecision \/ NameEnvelope \/ Amend \/ Evaluate \/ Authorize \/ BuildScorecard

Spec == Init /\ [][Next]_vars

-----------------------------------------------------------------------------

TypeOK ==
    /\ TrustTypeOK
    /\ \A r \in results \cup {s.result : s \in scorecards} :
         /\ r.auth.scope \in Scopes
         /\ r.auth.metrics \in Seq(AuthorizedMetric)
         /\ r.flag \in BOOLEAN
    /\ \A s \in scorecards : s.rows \subseteq Rows /\ s.headline \in {"scientific", "private", "record"}

(* Whenever a scorecard with a scientific headline is built, a decision    *)
(* about exactly the benchmark of the result is in force at that moment,   *)
(* from a key that the store then publishes for claims, neither revoked    *)
(* nor retired, and the benchmark is expert-natural and meets the          *)
(* prerequisites: nothing that lapsed after the evaluation gets through.   *)
ScientificIsAuthorized ==
    [][\A s \in scorecards' \ scorecards :
         s.headline = "scientific" =>
           LET e == s.result.envelope
               m == s.result.manifest
           IN  /\ e \in envelopes
               /\ e.at <= now /\ now <= e.until
               /\ [e.binds EXCEPT !.envelope = m.envelope] = m
               /\ m.class = "expert_natural" /\ m.prereqs
               /\ e.key \in DOMAIN store /\ e.key \notin revocations
               /\ store[e.key].status = "active"
               /\ store[e.key].role \in {"claim_authority", "offline_root"}]_vars

(* The flag that programs read and the headline that people read never     *)
(* disagree about a scorecard.                                             *)
FlagMatchesHeadline ==
    \A s \in scorecards : s.result.flag <=> s.headline = "scientific"

(* No scorecard and no result lists a precision or calibration metric as   *)
(* authorized for a benchmark whose reference set is incomplete, whatever  *)
(* the signed decision declares.                                           *)
PrecisionNeedsCompleteness ==
    \A r \in results \cup {s.result : s \in scorecards} :
      r.manifest.completeness \in {"partial_natural", "discovery_open", "unknown"} =>
        \A i \in DOMAIN r.auth.metrics :
          r.auth.metrics[i].status = "authorized" => r.auth.metrics[i].id \notin PrecisionCalibration

(* Writing the digest of a verified envelope into the manifest it is about *)
(* does not invalidate it, although the decision is bound to the hash of   *)
(* that manifest.                                                          *)
NamingKeepsItValid ==
    \A e \in envelopes :
      LET Naming(named) == [manifest EXCEPT !.envelope = named]
      IN  VerifyClaim(e, Naming(NoEnvelope), "production", TRUE) = "ok"
          => VerifyClaim(e, Naming(e), "production", TRUE) = "ok"
=============================================================================
