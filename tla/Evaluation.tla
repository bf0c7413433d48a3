------------------------------ MODULE Evaluation ------------------------------
(***************************************************************************)
(* What is computed and what vouches for it: the determination policy, the *)
(* scoring of submissions, and four uses of the trust store (signed        *)
(* scorecards whose keys rotate, scorecards that are damaged, claim        *)
(* authorizations and release gates).  Each use has a store of its own:    *)
(* they differ in the keys that are published, and no property compares    *)
(* two of them.  A behaviour is one of a single part, which Init chooses,  *)
(* and the others rest in their initial states.                            *)
(***************************************************************************)
EXTENDS ScorecardSigning, Sequences

CONSTANTS
    Parts,              \* the parts to look at
    Manifests, Answers, LaterAnswers, Threshold, LowThreshold, AnchorWeight, TextWeight,
    DamageStore, DamageSigned, DamageMarks, Damages,    \* scorecards that may be damaged
    ClaimStore, Benchmarks, Declarations, DecisionLife, VerifyModes, MaxEnvelopes, MaxResults,
    MaxScorecards, Mixes,
    GateStore, GateSlots, Items, Domains, Adjudicators, MinExports, AuditTarget, HoldoutMinimum,
    AttestationLife

VARIABLES
    part,
    rows,
    scored, submission, evaluations, totals,
    nowS, storeS, revocationsS, originS, signedS, reliedS,
    nowC, storeC, revocationsC, originC, manifest, envelopes, results, scorecards,
    nowG, storeG, revocationsG, originG, slot, live, envelope, issued

-----------------------------------------------------------------------------
(* The parts.  DamageStore, ClaimStore and GateStore are records of what TrustStore
   takes as constants.                                                      *)

Policy == INSTANCE PolicyArrivals

Score == INSTANCE Scoring WITH manifest <- scored

(* Files that may be altered after they were signed. *)
Sign == INSTANCE ScorecardSigning WITH
    KeyPairs <- DamageStore.keys, MaxTime <- DamageStore.time, RootLife <- DamageStore.root,
    ReleaseLife <- DamageStore.release, MaxCeremonies <- DamageStore.ceremonies,
    MaxRetired <- DamageStore.retired, HandRoles <- DamageStore.roles,
    HandChannels <- DamageStore.channels,
    MaxSigned <- DamageSigned, SignMarks <- DamageMarks, MayDamage <- Damages,
    now <- nowS, store <- storeS, revocations <- revocationsS, origin <- originS,
    signed <- signedS, relied <- reliedS

Claims == INSTANCE ClaimAuthorization WITH
    KeyPairs <- ClaimStore.keys, MaxTime <- ClaimStore.time, RootLife <- ClaimStore.root,
    ReleaseLife <- ClaimStore.release, MaxCeremonies <- ClaimStore.ceremonies,
    MaxRetired <- ClaimStore.retired, HandRoles <- ClaimStore.roles,
    HandChannels <- ClaimStore.channels,
    now <- nowC, store <- storeC, revocations <- revocationsC, origin <- originC

Gates == INSTANCE EvidenceGates WITH
    Slots <- GateSlots, KeyPairs <- GateStore.keys, MaxTime <- GateStore.time,
    RootLife <- GateStore.root, ReleaseLife <- GateStore.release,
    MaxCeremonies <- GateStore.ceremonies, MaxRetired <- GateStore.retired, HandRoles <- GateStore.roles,
    HandChannels <- GateStore.channels,
    now <- nowG, store <- storeG, revocations <- revocationsG, origin <- originG

ASSUME EvaluationAssumption ==
    /\ Score!ScoringAssumption /\ Sign!SigningAssumption
    /\ Claims!TrustAssumption /\ Claims!ClaimAssumption
    /\ Gates!TrustAssumption /\ Gates!GatesAssumption

-----------------------------------------------------------------------------
policy   == <<rows>>
scoring  == <<scored, submission, evaluations, totals>>
signing  == <<nowS, storeS, revocationsS, originS, signedS, reliedS>>
claims   == <<nowC, storeC, revocationsC, originC, manifest, envelopes, results, scorecards>>
gates    == <<nowG, storeG, revocationsG, originG, slot, live, envelope, issued>>

AnyOf(S) == CHOOSE x \in S : TRUE

(* The parts that rest have one initial state. *)
RestingScore ==
    /\ scored = AnyOf(Manifests) /\ evaluations = << >> /\ totals = Score!NoTotals
    /\ submission = [c \in DOMAIN scored.cases |-> Score!Absent]

InitParts ==
    /\ part \in Parts
    /\ Init /\ Policy!Init /\ Sign!Init /\ Claims!Init /\ Gates!Init
    /\ IF part = "scoring" THEN Score!Init ELSE RestingScore
    /\ part = "claims" \/ [f \in DOMAIN manifest \ {"envelope"} |-> manifest[f]] = AnyOf(Benchmarks)
    /\ part = "gates" \/ (slot = AnyOf(GateSlots) /\ live = AnyOf(Gates!EvidenceFor(slot)))

Rest(p, partVars) == IF part = p THEN TRUE ELSE UNCHANGED partVars

Of(p) ==
    /\ part = p /\ UNCHANGED part
    /\ Rest("rotation", vars) /\ Rest("signing", signing) /\ Rest("policy", policy)
    /\ Rest("scoring", scoring) /\ Rest("claims", claims) /\ Rest("gates", gates)

NextParts ==
    \/ Of("rotation") /\ Next
    \/ Of("policy") /\ Policy!Next
    \/ Of("scoring") /\ Score!Next
    \/ Of("signing") /\ Sign!Next
    \/ Of("claims") /\ Claims!Next
    \/ Of("gates") /\ Gates!Next

SpecParts == InitParts /\ [][NextParts]_<<part, vars, signing, policy, scoring, claims, gates>>

-----------------------------------------------------------------------------
(* What the run checks: the properties of the parts, taken together where they
   say one thing.  The modules state each of them.                          *)

(* The determination policy is a function of what was submitted.  The order in
   which reviewers submit changes nothing, two primaries are resolved downwards,
   a critical concern needs two who call it so, and a tie-break is asked for
   once and then settles the matter.                                        *)
PolicyIsSound ==
    part = "policy" =>
        /\ Policy!TypeOK
        /\ Policy!OrderIrrelevant
        /\ Policy!Conservative
        /\ Policy!CriticalNeedsAgreement
        /\ Policy!NeverAsksTwice

(* A scorecard adds up.  Submitted, matched, missed and failed cases balance, no
   unmatched pair would both prefer each other, a stricter threshold only removes
   pairs, the denominators of recall are those of the benchmark, rates are rates
   and precision needs a complete reference set, and what an incomplete one
   leaves unmatched is reviewed as novel.                                   *)
ScoresAddUp ==
    part = "scoring" =>
        /\ Score!TypeOK
        /\ Score!CountsAddUp
        /\ Score!MatchIsStable
        /\ Score!ThresholdOnlyRemoves
        /\ Score!SameDenominator
        /\ Score!RatesAreRates
        /\ Score!UnmatchedAreCandidates

(* Nothing is claimed or passed without a verified authority for what is there.
   Flag and headline of a scorecard agree, incomplete references authorize no
   precision, naming the envelope in the manifest does not invalidate it; a
   passing gate has an authority in force behind it, evidence that changed after
   it was attested closes its gate, and audit and holdout volume is there and
   not only on paper.  Of scorecards that are damaged or carry test keys,
   production accepts only what keys of a production ceremony signed.       *)
AuthorityHolds ==
    CASE part = "signing" -> Sign!KeysHold
      [] part = "claims" ->
            /\ Claims!TypeOK
            /\ Claims!FlagMatchesHeadline
            /\ Claims!PrecisionNeedsCompleteness
            /\ Claims!NamingKeepsItValid
      [] part = "gates" ->
            /\ Gates!TypeOK
            /\ Gates!PassNeedsAuthority
            /\ Gates!ChangedEvidenceCloses
            /\ Gates!VolumeIsEarned
      [] OTHER -> TRUE

(* What is refused once is refused for good: a revoked key, a scorecard that
   production took back, and a gate closed by revocation, time or an edit until
   a new envelope is issued for it.                                         *)
RefusalsLast ==
    Sign!RevocationIsFinal /\ RefusalIsLasting /\ Gates!ClosedStaysClosed

(* Scientific scorecards are built under a decision in force. *)
ScientificIsAuthorized == Claims!ScientificIsAuthorized
=============================================================================
