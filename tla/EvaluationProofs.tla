---------------------------- MODULE EvaluationProofs ----------------------------
(***************************************************************************)
(* Theorems about Evaluation: that what each part promises holds where the *)
(* parts stand together, for any number of keys, envelopes, results,       *)
(* scorecards and submissions.                                             *)
(*                                                                         *)
(* The four uses of the trust store.  What is promised is proved once, in  *)
(* AuthorityProofs, which is instantiated for each use with the variables  *)
(* and constants of that use.  A lemma ...Spec shows that the behaviours   *)
(* of the part are those the instance speaks of, a lemma ...Means that its *)
(* properties are those the runs check: both sides are the same formula    *)
(* once every definition is expanded.                                      *)
(*                                                                         *)
(* The determination policy.  PolicyInv says of the stored adjudications   *)
(* that there is one row per slot and no tie-break without two primaries:  *)
(* a tie-break arrives only when the policy asked for one, and it asks     *)
(* only over two primaries (DetermineResult).  So there are three rows at  *)
(* most, a reordering of them holds the same rows, and what the policy     *)
(* guarantees for such lists (DeterminationProofs) holds of every history. *)
(*                                                                         *)
(* A behaviour of the parts is one of each part (Part...): the part that   *)
(* Init chose steps, and the others rest.                                  *)
(***************************************************************************)
EXTENDS Evaluation, TLAPS

-----------------------------------------------------------------------------
(* Scorecards whose keys rotate. *)

RotateP == INSTANCE AuthorityProofs WITH Slots <- GateSlots

(* The constants are as signing assumes them. *)
LEMMA RotateAssumption == RotateP!SigningAssumption
  BY SigningAssumption, Zenon
     DEF SigningAssumption, RotateP!SigningAssumption, TrustAssumption, RotateP!TrustAssumption, Roles,
         RotateP!Roles, Channels, RotateP!Channels

(* Behaviours of signing are those the theorems about signing speak of. *)
LEMMA RotateSpec == Spec => RotateP!Spec
<1>1. \A S : Cardinality(S) = RotateP!Cardinality(S)
  BY DEF Cardinality, RotateP!Cardinality
<1>2. Init <=> RotateP!Init
  BY DEF Init, RotateP!Init, TrustInit, RotateP!TrustInit
<1>3. UNCHANGED vars => UNCHANGED RotateP!vars
  BY DEF vars, RotateP!vars
<1>4. Next <=> RotateP!Next
  BY <1>1, Zenon
     DEF Next, RotateP!Next, TrustNext, RotateP!TrustNext, SignScorecard, RotateP!SignScorecard,
         VerifyScorecard, RotateP!VerifyScorecard, Damage, RotateP!Damage, Tick, RotateP!Tick,
         RunCeremonyProd, RotateP!RunCeremonyProd, RunCeremonyDev, RotateP!RunCeremonyDev, Publish,
         RotateP!Publish, Rotate, RotateP!Rotate, Revoke, RotateP!Revoke, Expire, RotateP!Expire, Never,
         RotateP!Never, trustVars, RotateP!trustVars, Accepts, RotateP!Accepts, Made, RotateP!Made,
         Unmade, RotateP!Unmade, Over, RotateP!Over, CeremonyKeys, RotateP!CeremonyKeys, Retained,
         RotateP!Retained, MadeFor, RotateP!MadeFor, NewPair, RotateP!NewPair, NewRelease,
         RotateP!NewRelease, BuildRecord, RotateP!BuildRecord, Editable, RotateP!Editable, SetStatus,
         RotateP!SetStatus, VerifyEnvelope, RotateP!VerifyEnvelope, Restrict, RotateP!Restrict, Retired,
         RotateP!Retired, KeyPolicy, RotateP!KeyPolicy, Id, RotateP!Id, PolicyTime, RotateP!PolicyTime,
         ScorecardSigningRoles, RotateP!ScorecardSigningRoles, KeyIdMatches, RotateP!KeyIdMatches,
         Published, RotateP!Published, DevOnly, RotateP!DevOnly, IsRevoked, RotateP!IsRevoked, Marks,
         RotateP!Marks
<1>5. [Next]_vars => [RotateP!Next]_RotateP!vars
  BY <1>3, <1>4
<1> QED BY <1>2, <1>5, PTL DEF Spec, RotateP!Spec

(* The same of the property. *)
LEMMA RotateMeans == RotateP!RefusalIsLasting => RefusalIsLasting
  BY PTL
     DEF RefusalIsLasting, RotateP!RefusalIsLasting, vars, RotateP!vars, Accepts, RotateP!Accepts,
         VerifyEnvelope, RotateP!VerifyEnvelope, KeyPolicy, RotateP!KeyPolicy, Id, RotateP!Id,
         PolicyTime, RotateP!PolicyTime, ScorecardSigningRoles, RotateP!ScorecardSigningRoles,
         KeyIdMatches, RotateP!KeyIdMatches, Published, RotateP!Published, DevOnly, RotateP!DevOnly,
         IsRevoked, RotateP!IsRevoked, Marks, RotateP!Marks

(* A behaviour of the parts is one of the scorecards whose keys rotate. *)
LEMMA PartOfRotation == SpecParts => Spec
<1>1. InitParts => Init
  BY DEF InitParts
<1>2. [NextParts]_<<part, vars, signing, policy, scoring, claims, gates>> => [Next]_vars
  BY DEF NextParts, Of, Rest, vars
<1> QED BY <1>1, <1>2, PTL DEF SpecParts, Spec

-----------------------------------------------------------------------------
(* Scorecards that may be damaged. *)

SignP == INSTANCE AuthorityProofs WITH
    Slots <- GateSlots, KeyPairs <- DamageStore.keys, MaxTime <- DamageStore.time, RootLife <- DamageStore.root,
    ReleaseLife <- DamageStore.release, MaxCeremonies <- DamageStore.ceremonies,
    MaxRetired <- DamageStore.retired, HandRoles <- DamageStore.roles,
    HandChannels <- DamageStore.channels,
    MaxSigned <- DamageSigned, SignMarks <- DamageMarks, MayDamage <- Damages,
    now <- nowS, store <- storeS, revocations <- revocationsS, origin <- originS,
    signed <- signedS, relied <- reliedS

(* The constants of this use of the store are as signing assumes them. *)
LEMMA SignAssumption == SignP!SigningAssumption
<1>1. Sign!SigningAssumption
  BY EvaluationAssumption DEF EvaluationAssumption
<1> QED
  BY <1>1, Zenon
     DEF Sign!SigningAssumption, SignP!SigningAssumption, Sign!TrustAssumption, SignP!TrustAssumption,
         Sign!Roles, SignP!Roles, Sign!Channels, SignP!Channels

(* The behaviours of this part are those the instance speaks of. *)
LEMMA SignSpec == Sign!Spec => SignP!Spec
<1>1. \A S : Sign!Cardinality(S) = SignP!Cardinality(S)
  BY DEF Sign!Cardinality, SignP!Cardinality
<1>2. Sign!Init <=> SignP!Init
  BY DEF Sign!Init, SignP!Init, Sign!TrustInit, SignP!TrustInit
<1>3. UNCHANGED Sign!vars => UNCHANGED SignP!vars
  BY DEF Sign!vars, SignP!vars
<1>4. Sign!Next <=> SignP!Next
  BY <1>1, Zenon
     DEF Sign!Next, SignP!Next, Sign!TrustNext, SignP!TrustNext, Sign!SignScorecard,
         SignP!SignScorecard, Sign!VerifyScorecard, SignP!VerifyScorecard, Sign!Damage, SignP!Damage,
         Sign!Tick, SignP!Tick, Sign!RunCeremonyProd, SignP!RunCeremonyProd, Sign!RunCeremonyDev,
         SignP!RunCeremonyDev, Sign!Publish, SignP!Publish, Sign!Rotate, SignP!Rotate, Sign!Revoke,
         SignP!Revoke, Sign!Expire, SignP!Expire, Sign!Never, SignP!Never, Sign!trustVars,
         SignP!trustVars, Sign!Accepts, SignP!Accepts, Sign!Made, SignP!Made, Sign!Unmade, SignP!Unmade,
         Sign!Over, SignP!Over, Sign!CeremonyKeys, SignP!CeremonyKeys, Sign!Retained, SignP!Retained,
         Sign!MadeFor, SignP!MadeFor, Sign!NewPair, SignP!NewPair, Sign!NewRelease, SignP!NewRelease,
         Sign!BuildRecord, SignP!BuildRecord, Sign!Editable, SignP!Editable, Sign!SetStatus,
         SignP!SetStatus, Sign!VerifyEnvelope, SignP!VerifyEnvelope, Sign!Restrict, SignP!Restrict,
         Sign!Retired, SignP!Retired, Sign!KeyPolicy, SignP!KeyPolicy, Sign!Id, SignP!Id,
         Sign!PolicyTime, SignP!PolicyTime, Sign!ScorecardSigningRoles, SignP!ScorecardSigningRoles,
         Sign!KeyIdMatches, SignP!KeyIdMatches, Sign!Published, SignP!Published, Sign!DevOnly,
         SignP!DevOnly, Sign!IsRevoked, SignP!IsRevoked, Sign!Marks, SignP!Marks
<1>5. [Sign!Next]_Sign!vars => [SignP!Next]_SignP!vars
  BY <1>3, <1>4
<1> QED BY <1>2, <1>5, PTL DEF Sign!Spec, SignP!Spec

(* Its invariant is the one the run checks, *)
LEMMA SignMeans == SignP!KeysHold => Sign!KeysHold
  BY Zenon
     DEF Sign!KeysHold, SignP!KeysHold, Sign!TypeOK, SignP!TypeOK, Sign!AcceptedWasIssued,
         SignP!AcceptedWasIssued, Sign!HistoryHolds, SignP!HistoryHolds, Sign!TrustTypeOK,
         SignP!TrustTypeOK, Sign!Envelope, SignP!Envelope, Sign!Accepts, SignP!Accepts,
         Sign!ScorecardSigningRoles, SignP!ScorecardSigningRoles, Sign!Published, SignP!Published,
         Sign!Id, SignP!Id, Sign!IsRevoked, SignP!IsRevoked, Sign!KeyRecord, SignP!KeyRecord,
         Sign!Marks, SignP!Marks, Sign!VerifyEnvelope, SignP!VerifyEnvelope, Sign!Roles, SignP!Roles,
         Sign!Statuses, SignP!Statuses, Sign!Channels, SignP!Channels, Sign!KeyPolicy, SignP!KeyPolicy,
         Sign!PolicyTime, SignP!PolicyTime, Sign!KeyIdMatches, SignP!KeyIdMatches, Sign!DevOnly,
         SignP!DevOnly

(* and so is its action property. *)
LEMMA SignFinalMeans == SignP!RevocationIsFinal => Sign!RevocationIsFinal
  BY PTL
     DEF Sign!RevocationIsFinal, SignP!RevocationIsFinal, Sign!vars, SignP!vars, Sign!Modes,
         SignP!Modes, Sign!Accepts, SignP!Accepts, Sign!VerifyEnvelope, SignP!VerifyEnvelope,
         Sign!KeyPolicy, SignP!KeyPolicy, Sign!Id, SignP!Id, Sign!PolicyTime, SignP!PolicyTime,
         Sign!ScorecardSigningRoles, SignP!ScorecardSigningRoles, Sign!KeyIdMatches, SignP!KeyIdMatches,
         Sign!Published, SignP!Published, Sign!DevOnly, SignP!DevOnly, Sign!IsRevoked, SignP!IsRevoked,
         Sign!Marks, SignP!Marks

(* A behaviour of the parts is one of scorecards that may be damaged. *)
LEMMA PartOfSigning == SpecParts => Sign!Spec
<1>1. InitParts => Sign!Init
  BY DEF InitParts
<1>2. [NextParts]_<<part, vars, signing, policy, scoring, claims, gates>> => [Sign!Next]_Sign!vars
  BY DEF NextParts, Of, Rest, signing, Sign!vars
<1> QED BY <1>1, <1>2, PTL DEF SpecParts, Sign!Spec

-----------------------------------------------------------------------------
(* Claims. *)

ClaimsP == INSTANCE AuthorityProofs WITH
    Slots <- GateSlots, KeyPairs <- ClaimStore.keys, MaxTime <- ClaimStore.time, RootLife <- ClaimStore.root,
    ReleaseLife <- ClaimStore.release, MaxCeremonies <- ClaimStore.ceremonies,
    MaxRetired <- ClaimStore.retired, HandRoles <- ClaimStore.roles,
    HandChannels <- ClaimStore.channels,
    now <- nowC, store <- storeC, revocations <- revocationsC, origin <- originC

(* The constants of this use are as the theorems about claims assume them. *)
LEMMA ClaimsAssumed ==
    ClaimsP!SigningAssumption /\ ClaimsP!TrustAssumption /\ ClaimsP!Claims!ClaimAssumption
<1>1. Claims!TrustAssumption /\ Claims!ClaimAssumption
  BY EvaluationAssumption DEF EvaluationAssumption
<1>2. ClaimsP!TrustAssumption
  BY <1>1, Zenon
     DEF Claims!TrustAssumption, ClaimsP!TrustAssumption, Claims!Roles, ClaimsP!Roles, Claims!Channels,
         ClaimsP!Channels
<1>3. ClaimsP!Claims!ClaimAssumption
  BY <1>1, Zenon
     DEF Claims!ClaimAssumption, ClaimsP!Claims!ClaimAssumption, Claims!Content, ClaimsP!Claims!Content,
         Claims!AuthorizedMetric, ClaimsP!Claims!AuthorizedMetric, Claims!Modes, ClaimsP!Claims!Modes,
         Claims!Completeness, ClaimsP!Claims!Completeness, Claims!MetricIds, ClaimsP!Claims!MetricIds,
         Claims!Requirements, ClaimsP!Claims!Requirements, Claims!Scientific, ClaimsP!Claims!Scientific,
         Claims!PrecisionCalibration, ClaimsP!Claims!PrecisionCalibration
<1> QED
  BY <1>2, <1>3, SigningAssumption DEF SigningAssumption, ClaimsP!SigningAssumption

(* A verification says the same, and so does what rests on one. *)
LEMMA ClaimsVerified ==
    /\ \A m, e, mode, s : Claims!VerifyClaim(e, m, mode, s) = ClaimsP!Claims!VerifyClaim(e, m, mode, s)
    /\ \A m, e, mode, s : Claims!AuthorizationOf(m, e, mode, s) = ClaimsP!Claims!AuthorizationOf(m, e, mode, s)
    /\ \A m, auth, e : Claims!Synced(m, auth, e) = ClaimsP!Claims!Synced(m, auth, e)
<1>1. \A id, mode, at, roles : Claims!KeyPolicy(id, mode, at, roles) = ClaimsP!Claims!KeyPolicy(id, mode, at, roles)
  BY Zenon
     DEF Claims!KeyPolicy, ClaimsP!Claims!KeyPolicy, Claims!Published, ClaimsP!Claims!Published,
         Claims!DevOnly, ClaimsP!Claims!DevOnly, Claims!IsRevoked, ClaimsP!Claims!IsRevoked
<1>2. \A m, e, mode, s : Claims!VerifyClaim(e, m, mode, s) = ClaimsP!Claims!VerifyClaim(e, m, mode, s)
  BY <1>1
     DEF Claims!VerifyClaim, ClaimsP!Claims!VerifyClaim, Claims!PolicyTime, ClaimsP!Claims!PolicyTime,
         Claims!ClaimRoles, ClaimsP!Claims!ClaimRoles, Claims!NoEnvelope, ClaimsP!Claims!NoEnvelope,
         Claims!ManifestHash, ClaimsP!Claims!ManifestHash, Claims!PublicScopes,
         ClaimsP!Claims!PublicScopes, Claims!ClaimAuthoritySigningRoles,
         ClaimsP!Claims!ClaimAuthoritySigningRoles
<1>3. \A ms, c : Claims!ResolveMetrics(ms, c) = ClaimsP!Claims!ResolveMetrics(ms, c)
  BY Zenon
     DEF Claims!ResolveMetrics, ClaimsP!Claims!ResolveMetrics, Claims!SatisfiedBy,
         ClaimsP!Claims!SatisfiedBy, Claims!PrecisionCalibration, ClaimsP!Claims!PrecisionCalibration,
         Claims!IncompleteReference, ClaimsP!Claims!IncompleteReference, Claims!Completeness,
         ClaimsP!Claims!Completeness
<1>4. \A m, e, r : Claims!DerivedAuthorization(m, e, r) = ClaimsP!Claims!DerivedAuthorization(m, e, r)
  BY <1>3 DEF Claims!DerivedAuthorization, ClaimsP!Claims!DerivedAuthorization, Claims!NoAuth,
         ClaimsP!Claims!NoAuth
<1>5. \A m, e, mode, s : Claims!AuthorizationOf(m, e, mode, s) = ClaimsP!Claims!AuthorizationOf(m, e, mode, s)
  BY <1>2, <1>4
     DEF Claims!AuthorizationOf, ClaimsP!Claims!AuthorizationOf, Claims!NoAuth, ClaimsP!Claims!NoAuth,
         Claims!NoEnvelope, ClaimsP!Claims!NoEnvelope
<1>6. \A auth : Claims!PerformanceAuthorized(auth) <=> ClaimsP!Claims!PerformanceAuthorized(auth)
  BY Zenon
     DEF Claims!PerformanceAuthorized, ClaimsP!Claims!PerformanceAuthorized, Claims!PublicScopes,
         ClaimsP!Claims!PublicScopes, Claims!AnyScientific, ClaimsP!Claims!AnyScientific,
         Claims!Scientific, ClaimsP!Claims!Scientific, Claims!PrecisionCalibration,
         ClaimsP!Claims!PrecisionCalibration
<1>7. \A m, auth, e : Claims!Synced(m, auth, e) = ClaimsP!Claims!Synced(m, auth, e)
  BY <1>3, <1>6
     DEF Claims!Synced, ClaimsP!Claims!Synced, Claims!PublicScopes, ClaimsP!Claims!PublicScopes,
         Claims!NoEnvelope, ClaimsP!Claims!NoEnvelope, Claims!NoAuth, ClaimsP!Claims!NoAuth
<1> QED BY <1>2, <1>5, <1>7

(* Behaviours of claim authorization are those the instance speaks of. *)
LEMMA ClaimsSpec == Claims!Spec => ClaimsP!Claims!Spec
<1>1. \A S : Claims!Cardinality(S) = ClaimsP!Claims!Cardinality(S)
  BY DEF Claims!Cardinality, ClaimsP!Claims!Cardinality
<1>2. Claims!Init <=> ClaimsP!Claims!Init
  BY DEF Claims!Init, ClaimsP!Claims!Init, Claims!TrustInit, ClaimsP!Claims!TrustInit,
         Claims!NoEnvelope, ClaimsP!Claims!NoEnvelope
<1>3. UNCHANGED Claims!vars => UNCHANGED ClaimsP!Claims!vars
  BY DEF Claims!vars, ClaimsP!Claims!vars
<1>4. Claims!Next <=> ClaimsP!Claims!Next
  <2>1. Claims!TrustNext <=> ClaimsP!Claims!TrustNext
    BY <1>1, Zenon
       DEF Claims!TrustNext, ClaimsP!Claims!TrustNext, Claims!Tick, ClaimsP!Claims!Tick,
           Claims!RunCeremonyProd, ClaimsP!Claims!RunCeremonyProd, Claims!RunCeremonyDev,
           ClaimsP!Claims!RunCeremonyDev, Claims!Publish, ClaimsP!Claims!Publish, Claims!Rotate,
           ClaimsP!Claims!Rotate, Claims!Revoke, ClaimsP!Claims!Revoke, Claims!Expire,
           ClaimsP!Claims!Expire, Claims!Made, ClaimsP!Claims!Made, Claims!Unmade,
           ClaimsP!Claims!Unmade, Claims!Over, ClaimsP!Claims!Over, Claims!CeremonyKeys,
           ClaimsP!Claims!CeremonyKeys, Claims!Retained, ClaimsP!Claims!Retained, Claims!MadeFor,
           ClaimsP!Claims!MadeFor, Claims!NewPair, ClaimsP!Claims!NewPair, Claims!NewRelease,
           ClaimsP!Claims!NewRelease, Claims!Never, ClaimsP!Claims!Never, Claims!BuildRecord,
           ClaimsP!Claims!BuildRecord, Claims!Editable, ClaimsP!Claims!Editable, Claims!SetStatus,
           ClaimsP!Claims!SetStatus, Claims!Restrict, ClaimsP!Claims!Restrict, Claims!Retired,
           ClaimsP!Claims!Retired
  <2>2. Claims!SignDecision <=> ClaimsP!Claims!SignDecision
    BY <1>1, Zenon
       DEF Claims!SignDecision, ClaimsP!Claims!SignDecision, Claims!PublicScopes,
           ClaimsP!Claims!PublicScopes, Claims!ValidDecision, ClaimsP!Claims!ValidDecision,
           Claims!ManifestHash, ClaimsP!Claims!ManifestHash, Claims!trustVars, ClaimsP!Claims!trustVars,
           Claims!PrecisionCalibration, ClaimsP!Claims!PrecisionCalibration, Claims!NoEnvelope,
           ClaimsP!Claims!NoEnvelope
  <2>3. Claims!NameEnvelope <=> ClaimsP!Claims!NameEnvelope
    BY <1>1, Zenon
       DEF Claims!NameEnvelope, ClaimsP!Claims!NameEnvelope, Claims!trustVars, ClaimsP!Claims!trustVars
  <2>4. Claims!Amend <=> ClaimsP!Claims!Amend
    BY <1>1, Zenon
       DEF Claims!Amend, ClaimsP!Claims!Amend, Claims!trustVars, ClaimsP!Claims!trustVars
  <2>5. Claims!Evaluate <=> ClaimsP!Claims!Evaluate
    BY <1>1, Zenon
       DEF Claims!Evaluate, ClaimsP!Claims!Evaluate, Claims!Synced, ClaimsP!Claims!Synced,
           Claims!AuthorizationOf, ClaimsP!Claims!AuthorizationOf, Claims!NoEnvelope,
           ClaimsP!Claims!NoEnvelope, Claims!trustVars, ClaimsP!Claims!trustVars, Claims!PublicScopes,
           ClaimsP!Claims!PublicScopes, Claims!NoAuth, ClaimsP!Claims!NoAuth, Claims!ResolveMetrics,
           ClaimsP!Claims!ResolveMetrics, Claims!PerformanceAuthorized,
           ClaimsP!Claims!PerformanceAuthorized, Claims!DerivedAuthorization,
           ClaimsP!Claims!DerivedAuthorization, Claims!VerifyClaim, ClaimsP!Claims!VerifyClaim,
           Claims!SatisfiedBy, ClaimsP!Claims!SatisfiedBy, Claims!PrecisionCalibration,
           ClaimsP!Claims!PrecisionCalibration, Claims!IncompleteReference,
           ClaimsP!Claims!IncompleteReference, Claims!AnyScientific, ClaimsP!Claims!AnyScientific,
           Claims!KeyPolicy, ClaimsP!Claims!KeyPolicy, Claims!PolicyTime, ClaimsP!Claims!PolicyTime,
           Claims!ClaimRoles, ClaimsP!Claims!ClaimRoles, Claims!ManifestHash,
           ClaimsP!Claims!ManifestHash, Claims!Completeness, ClaimsP!Claims!Completeness,
           Claims!Scientific, ClaimsP!Claims!Scientific, Claims!Published, ClaimsP!Claims!Published,
           Claims!DevOnly, ClaimsP!Claims!DevOnly, Claims!IsRevoked, ClaimsP!Claims!IsRevoked,
           Claims!ClaimAuthoritySigningRoles, ClaimsP!Claims!ClaimAuthoritySigningRoles
  <2>6. Claims!Authorize <=> ClaimsP!Claims!Authorize
    BY <1>1, ClaimsVerified, Zenon
       DEF Claims!Authorize, ClaimsP!Claims!Authorize, Claims!trustVars, ClaimsP!Claims!trustVars
  <2>7. Claims!BuildScorecard <=> ClaimsP!Claims!BuildScorecard
    BY <1>1, Zenon
       DEF Claims!BuildScorecard, ClaimsP!Claims!BuildScorecard, Claims!Scorecard,
           ClaimsP!Claims!Scorecard, Claims!trustVars, ClaimsP!Claims!trustVars, Claims!PublicScopes,
           ClaimsP!Claims!PublicScopes, Claims!ReportFor, ClaimsP!Claims!ReportFor, Claims!ApplyMetrics,
           ClaimsP!Claims!ApplyMetrics, Claims!Coerced, ClaimsP!Claims!Coerced, Claims!IsAuthorized,
           ClaimsP!Claims!IsAuthorized, Claims!MetricOf, ClaimsP!Claims!MetricOf, Claims!Rows,
           ClaimsP!Claims!Rows, Claims!AnyScientific, ClaimsP!Claims!AnyScientific, Claims!VerifyClaim,
           ClaimsP!Claims!VerifyClaim, Claims!ResolveMetrics, ClaimsP!Claims!ResolveMetrics,
           Claims!PerformanceAuthorized, ClaimsP!Claims!PerformanceAuthorized, Claims!NoAuth,
           ClaimsP!Claims!NoAuth, Claims!RecallId, ClaimsP!Claims!RecallId, Claims!Scientific,
           ClaimsP!Claims!Scientific, Claims!KeyPolicy, ClaimsP!Claims!KeyPolicy, Claims!PolicyTime,
           ClaimsP!Claims!PolicyTime, Claims!ClaimRoles, ClaimsP!Claims!ClaimRoles, Claims!NoEnvelope,
           ClaimsP!Claims!NoEnvelope, Claims!ManifestHash, ClaimsP!Claims!ManifestHash,
           Claims!SatisfiedBy, ClaimsP!Claims!SatisfiedBy, Claims!PrecisionCalibration,
           ClaimsP!Claims!PrecisionCalibration, Claims!IncompleteReference,
           ClaimsP!Claims!IncompleteReference, Claims!Published, ClaimsP!Claims!Published,
           Claims!DevOnly, ClaimsP!Claims!DevOnly, Claims!IsRevoked, ClaimsP!Claims!IsRevoked,
           Claims!ClaimAuthoritySigningRoles, ClaimsP!Claims!ClaimAuthoritySigningRoles,
           Claims!Completeness, ClaimsP!Claims!Completeness
  <2> QED
    BY <2>1, <2>2, <2>3, <2>4, <2>5, <2>6, <2>7, Zenon
       DEF Claims!Next, ClaimsP!Claims!Next, Claims!claimVars, ClaimsP!Claims!claimVars
<1>5. [Claims!Next]_Claims!vars => [ClaimsP!Claims!Next]_ClaimsP!Claims!vars
  BY <1>3, <1>4
<1> QED BY <1>2, <1>5, PTL DEF Claims!Spec, ClaimsP!Claims!Spec

(* Its invariants are those the run checks, *)
LEMMA ClaimsMeans ==
    /\ ClaimsP!Claims!TypeOK => Claims!TypeOK
    /\ ClaimsP!Claims!FlagMatchesHeadline => Claims!FlagMatchesHeadline
    /\ ClaimsP!Claims!PrecisionNeedsCompleteness => Claims!PrecisionNeedsCompleteness
    /\ ClaimsP!Claims!NamingKeepsItValid => Claims!NamingKeepsItValid
<1>1. ClaimsP!Claims!TypeOK => Claims!TypeOK
  BY Zenon
     DEF Claims!TypeOK, ClaimsP!Claims!TypeOK, Claims!TrustTypeOK, ClaimsP!Claims!TrustTypeOK,
         Claims!Scopes, ClaimsP!Claims!Scopes, Claims!AuthorizedMetric, ClaimsP!Claims!AuthorizedMetric,
         Claims!Rows, ClaimsP!Claims!Rows, Claims!KeyRecord, ClaimsP!Claims!KeyRecord, Claims!MetricIds,
         ClaimsP!Claims!MetricIds, Claims!Requirements, ClaimsP!Claims!Requirements, Claims!Roles,
         ClaimsP!Claims!Roles, Claims!Statuses, ClaimsP!Claims!Statuses, Claims!Channels,
         ClaimsP!Claims!Channels, Claims!Marks, ClaimsP!Claims!Marks, Claims!Scientific,
         ClaimsP!Claims!Scientific, Claims!PrecisionCalibration, ClaimsP!Claims!PrecisionCalibration
<1>2. ClaimsP!Claims!FlagMatchesHeadline => Claims!FlagMatchesHeadline
  BY DEF Claims!FlagMatchesHeadline, ClaimsP!Claims!FlagMatchesHeadline
<1>3. ClaimsP!Claims!PrecisionNeedsCompleteness => Claims!PrecisionNeedsCompleteness
  BY Zenon
     DEF Claims!PrecisionNeedsCompleteness, ClaimsP!Claims!PrecisionNeedsCompleteness,
         Claims!PrecisionCalibration, ClaimsP!Claims!PrecisionCalibration
<1>4. ClaimsP!Claims!NamingKeepsItValid => Claims!NamingKeepsItValid
  BY ClaimsVerified
     DEF Claims!NamingKeepsItValid, ClaimsP!Claims!NamingKeepsItValid, Claims!NoEnvelope,
         ClaimsP!Claims!NoEnvelope
<1> QED BY <1>1, <1>2, <1>3, <1>4

(* and so is its action property. *)
LEMMA ClaimsScientificMeans == ClaimsP!Claims!ScientificIsAuthorized => Claims!ScientificIsAuthorized
  BY PTL DEF Claims!ScientificIsAuthorized, ClaimsP!Claims!ScientificIsAuthorized, Claims!vars,
         ClaimsP!Claims!vars

(* A behaviour of the parts is one of claim authorization. *)
LEMMA PartOfClaims == SpecParts => Claims!Spec
<1>1. InitParts => Claims!Init
  BY DEF InitParts
<1>2. [NextParts]_<<part, vars, signing, policy, scoring, claims, gates>> => [Claims!Next]_Claims!vars
  BY DEF NextParts, Of, Rest, claims, Claims!vars
<1> QED BY <1>1, <1>2, PTL DEF SpecParts, Claims!Spec

-----------------------------------------------------------------------------
(* Release gates. *)

GatesP == INSTANCE AuthorityProofs WITH
    Slots <- GateSlots, KeyPairs <- GateStore.keys, MaxTime <- GateStore.time, RootLife <- GateStore.root,
    ReleaseLife <- GateStore.release, MaxCeremonies <- GateStore.ceremonies,
    MaxRetired <- GateStore.retired, HandRoles <- GateStore.roles,
    HandChannels <- GateStore.channels,
    now <- nowG, store <- storeG, revocations <- revocationsG, origin <- originG

(* The constants of this use are as the theorems about gates assume them. *)
LEMMA GatesAssumed ==
    GatesP!SigningAssumption /\ GatesP!TrustAssumption /\ GatesP!Gates!GatesAssumption
<1>1. Gates!TrustAssumption /\ Gates!GatesAssumption
  BY EvaluationAssumption DEF EvaluationAssumption
<1>2. GatesP!TrustAssumption
  BY <1>1, Zenon
     DEF Gates!TrustAssumption, GatesP!TrustAssumption, Gates!Roles, GatesP!Roles, Gates!Channels,
         GatesP!Channels
<1>3. GatesP!Gates!GatesAssumption
  BY <1>1, Zenon
     DEF Gates!GatesAssumption, GatesP!Gates!GatesAssumption, Gates!AllSlots, GatesP!Gates!AllSlots,
         Gates!Exports, GatesP!Gates!Exports
<1> QED
  BY <1>2, <1>3, SigningAssumption DEF SigningAssumption, GatesP!SigningAssumption

(* What may lie at an evidence path. *)
LEMMA GatesEvidence == \A s : Gates!EvidenceFor(s) = GatesP!Gates!EvidenceFor(s)
<1>1. \A S : Gates!Cardinality(S) = GatesP!Gates!Cardinality(S)
  BY DEF Gates!Cardinality, GatesP!Gates!Cardinality
<1>2. \A ps : Gates!Staffed(ps) = GatesP!Gates!Staffed(ps)
  BY <1>1 DEF Gates!Staffed, GatesP!Gates!Staffed, Gates!Domain, GatesP!Gates!Domain
<1>3. \A s, e : Gates!ValidEvidence(s, e) <=> GatesP!Gates!ValidEvidence(s, e)
  BY <1>1, <1>2
     DEF Gates!ValidEvidence, GatesP!Gates!ValidEvidence, Gates!Exports, GatesP!Gates!Exports
<1> QED
  BY <1>3, Zenon
     DEF Gates!EvidenceFor, GatesP!Gates!EvidenceFor, Gates!Subjects, GatesP!Gates!Subjects,
         Gates!Exports, GatesP!Gates!Exports

(* Behaviours of a gate are those the instance speaks of. *)
LEMMA GatesSpec == Gates!Spec => GatesP!Gates!Spec
<1>1. \A S : Gates!Cardinality(S) = GatesP!Gates!Cardinality(S)
  BY DEF Gates!Cardinality, GatesP!Gates!Cardinality
<1>2. Gates!Init <=> GatesP!Gates!Init
  <2>1. Gates!TrustInit <=> GatesP!Gates!TrustInit
    BY DEF Gates!TrustInit, GatesP!Gates!TrustInit
  <2> QED
    BY <2>1, GatesEvidence DEF Gates!Init, GatesP!Gates!Init, Gates!Absent, GatesP!Gates!Absent
<1>3. UNCHANGED Gates!vars => UNCHANGED GatesP!Gates!vars
  BY DEF Gates!vars, GatesP!Gates!vars, Gates!trustVars, GatesP!Gates!trustVars, Gates!gateVars,
         GatesP!Gates!gateVars
<1>4. Gates!Next <=> GatesP!Gates!Next
  <2>1. Gates!TrustNext <=> GatesP!Gates!TrustNext
    BY <1>1, Zenon
       DEF Gates!TrustNext, GatesP!Gates!TrustNext, Gates!Tick, GatesP!Gates!Tick,
           Gates!RunCeremonyProd, GatesP!Gates!RunCeremonyProd, Gates!RunCeremonyDev,
           GatesP!Gates!RunCeremonyDev, Gates!Publish, GatesP!Gates!Publish, Gates!Rotate,
           GatesP!Gates!Rotate, Gates!Revoke, GatesP!Gates!Revoke, Gates!Expire, GatesP!Gates!Expire,
           Gates!Made, GatesP!Gates!Made, Gates!Unmade, GatesP!Gates!Unmade, Gates!Over,
           GatesP!Gates!Over, Gates!CeremonyKeys, GatesP!Gates!CeremonyKeys, Gates!Retained,
           GatesP!Gates!Retained, Gates!MadeFor, GatesP!Gates!MadeFor, Gates!NewPair,
           GatesP!Gates!NewPair, Gates!NewRelease, GatesP!Gates!NewRelease, Gates!Never,
           GatesP!Gates!Never, Gates!BuildRecord, GatesP!Gates!BuildRecord, Gates!Editable,
           GatesP!Gates!Editable, Gates!SetStatus, GatesP!Gates!SetStatus, Gates!Restrict,
           GatesP!Gates!Restrict, Gates!Retired, GatesP!Gates!Retired
  <2>2. Gates!Issue <=> GatesP!Gates!Issue
    <3>1. Gates!Cardinality(live.items) = GatesP!Gates!Cardinality(live.items)
      BY <1>1
    <3> QED
      BY <3>1, SMT
         DEF Gates!Issue, GatesP!Gates!Issue, Gates!Exports, GatesP!Gates!Exports,
             Gates!ValidAttestation, GatesP!Gates!ValidAttestation, Gates!trustVars,
             GatesP!Gates!trustVars
  <2>3. Gates!Damage <=> GatesP!Gates!Damage
    BY <1>1, Zenon
       DEF Gates!Damage, GatesP!Gates!Damage, Gates!Absent, GatesP!Gates!Absent, Gates!trustVars,
           GatesP!Gates!trustVars
  <2>4. Gates!ChangeEvidence <=> GatesP!Gates!ChangeEvidence
    BY GatesEvidence
       DEF Gates!ChangeEvidence, GatesP!Gates!ChangeEvidence, Gates!trustVars, GatesP!Gates!trustVars
  <2> QED
    BY <2>1, <2>2, <2>3, <2>4, Zenon
       DEF Gates!Next, GatesP!Gates!Next, Gates!Trust, GatesP!Gates!Trust, Gates!gateVars,
           GatesP!Gates!gateVars
<1>5. [Gates!Next]_Gates!vars => [GatesP!Gates!Next]_GatesP!Gates!vars
  BY <1>3, <1>4
<1> QED BY <1>2, <1>5, PTL DEF Gates!Spec, GatesP!Gates!Spec

(* Its invariants are those the run checks, *)
LEMMA GatesMean ==
    /\ GatesP!Gates!TypeOK => Gates!TypeOK
    /\ GatesP!Gates!PassNeedsAuthority => Gates!PassNeedsAuthority
    /\ GatesP!Gates!ChangedEvidenceCloses => Gates!ChangedEvidenceCloses
    /\ GatesP!Gates!VolumeIsEarned => Gates!VolumeIsEarned
<1>1. GatesP!Gates!TypeOK => Gates!TypeOK
  BY Zenon
     DEF Gates!TypeOK, GatesP!Gates!TypeOK, Gates!TrustTypeOK, GatesP!Gates!TrustTypeOK,
         Gates!EvidenceFor, GatesP!Gates!EvidenceFor, Gates!Absent, GatesP!Gates!Absent, Gates!AllSlots,
         GatesP!Gates!AllSlots, Gates!KeyRecord, GatesP!Gates!KeyRecord, Gates!Subjects,
         GatesP!Gates!Subjects, Gates!ValidEvidence, GatesP!Gates!ValidEvidence, Gates!Exports,
         GatesP!Gates!Exports, Gates!Roles, GatesP!Gates!Roles, Gates!Statuses, GatesP!Gates!Statuses,
         Gates!Channels, GatesP!Gates!Channels, Gates!Marks, GatesP!Gates!Marks, Gates!Cardinality,
         GatesP!Gates!Cardinality, Gates!Staffed, GatesP!Gates!Staffed, Gates!Domain,
         GatesP!Gates!Domain
<1>2. GatesP!Gates!PassNeedsAuthority => Gates!PassNeedsAuthority
  BY Zenon
     DEF Gates!PassNeedsAuthority, GatesP!Gates!PassNeedsAuthority, Gates!Passed, GatesP!Gates!Passed,
         Gates!DevOnly, GatesP!Gates!DevOnly, Gates!Report, GatesP!Gates!Report, Gates!VolumeMet,
         GatesP!Gates!VolumeMet, Gates!Verify, GatesP!Gates!Verify, Gates!Cardinality,
         GatesP!Gates!Cardinality, Gates!Absent, GatesP!Gates!Absent, Gates!Kind, GatesP!Gates!Kind,
         Gates!KeyPolicy, GatesP!Gates!KeyPolicy, Gates!EvidenceAuthoritySigningRoles,
         GatesP!Gates!EvidenceAuthoritySigningRoles, Gates!SubjectErrors, GatesP!Gates!SubjectErrors,
         Gates!Exports, GatesP!Gates!Exports, Gates!Published, GatesP!Gates!Published, Gates!IsRevoked,
         GatesP!Gates!IsRevoked, Gates!NaturalErrors, GatesP!Gates!NaturalErrors, Gates!ExportErrors,
         GatesP!Gates!ExportErrors, Gates!StaffingErrors, GatesP!Gates!StaffingErrors,
         Gates!AuditErrors, GatesP!Gates!AuditErrors, Gates!HoldoutBound, GatesP!Gates!HoldoutBound,
         Gates!HoldoutErrors, GatesP!Gates!HoldoutErrors, Gates!IndependentErrors,
         GatesP!Gates!IndependentErrors, Gates!LedgerBound, GatesP!Gates!LedgerBound,
         Gates!ManifestBound, GatesP!Gates!ManifestBound, Gates!RosterBound, GatesP!Gates!RosterBound,
         Gates!People, GatesP!Gates!People, Gates!Domain, GatesP!Gates!Domain, Gates!BenchmarksBound,
         GatesP!Gates!BenchmarksBound
<1>3. GatesP!Gates!ChangedEvidenceCloses => Gates!ChangedEvidenceCloses
  BY Zenon
     DEF Gates!ChangedEvidenceCloses, GatesP!Gates!ChangedEvidenceCloses, Gates!Passed,
         GatesP!Gates!Passed, Gates!People, GatesP!Gates!People, Gates!Domain, GatesP!Gates!Domain,
         Gates!Report, GatesP!Gates!Report, Gates!VolumeMet, GatesP!Gates!VolumeMet, Gates!Verify,
         GatesP!Gates!Verify, Gates!Cardinality, GatesP!Gates!Cardinality, Gates!Absent,
         GatesP!Gates!Absent, Gates!Kind, GatesP!Gates!Kind, Gates!KeyPolicy, GatesP!Gates!KeyPolicy,
         Gates!EvidenceAuthoritySigningRoles, GatesP!Gates!EvidenceAuthoritySigningRoles,
         Gates!SubjectErrors, GatesP!Gates!SubjectErrors, Gates!Exports, GatesP!Gates!Exports,
         Gates!Published, GatesP!Gates!Published, Gates!DevOnly, GatesP!Gates!DevOnly, Gates!IsRevoked,
         GatesP!Gates!IsRevoked, Gates!NaturalErrors, GatesP!Gates!NaturalErrors, Gates!ExportErrors,
         GatesP!Gates!ExportErrors, Gates!StaffingErrors, GatesP!Gates!StaffingErrors,
         Gates!AuditErrors, GatesP!Gates!AuditErrors, Gates!HoldoutBound, GatesP!Gates!HoldoutBound,
         Gates!HoldoutErrors, GatesP!Gates!HoldoutErrors, Gates!IndependentErrors,
         GatesP!Gates!IndependentErrors, Gates!LedgerBound, GatesP!Gates!LedgerBound,
         Gates!ManifestBound, GatesP!Gates!ManifestBound, Gates!RosterBound, GatesP!Gates!RosterBound,
         Gates!BenchmarksBound, GatesP!Gates!BenchmarksBound
<1>4. GatesP!Gates!VolumeIsEarned => Gates!VolumeIsEarned
  BY Zenon
     DEF Gates!VolumeIsEarned, GatesP!Gates!VolumeIsEarned, Gates!Passed, GatesP!Gates!Passed,
         Gates!Cardinality, GatesP!Gates!Cardinality, Gates!Report, GatesP!Gates!Report,
         Gates!VolumeMet, GatesP!Gates!VolumeMet, Gates!Verify, GatesP!Gates!Verify, Gates!Absent,
         GatesP!Gates!Absent, Gates!Kind, GatesP!Gates!Kind, Gates!KeyPolicy, GatesP!Gates!KeyPolicy,
         Gates!EvidenceAuthoritySigningRoles, GatesP!Gates!EvidenceAuthoritySigningRoles,
         Gates!SubjectErrors, GatesP!Gates!SubjectErrors, Gates!Exports, GatesP!Gates!Exports,
         Gates!Published, GatesP!Gates!Published, Gates!DevOnly, GatesP!Gates!DevOnly, Gates!IsRevoked,
         GatesP!Gates!IsRevoked, Gates!NaturalErrors, GatesP!Gates!NaturalErrors, Gates!ExportErrors,
         GatesP!Gates!ExportErrors, Gates!StaffingErrors, GatesP!Gates!StaffingErrors,
         Gates!AuditErrors, GatesP!Gates!AuditErrors, Gates!HoldoutBound, GatesP!Gates!HoldoutBound,
         Gates!HoldoutErrors, GatesP!Gates!HoldoutErrors, Gates!IndependentErrors,
         GatesP!Gates!IndependentErrors, Gates!LedgerBound, GatesP!Gates!LedgerBound,
         Gates!ManifestBound, GatesP!Gates!ManifestBound, Gates!RosterBound, GatesP!Gates!RosterBound,
         Gates!People, GatesP!Gates!People, Gates!Domain, GatesP!Gates!Domain, Gates!BenchmarksBound,
         GatesP!Gates!BenchmarksBound
<1> QED BY <1>1, <1>2, <1>3, <1>4

(* and so is its action property. *)
LEMMA GatesClosedMeans == GatesP!Gates!ClosedStaysClosed => Gates!ClosedStaysClosed
  BY PTL
     DEF Gates!ClosedStaysClosed, GatesP!Gates!ClosedStaysClosed, Gates!vars, GatesP!Gates!vars,
         Gates!Absent, GatesP!Gates!Absent, Gates!Report, GatesP!Gates!Report, Gates!Passed,
         GatesP!Gates!Passed, Gates!trustVars, GatesP!Gates!trustVars, Gates!gateVars,
         GatesP!Gates!gateVars, Gates!Verify, GatesP!Gates!Verify, Gates!VolumeMet,
         GatesP!Gates!VolumeMet, Gates!Kind, GatesP!Gates!Kind, Gates!KeyPolicy, GatesP!Gates!KeyPolicy,
         Gates!EvidenceAuthoritySigningRoles, GatesP!Gates!EvidenceAuthoritySigningRoles,
         Gates!SubjectErrors, GatesP!Gates!SubjectErrors, Gates!Cardinality, GatesP!Gates!Cardinality,
         Gates!Exports, GatesP!Gates!Exports, Gates!Published, GatesP!Gates!Published, Gates!DevOnly,
         GatesP!Gates!DevOnly, Gates!IsRevoked, GatesP!Gates!IsRevoked, Gates!NaturalErrors,
         GatesP!Gates!NaturalErrors, Gates!ExportErrors, GatesP!Gates!ExportErrors,
         Gates!StaffingErrors, GatesP!Gates!StaffingErrors, Gates!AuditErrors, GatesP!Gates!AuditErrors,
         Gates!HoldoutBound, GatesP!Gates!HoldoutBound, Gates!HoldoutErrors, GatesP!Gates!HoldoutErrors,
         Gates!IndependentErrors, GatesP!Gates!IndependentErrors, Gates!LedgerBound,
         GatesP!Gates!LedgerBound, Gates!ManifestBound, GatesP!Gates!ManifestBound, Gates!RosterBound,
         GatesP!Gates!RosterBound, Gates!People, GatesP!Gates!People, Gates!Domain, GatesP!Gates!Domain,
         Gates!BenchmarksBound, GatesP!Gates!BenchmarksBound

(* A behaviour of the parts is one of a gate. *)
LEMMA PartOfGates == SpecParts => Gates!Spec
<1>1. InitParts => Gates!Init
  BY DEF InitParts
<1>2. [NextParts]_<<part, vars, signing, policy, scoring, claims, gates>> => [Gates!Next]_Gates!vars
  BY DEF NextParts, Of, Rest, gates, Gates!trustVars, Gates!gateVars, Gates!vars
<1> QED BY <1>1, <1>2, PTL DEF SpecParts, Gates!Spec

-----------------------------------------------------------------------------
(* The determination policy, for every history of submissions. *)

Det == INSTANCE DeterminationProofs

PolicyInv ==
    /\ rows \in Seq(Policy!Decision)
    /\ Det!OneRowPerSlot(rows)
    /\ Policy!Filled("tie_break") => Det!TwoPrimaries(rows)

(* Both modules read the policy of Determination. *)
LEMMA SamePolicy ==
    \A r : /\ Det!Determine(r) = Policy!Determine(r)
           /\ Det!TieRows(r) = Policy!TieRows(r)
           /\ Det!PrimaryRows(r) = Policy!PrimaryRows(r)
           /\ Det!TwoPrimaries(r) <=> Policy!TwoPrimaries(r)
<1>1. \A r : Det!PrimaryRows(r) = Policy!PrimaryRows(r) /\ Det!TieRows(r) = Policy!TieRows(r)
  BY DEF Det!PrimaryRows, Policy!PrimaryRows, Det!PrimarySlots, Policy!PrimarySlots, Det!Primary,
         Policy!Primary, Det!Secondary, Policy!Secondary, Det!TieRows, Policy!TieRows, Det!TieBreak,
         Policy!TieBreak
<1>2. \A l, r : Det!ValidityFromTwo(l, r) = Policy!ValidityFromTwo(l, r)
  BY DEF Det!ValidityFromTwo, Policy!ValidityFromTwo, Det!UnderReview, Policy!UnderReview
<1>3. \A l, r : Det!SeverityFromTwo(l, r) = Policy!SeverityFromTwo(l, r)
  BY DEF Det!SeverityFromTwo, Policy!SeverityFromTwo, Det!Critical, Policy!Critical, Det!Gap,
         Policy!Gap, Det!NoSeverity, Policy!NoSeverity, Det!Lower, Policy!Lower
<1>4. ASSUME NEW l, NEW r, NEW x
      PROVE  Det!Reconcile(l, r, x) = Policy!Reconcile(l, r, x)
  <2>1. (CHOOSE i \in Det!TieRows(x) : Det!IsLast(Det!TieRows(x), i))
        = (CHOOSE i \in Policy!TieRows(x) : Policy!IsLast(Policy!TieRows(x), i))
    BY Zenon
       DEF Det!IsLast, Policy!IsLast, Det!TieRows, Policy!TieRows, Det!TieBreak, Policy!TieBreak
  <2> QED
    BY <1>1, <1>2, <1>3, <2>1
       DEF Det!Reconcile, Policy!Reconcile, Det!UnderReview, Policy!UnderReview, Det!NoSeverity,
         Policy!NoSeverity
<1>5. \A r : Det!TwoPrimaries(r) <=> Policy!TwoPrimaries(r)
  BY <1>1 DEF Det!TwoPrimaries, Policy!TwoPrimaries
<1>6. ASSUME NEW r
      PROVE  Det!Determine(r) = Policy!Determine(r)
  <2> DEFINE i == CHOOSE k \in Det!PrimaryRows(r) : Det!IsFirst(Det!PrimaryRows(r), k)
             j == CHOOSE k \in Det!PrimaryRows(r) : Det!IsSecond(Det!PrimaryRows(r), i, k)
             m == CHOOSE k \in Policy!PrimaryRows(r) : Policy!IsFirst(Policy!PrimaryRows(r), k)
             n == CHOOSE k \in Policy!PrimaryRows(r) : Policy!IsSecond(Policy!PrimaryRows(r), m, k)
  <2>1. i = m
    BY Zenon DEF Det!IsFirst, Policy!IsFirst, Det!PrimaryRows, Policy!PrimaryRows, Det!PrimarySlots,
           Policy!PrimarySlots, Det!Primary, Policy!Primary, Det!Secondary, Policy!Secondary
  <2>2. j = n
    BY Zenon DEF Det!IsSecond, Policy!IsSecond, Det!PrimaryRows, Policy!PrimaryRows, Det!IsFirst,
           Policy!IsFirst, Det!PrimarySlots, Policy!PrimarySlots, Det!Primary, Policy!Primary,
           Det!Secondary, Policy!Secondary
  <2>3. Det!Determine(r) = IF ~Det!TwoPrimaries(r) THEN Det!Waiting ELSE Det!Reconcile(r[i], r[j], r)
    BY DEF Det!Determine
  <2>4. Policy!Determine(r) = IF ~Policy!TwoPrimaries(r) THEN Policy!Waiting
                              ELSE Policy!Reconcile(r[m], r[n], r)
    BY DEF Policy!Determine
  <2> HIDE DEF i, j, m, n
  <2>5. Det!Waiting = Policy!Waiting
    BY DEF Det!Waiting, Policy!Waiting, Det!UnderReview, Policy!UnderReview, Det!NoSeverity,
           Policy!NoSeverity
  <2> QED BY <1>4, <1>5, <2>1, <2>2, <2>3, <2>4, <2>5
<1> QED BY <1>1, <1>5, <1>6

(* What is stored is what determine() expects to read. *)
LEMMA RowsWellFormed ==
    ASSUME NEW r \in Seq(Policy!Decision)
    PROVE  Det!WellFormed(r) /\ \A i \in DOMAIN r : r[i] \in Policy!Decision
<1>1. \A i \in DOMAIN r : r[i] \in Policy!Decision /\ i \in Nat
  OBVIOUS
<1> QED BY <1>1 DEF Det!WellFormed, Policy!Decision, Policy!Slots, Policy!Primary, Policy!Secondary,
             Policy!TieBreak, Policy!Validities, Policy!Severities, Det!Slots, Det!Primary, Det!Secondary,
             Det!TieBreak, Det!Validities, Det!Severities

(* A tie-break arrives when determine() has asked for it, over two primaries. *)
LEMMA PolicyInvariant == Policy!Spec => []PolicyInv
<1>1. Policy!Init => PolicyInv
  BY DEF Policy!Init, PolicyInv, Det!OneRowPerSlot, Policy!Filled
<1>2. ASSUME PolicyInv, Policy!Next
      PROVE  PolicyInv'
  <2>1. PICK s \in Policy!Slots, v \in Policy!Validities, w \in Policy!Severities : Policy!Arrive(s, v, w)
    BY <1>2 DEF Policy!Next
  <2> DEFINE row == [slot |-> s, validity |-> v, severity |-> w]
  <2>2. row \in Policy!Decision /\ rows \in Seq(Policy!Decision) /\ rows' = Append(rows, row)
    BY <2>1, <1>2 DEF Policy!Arrive, Policy!Decision, PolicyInv
  <2>3. /\ rows' \in Seq(Policy!Decision)
        /\ Len(rows') = Len(rows) + 1 /\ DOMAIN rows = 1 .. Len(rows) /\ Len(rows) \in Nat
        /\ DOMAIN rows' = 1 .. Len(rows) + 1
        /\ \A i \in DOMAIN rows : rows'[i] = rows[i]
        /\ rows'[Len(rows) + 1] = row
    BY <2>2
  <2>4. ~Policy!Filled(s)
    BY <2>1 DEF Policy!Arrive
  <2>5. Det!OneRowPerSlot(rows')
    BY <2>3, <2>4, <1>2 DEF Policy!Filled, Det!OneRowPerSlot, PolicyInv
  <2>6. Det!TwoPrimaries(rows) => Det!TwoPrimaries(rows')
    BY <2>3 DEF Det!TwoPrimaries, Det!PrimaryRows
  <2>7. ASSUME s = "tie_break"
        PROVE  Det!TwoPrimaries(rows)
    <3>1. Policy!Determine(rows).tieBreak
      BY <2>1, <2>7 DEF Policy!Arrive, Policy!TieBreak
    <3> QED BY <3>1, <1>2, <2>2, SamePolicy, RowsWellFormed, Det!DetermineResult DEF PolicyInv
  <2>8. Policy!Filled("tie_break")' => s = "tie_break" \/ Policy!Filled("tie_break")
    BY <2>3 DEF Policy!Filled
  <2> QED BY <2>3, <2>5, <2>6, <2>7, <2>8, <1>2 DEF PolicyInv
<1>3. PolicyInv /\ UNCHANGED rows => PolicyInv'
  BY DEF PolicyInv, Det!OneRowPerSlot, Policy!Filled, Det!TwoPrimaries, Det!PrimaryRows
<1> QED BY <1>1, <1>2, <1>3, PTL DEF Policy!Spec

(* At most one row for each of three slots. *)
LEMMA ThreeRows ==
    ASSUME PolicyInv
    PROVE  /\ DOMAIN rows = 1 .. Len(rows)
           /\ Len(rows) \in 0 .. 3
<1>1. /\ \A i \in DOMAIN rows : rows[i].slot \in {"primary", "secondary", "tie_break"}
      /\ DOMAIN rows = 1 .. Len(rows) /\ Len(rows) \in Nat
  <2>1. rows \in Seq(Policy!Decision)
    BY DEF PolicyInv
  <2>2. DOMAIN rows = 1 .. Len(rows) /\ Len(rows) \in Nat
    BY <2>1
  <2>3. \A i \in DOMAIN rows : rows[i] \in Policy!Decision
    BY <2>1, RowsWellFormed
  <2> QED
    BY <2>2, <2>3
       DEF Policy!Decision, Policy!Slots, Policy!Primary, Policy!Secondary, Policy!TieBreak
<1>2. ASSUME Len(rows) >= 4
      PROVE  FALSE
  <2>1. 1 \in DOMAIN rows /\ 2 \in DOMAIN rows /\ 3 \in DOMAIN rows /\ 4 \in DOMAIN rows
    BY <1>1, <1>2
  <2> QED BY <1>1, <2>1 DEF PolicyInv, Det!OneRowPerSlot
<1> QED BY <1>1, <1>2

(* A reordering of at most three rows holds the same rows. *)
LEMMA AnyOrderIsTheSame ==
    ASSUME PolicyInv, NEW p \in Policy!Orders
    PROVE  Policy!Determine(Policy!Permuted(p)) = Policy!Determine(rows)
<1> DEFINE q == Policy!Permuted(p)
<1>1. /\ DOMAIN rows = 1 .. Len(rows) /\ Len(rows) \in 0 .. 3
      /\ \A i \in DOMAIN rows : p[i] \in DOMAIN rows
      /\ \A i, j \in DOMAIN rows : p[i] = p[j] => i = j
  BY ThreeRows DEF Policy!Orders
<1>2. DOMAIN q = DOMAIN rows /\ \A i \in DOMAIN rows : q[i] = rows[p[i]]
  BY DEF Policy!Permuted
<1>3. \A j \in DOMAIN rows : \E i \in DOMAIN rows : p[i] = j
  <2>1. CASE Len(rows) = 0
    BY <1>1, <2>1
  <2>2. CASE Len(rows) = 1
    <3>1. DOMAIN rows = {1}
      BY <1>1, <2>2
    <3> QED BY <1>1, <3>1
  <2>3. CASE Len(rows) = 2
    <3>1. DOMAIN rows = {1, 2}
      BY <1>1, <2>3
    <3> QED BY <1>1, <3>1
  <2>4. CASE Len(rows) = 3
    <3>1. DOMAIN rows = {1, 2, 3}
      BY <1>1, <2>4
    <3> QED BY <1>1, <3>1
  <2>5. Len(rows) = 0 \/ Len(rows) = 1 \/ Len(rows) = 2 \/ Len(rows) = 3
    BY <1>1
  <2> QED BY <2>1, <2>2, <2>3, <2>4, <2>5
<1> HIDE DEF q
<1>4. /\ Det!WellFormed(rows) /\ Det!OneRowPerSlot(rows)
  BY RowsWellFormed DEF PolicyInv
<1>5. Det!WellFormed(q)
  BY <1>1, <1>2, <1>4 DEF Det!WellFormed
<1>6. Det!OneRowPerSlot(q)
  BY <1>1, <1>2, <1>4 DEF Det!OneRowPerSlot
<1>7. Det!SameRows(q, rows)
  BY <1>1, <1>2, <1>3 DEF Det!SameRows
<1>8. Det!Determine(q) = Det!Determine(rows)
  BY <1>4, <1>5, <1>6, <1>7, Det!OrderDoesNotMatter
<1> QED BY <1>8, SamePolicy DEF q

(* What is guaranteed of one list holds of the stored one. *)
LEMMA PolicySound ==
    ASSUME PolicyInv
    PROVE  /\ Policy!TypeOK
           /\ Policy!OrderIrrelevant
           /\ Policy!Conservative
           /\ Policy!CriticalNeedsAgreement
           /\ Policy!NeverAsksTwice
<1> DEFINE d == Det!Determine(rows)
<1>1. /\ Det!WellFormed(rows) /\ Det!OneRowPerSlot(rows) /\ rows \in Seq(Policy!Decision)
      /\ \A i \in DOMAIN rows : rows[i] \in Policy!Decision
  BY RowsWellFormed DEF PolicyInv
<1>2. Policy!Outcome = d
  BY SamePolicy DEF Policy!Outcome
<1>3. /\ d \in Det!PolicyResult
      /\ d.tieBreak => d.status = "under_review"
      /\ d.status # "under_review" => Det!TwoPrimaries(rows)
  BY <1>1, Det!DetermineResult DEF Det!UnderReview
<1>4. Policy!Filled("tie_break") <=> Det!TieRows(rows) # {}
  BY DEF Policy!Filled, Det!TieRows, Det!TieBreak
<1>5. ASSUME NEW i \in Policy!PrimaryRows(rows)
      PROVE  i \in Det!PrimaryRows(rows) /\ rows[i] \in Policy!Decision
  BY <1>1, SamePolicy DEF Policy!PrimaryRows
<1>6. Policy!Decided(Policy!Outcome) <=> d.status # "under_review" /\ ~d.tieBreak
  BY <1>2 DEF Policy!Decided, Policy!UnderReview
<1> HIDE DEF d
<1>7. Policy!TypeOK
  BY <1>1, <1>2, <1>3, ThreeRows
     DEF Policy!TypeOK, Policy!PolicyResult, Det!PolicyResult, Policy!Validities, Det!Validities,
         Policy!Severities, Det!Severities, Policy!UnderReview, Det!UnderReview, Policy!NoSeverity,
         Det!NoSeverity
<1>8. Policy!OrderIrrelevant
  BY AnyOrderIsTheSame DEF Policy!OrderIrrelevant, Policy!Outcome
<1>9. ASSUME NEW i \in Policy!PrimaryRows(rows), Policy!Decided(Policy!Outcome), ~Policy!Filled("tie_break")
      PROVE  /\ d.severity \in {rows[i].severity, rows[i].severity - 1}
             /\ \/ d.status = rows[i].validity
                \/ d.status = "qualified" /\ rows[i].validity = "confirmed"
             /\ rows[i].severity = 4 => d.severity = 4
  BY <1>1, <1>4, <1>5, <1>6, <1>9, Det!TwoConcludeConservatively
     DEF d, Det!UnderReview, Det!Critical
<1>10. Policy!Conservative
  BY <1>2, <1>5, <1>9 DEF Policy!Conservative, Policy!Firmness, Policy!TieBreak
<1>11. Policy!CriticalNeedsAgreement
  <2> SUFFICES ASSUME NEW i \in Policy!PrimaryRows(rows), rows[i].severity = 4,
                      Policy!Decided(Policy!Outcome), ~Policy!Filled("tie_break"),
                      NEW j \in Policy!PrimaryRows(rows)
               PROVE  rows[j].severity = 4
    BY DEF Policy!CriticalNeedsAgreement, Policy!Critical, Policy!TieBreak
  <2>1. d.severity = 4 /\ d.severity \in {rows[j].severity, rows[j].severity - 1}
    BY <1>9
  <2>2. rows[j].severity \in 0 .. 4
    BY <1>5 DEF Policy!Decision, Policy!Severities
  <2> QED BY <2>1, <2>2
<1>12. Policy!NeverAsksTwice
  <2> SUFFICES ASSUME Policy!Filled("tie_break") \/ (Policy!TwoPrimaries(rows) /\ ~Policy!Outcome.tieBreak)
               PROVE  Policy!Decided(Policy!Outcome) /\ Policy!Outcome.severity \in Policy!Severities
    BY DEF Policy!NeverAsksTwice, Policy!TieBreak
  <2>1. Det!TwoPrimaries(rows) /\ (Det!TieRows(rows) # {} \/ ~Det!Determine(rows).tieBreak)
    BY <1>2, <1>4, SamePolicy DEF PolicyInv, d
  <2>2. d.status \in Det!Validities /\ d.severity \in Det!Severities /\ ~d.tieBreak
    BY <1>1, <2>1, Det!NeverAsksAgain DEF d
  <2> QED BY <1>2, <1>6, <2>2 DEF Det!Validities, Det!Severities, Policy!Severities
<1> QED BY <1>7, <1>8, <1>10, <1>11, <1>12

(* A behaviour of the parts is a history of adjudications. *)
LEMMA PartOfPolicy == SpecParts => Policy!Spec
<1>1. InitParts => Policy!Init
  BY DEF InitParts
<1>2. [NextParts]_<<part, vars, signing, policy, scoring, claims, gates>> => [Policy!Next]_rows
  BY DEF NextParts, Of, Rest, policy
<1> QED BY <1>1, <1>2, PTL DEF SpecParts, Policy!Spec

-----------------------------------------------------------------------------
(* What the runs check of the parts. *)

(* The determination policy is a function of what was submitted, whatever the
   history: the order of the submissions changes nothing, two primaries are
   resolved downwards, a critical rating needs two, and a tie-break is asked for
   once and settles the matter (determine()).                                 *)
THEOREM PolicyAlwaysSound == SpecParts => []PolicyIsSound
<1>1. PolicyInv => PolicyIsSound
  BY PolicySound DEF PolicyIsSound
<1> QED BY <1>1, PartOfPolicy, PolicyInvariant, PTL

(* Nothing is claimed or passed without a verified authority for what is there,
   of damaged scorecards production accepts only what a production ceremony
   vouches for, and a gate that passes is one whose evidence is as attested
   (verify_claim_authorization, verify_evidence_envelope, verify_scorecard).  *)
THEOREM AuthorityAlwaysHolds == SpecParts => []AuthorityHolds
<1>1. Sign!Spec => []Sign!KeysHold
  BY SignSpec, SignMeans, SignAssumption, SignP!KeysAlwaysHold, PTL
<1>2. Claims!Spec => [](/\ Claims!TypeOK
                        /\ Claims!FlagMatchesHeadline
                        /\ Claims!PrecisionNeedsCompleteness
                        /\ Claims!NamingKeepsItValid)
  BY ClaimsSpec, ClaimsMeans, ClaimsAssumed, ClaimsP!ScorecardsAgree, PTL
<1>3. Gates!Spec => [](/\ Gates!TypeOK
                       /\ Gates!PassNeedsAuthority
                       /\ Gates!ChangedEvidenceCloses
                       /\ Gates!VolumeIsEarned)
  <2>1. GatesP!Assumptions
    BY GatesAssumed DEF GatesP!Assumptions
  <2> QED BY <2>1, GatesSpec, GatesMean, GatesAssumed, GatesP!GatesAreSound, PTL
<1>4. /\ Sign!KeysHold
      /\ Claims!TypeOK /\ Claims!FlagMatchesHeadline /\ Claims!PrecisionNeedsCompleteness
      /\ Claims!NamingKeepsItValid
      /\ Gates!TypeOK /\ Gates!PassNeedsAuthority /\ Gates!ChangedEvidenceCloses
      /\ Gates!VolumeIsEarned
      => AuthorityHolds
  BY DEF AuthorityHolds
<1> QED BY <1>1, <1>2, <1>3, <1>4, PartOfSigning, PartOfClaims, PartOfGates, PTL

(* What is refused once is refused for good: a revoked key whatever is edited and
   regenerated around it, a scorecard that production took back, and a gate
   closed by revocation, by time or by an edit until a new envelope is issued. *)
THEOREM RefusalsAlwaysLast == SpecParts => RefusalsLast
<1>1. Sign!Spec => Sign!RevocationIsFinal
  BY SignSpec, SignFinalMeans, SignAssumption, SignP!RevocationStands, PTL
<1>2. Spec => RefusalIsLasting
  BY RotateSpec, RotateMeans, RotateAssumption, RotateP!RefusalLasts, PTL
<1>3. Gates!Spec => Gates!ClosedStaysClosed
  <2>1. GatesP!Assumptions
    BY GatesAssumed DEF GatesP!Assumptions
  <2> QED BY <2>1, GatesSpec, GatesClosedMeans, GatesAssumed, GatesP!ClosedGatesStayClosed, PTL
<1> QED BY <1>1, <1>2, <1>3, PartOfSigning, PartOfRotation, PartOfGates, PTL DEF RefusalsLast

(* Scientific scorecards are built under a decision that is in force at that
   moment, for exactly the benchmark of the result, when callers verify under the
   production policy as the commands of the repository do.                    *)
THEOREM ScientificAlwaysAuthorized ==
  ASSUME VerifyModes \subseteq {"production"}
  PROVE  SpecParts => ScientificIsAuthorized
<1>1. Claims!Spec => Claims!ScientificIsAuthorized
  BY ClaimsSpec, ClaimsScientificMeans, ClaimsAssumed, ClaimsP!ScientificNeedsAuthority, PTL
<1> QED BY <1>1, PartOfClaims, PTL DEF ScientificIsAuthorized
=============================================================================
