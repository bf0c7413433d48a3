CONSTANTS
    Parts = {"policy", "scoring", "signing", "rotation", "claims", "gates"}
    KeyPairs <- ThreeKeys
    MaxTime = 2
    RootLife = 2
    ReleaseLife = 1
    MaxCeremonies = 1
    MaxRetired = 2
    HandRoles = {"online_release"}
    HandChannels <- ForProduction
    MaxSigned = 1
    SignMarks = {"own"}
    MayDamage = FALSE
    Manifests <- ScoredManifests
    Answers <- Given
    LaterAnswers <- Short
    Threshold = 3
    LowThreshold = 2
    AnchorWeight = 1
    TextWeight = 1
    DamageStore <- Damaged
    DamageSigned = 1
    DamageMarks = {"own"}
    Damages = TRUE
    ClaimStore <- ClaimKeys
    Benchmarks <- Contents
    Declarations <- DecisionMetrics
    DecisionLife = 1
    VerifyModes = {"production"}
    MaxEnvelopes = 1
    MaxResults = 1
    MaxScorecards = 1
    Mixes = FALSE
    GateStore <- GateKeys
    GateSlots <- AllGates
    Items = {"i1", "i2"}
    Domains = {"physics", "biology"}
    Adjudicators = {"ann"}
    MinExports = 2
    AuditTarget = 2
    HoldoutMinimum = 2
    AttestationLife = 1
SPECIFICATION SpecParts
CHECK_DEADLOCK FALSE
INVARIANTS
    PolicyIsSound
    ScoresAddUp
    KeysHold
    
PROPERTIES
    
    ScientificIsAuthorized
