CONSTANTS
    Parts = {"import", "two", "run", "acquisition", "staging", "audit", "sessions"}
    Importers = {"i"}
    Uploaders = {"u"}
    Texts = {"t1", "t2"}
    Exports <- Overlapping
    Medias = {"text/markdown", "text/plain"}
    TextMedia = "text/markdown"
    ExportMedia = "application/json"
    Ids = {"", "mine"}
    Versions = {"1.0.0"}
    MaxRewrites = 2
    MaxCrashes = 1
    MaxUploads = 1
    RacingImporters <- TwoCommands
    RacingTexts = {"t1"}
    MaxRacingRewrites = 1
    Runners <- OneRunner
    Manuscripts <- SomeManuscripts
    Gold <- SomeGold
    MaxRuns = 3
    MaxDeaths = 2
    Sources = {"a", "b", "c"}
    Operators <- OneRunner
    Profiles <- SomeProfiles
    Records <- SomeRecords
    Reasons = {"author request"}
    MaxCommands = 4
    MaxEdits = 3
    Stagers <- Pair
    FileNames = {"a", "b", "c"}
    Contents = {"x", "y"}
    Packages <- Complete
    Minimum = 2
    MaxRebuilds = 1
    MaxKills = 1
    AuditSessions <- OneSession
    Auditors <- ThreeAuditors
    RacingSessions <- Pair
    RacingAuditors <- Pair
    Decisions = {"correct_match", "incorrect_match"}
    RacingDecisions = {"correct_match"}
    Populations <- SomePopulations
    TargetSize = 1
    NaturalTarget = 1
    MaxJudgments = 3
    MaxRacingJudgments = 4
    MaxDraws = 2
    MaxRacingDraws = 1
SPECIFICATION SpecParts
CHECK_DEADLOCK FALSE
INVARIANTS
    StoreBacksRows
    CasesAreBacked
    ConcernInOneCase
    DirectoriesBelongTogether
    
    AuditHolds

    
