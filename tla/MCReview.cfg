SPECIFICATION Spec
CHECK_DEADLOCK FALSE
SYMMETRY Symmetry
CONSTANTS
  c1 = c1
  c2 = c2
  a1 = a1
  a2 = a2
  a3 = a3
  econ = econ
  stats = stats
  Nobody = Nobody
  NoCase = NoCase
  Cases = {c1}
  Concerns = {1}
  Adjudicators <- Three
  Domains = {econ}
  Artifacts = {}
  Bundles <- OneConcern
  DomainOf <- AllEcon
  Calibrated = {econ}
  Conflicted = {}
  Inputs <- ManyInputs
  GrantInputs <- AllGrantInputs
  MaxGrants = 2
  MaxAppeals = 0
INVARIANTS
    IndependentReviewers
    DeterminationsCurrent
    TieBreakWhenContested
    SettledMeansDone
    OpenWorkIsBacked
    BlindUntilSubmitted
    AuditPasses
PROPERTIES
    DecidedStaysDecided
    RefinesReview
