SPECIFICATION Spec
CHECK_DEADLOCK FALSE
SYMMETRY PairSymmetry
CONSTANTS
  c1 = c1
  c2 = c2
  a1 = a1
  a2 = a2
  a3 = a3
  econ = econ
  stats = stats
  Nobody = Nobody
  NoCase = NoCase
  Cases <- TwoCases
  Concerns = {1, 2}
  Adjudicators <- Two
  Domains = {econ, stats}
  Artifacts = {1}
  Bundles <- SharedConcern
  DomainOf <- TwoDomains
  Calibrated = {econ}
  Conflicted = {}
  Inputs <- OneInput
  GrantInputs <- OneGrantInput
  MaxGrants = 2
  MaxAppeals = 2
INVARIANTS
    IInv
    AppealsTraceable
PROPERTIES
    HistoryIsAppendOnly
