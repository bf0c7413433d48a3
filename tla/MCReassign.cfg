SPECIFICATION FairSpec
CHECK_DEADLOCK FALSE
CONSTANTS
  c1 = c1
  c2 = c2
  a1 = a1
  a2 = a2
  a3 = a3
  econ = econ
  stats = stats
  Nobody = Nobody
  NoCase = NoCase
  Cases = {c1}
  Concerns = {1}
  Adjudicators <- Three
  Domains = {econ}
  Artifacts = {}
  Bundles <- OneConcern
  DomainOf <- AllEcon
  Calibrated = {}
  Conflicted <- OneConflict
  Inputs <- TwoInputs
  GrantInputs <- TwoGrantInputs
  MaxGrants = 1
  MaxAppeals = 0
PROPERTIES
  ConflictLeadsToReassignment
