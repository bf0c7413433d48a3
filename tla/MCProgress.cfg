CONSTANTS
    Parts = {"review", "queue", "claims", "staging", "import"}
    c1 = c1  a1 = a1  a2 = a2  a3 = a3  e1 = e1  e2 = e2  k1 = k1  econ = econ
    Nobody = Nobody  NoCase = NoCase
SPECIFICATION FairSpec
CHECK_DEADLOCK FALSE
PROPERTIES
    EventuallyDecided
    EventuallyReconstructed
    CommandsRecover
