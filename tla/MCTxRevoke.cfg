SPECIFICATION Spec

CONSTANTS
    a1 = a1  a2 = a2  a3 = a3
    Nobody = Nobody  NoRow = NoRow
    Requests = {1, 2, 3}
    Adjudicators <- Two
    Patient <- Two
    Grants = {"g1"}
    Revocable = {"g1"}
    Decisions <- OneDecision
    RowLocks = TRUE

INVARIANTS
    RevocationStopsReviews
    NobodyWaitsForever
