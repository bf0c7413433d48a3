SPECIFICATION Spec

CONSTANTS
    a1 = a1  a2 = a2  a3 = a3
    Nobody = Nobody  NoRow = NoRow
    Requests = {1, 2}
    Adjudicators <- Two
    Patient <- None
    Grants = {"g1"}
    Revocable = {}
    Decisions <- OneDecision
    RowLocks = TRUE

INVARIANTS
    IndependentReviewers
