SPECIFICATION SpecParts

CONSTANTS
    a1 = a1  a2 = a2  a3 = a3
    Nobody = Nobody  NoRow = NoRow
    Requests = {1, 2}
    Adjudicators <- Three
    Patient <- Three
    Grants = {"g1", "g2"}
    Revocable = {"g1"}
    Decisions <- MajorOrCritical
    RowLocks = TRUE

INVARIANTS
    TypeOK
    IndependentReviewers
    WorkMatchesTask
    SqliteStaysCurrent

PROPERTIES
    StepsOfAPanel
