CONSTANTS
    Parts = {"calibration"}
    e1 = e1  x1 = x1  x2 = x2  x3 = x3  n1 = n1  n2 = n2  n3 = n3
    l1 = l1  l2 = l2  m1 = m1  m2 = m2  c1 = c1  k1 = k1  k2 = k2
    econ = econ  stats = stats
    Domains <- EconAndStats
    Trainees <- OneExpert
    Refs <- FourRefs
    DomainOf <- RefDomain
    Adjudications <- References
    SetInputs <- SeveralSets
    Answers <- Graded
    Rated <- EconAndStats
    MaxAttempts = 3
    None = none
    ScoringInFlight = 1
    Contributors <- Submitters
    Intakes <- Several
    Reconstructors <- Reviewers
    Calibrated <- Econ
    OwnerOf <- Uploader
    ClassOf <- Classified
    MaxDeterminations = 1
    ReviewsInFlight = 1
    Experts <- Earners
    Tasks <- TwoTasks
    Managers <- TwoManagers
    TypeOf <- Types
    InFlight = 2
    Updates = 1
    Candidates <- OneCandidate
    Novelists <- ThreeExperts
    Opinions <- Views
    Ratings = {1, 3}
    Cards <- Originals
    DecisionsInFlight = 1
    Nobody = nobody
SPECIFICATION SpecParts
CHECK_DEADLOCK FALSE
PROPERTIES PassingQualifies
