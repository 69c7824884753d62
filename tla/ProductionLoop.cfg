SPECIFICATION FairSpec
CONSTANTS
    item1 = item1
    item2 = item2
    reviewer1 = reviewer1
    reviewer2 = reviewer2
    NoCall = NoCall
    Items <- MCItems
    Reviewers <- MCReviewers
    PrototypeRequired = TRUE
    StaleLimit = 2
    MaxIterations = 3
    MaxStarts = 1
    MaxRuns = 2
INVARIANTS
    TypeOK
    ReadyIsReviewed
    CompletedIsDelivered
PROPERTIES
    VerdictIsCurrent
    TurnEnds
CHECK_DEADLOCK FALSE
