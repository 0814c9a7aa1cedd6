CONSTANTS
    None = None
    s1 = s1
    s2 = s2
    w1 = w1
    w2 = w2
    q1 = q1
    f1 = f1
    f2 = f2
    MaxSignals = 6
    MaxCases = 2
    MaxAttempts = 2
    FirstDay = 4
    LastDay = 5
    Executor <- TwoWorkers
    SourceRow <- Rows
    Evidence <- TwoRetrievals
    Case <- TwoCases
    Manifest <- OneCorpus
    Window <- TwoWindows
    Opportunity <- TwoOpportunities
    Signal <- BothSignals
    Alike <- OneProject
    FirstLinks <- LinkedFirst
    KindsOf <- MaySay
    FirstSignals <- SaidFirst
    Worker <- TwoWorkers
    MaxEvents = 4
    Origin <- Applications
    Provided <- Applications
    Collected <- SecondOne
    KindOf <- ApplicationKind
    RevisedTo <- Revisions
    SameAuthority <- FirstOne
    SamePostcode <- FirstOne
    SameAddress <- FirstOne
    Queuer <- OneQueuer
    MaxRecoveries = 2
    MaxResults = 1
    Scope <- TwoScopes
SPECIFICATION ServicesSpec
SYMMETRY Symmetry
INVARIANTS
    ServicesTypeOK
    BacktestsAreBlind
    OriginsAreNotForgotten
    CompleteIsCovered
PROPERTIES
    BacktestsAreIdempotent
    CleanupSparesTheUsed
    CorrectionsAreCurrent
\* Requests and jobs end, and the bounds stop the rest.
CHECK_DEADLOCK FALSE
