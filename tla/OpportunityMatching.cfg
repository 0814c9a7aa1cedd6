\* One site, three signals, two jobs at once: every order and interleaving of
\* the worker's transactions with one action of maintenance or an administrator.
CONSTANTS
    R1 = R1
    R2 = R2
    w1 = w1
    w2 = w2
    Signal <- ThreeSignals
    Opportunity <- TwoOpportunities
    Worker <- TwoWorkers
    Reference <- BothReferences
    Scene <- Scenes
SPECIFICATION Spec
SYMMETRY WorkerSymmetry
INVARIANT TypeOK
INVARIANT SystemCreatesOnce
INVARIANT FamiliesConverge
PROPERTY RejectedPairsStayRejected
PROPERTY EvidenceIsNotLost
CHECK_DEADLOCK FALSE
