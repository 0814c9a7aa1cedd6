\* Two opportunities and one execution at a time: what waits its turn.
CONSTANTS
    r1 = r1
    r2 = r2
    Opportunity = {1, 2}
    Evidence = {"pending", "refused"}
    Holdout = {}
    Runner = {r1}
    Setting = {"off", "recurring"}
    BatchLimit = 1
    FailureLimit = 2
    MaxChanges = 1
    MaxRecomputed = 1
SPECIFICATION FairSpec
PROPERTIES
    EligibleIsPublished
    StoppedIsWithdrawn
CHECK_DEADLOCK FALSE
