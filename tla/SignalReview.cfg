\* One signal of every kind, two workers and one administrator.
SPECIFICATION FairSpec
CONSTANTS
    s1 = s1
    w1 = w1
    w2 = w2
    None = None
    Signal = {s1}
    Worker = {w1, w2}
    Kind <- MCKind
    Content <- MCContent
    Verdict <- MCVerdict
    MaxEvents = 2
INVARIANT TypeOK
PROPERTY DecisionsStand
PROPERTY HeldOutIsForHumans
PROPERTY RefusedLeavesInbox
PROPERTY CareAssessmentIsJudged
CHECK_DEADLOCK FALSE
