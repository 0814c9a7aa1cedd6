\* One watch from enrolment to the recorded decision, with every failure.
CONSTANTS
    w1 = w1
    w2 = w2
    o1 = o1
    o2 = o2
    r1 = r1
    r2 = r2
    r3 = r3
    pending = pending
    refused = refused
    k1 = k1
    c1 = c1
    None = None
    Watch = {w1}
    Opportunity = {o1}
    OpportunityOf <- MCOpportunityOf
    Run = {r1}
    WatchOf <- MCWatchOf
    Outcome = {pending, refused}
    First = pending
    Decided = {refused}
    Negative = {refused}
    Coordinator = {k1}
    Collector = {c1}
    Period = {"day"}
    MaxPolls = 1
    Limit <- MCLimitOne
    MaxRequests = 1
    MaxReceive = 1
SPECIFICATION FairSpec
INVARIANTS
    SnapshotWasOffered
PROPERTIES
    ResultIsFinal
    EveryRunSettles
    PublishedIsRecorded
CHECK_DEADLOCK FALSE
