\* One watch, a quota of seven requests, polls of up to six.
CONSTANTS
    w1 = w1
    w2 = w2
    o1 = o1
    o2 = o2
    r1 = r1
    r2 = r2
    r3 = r3
    pending = pending
    refused = refused
    k1 = k1
    c1 = c1
    None = None
    Watch = {w1}
    Opportunity = {o1}
    OpportunityOf <- MCOpportunityOf
    Run = {r1}
    WatchOf <- MCWatchOf
    Outcome = {pending}
    First = pending
    Decided = {}
    Negative = {}
    Coordinator = {k1}
    Collector = {c1}
    Period = {"day", "month"}
    MaxPolls = 1
    Limit <- MCLimitSeven
    MaxRequests = 6
    MaxReceive = 1
SPECIFICATION Spec
INVARIANTS
    RequestsWithinQuota
CHECK_DEADLOCK FALSE
