\* Two coordinators over two watches in the two scenes of QueueingNext; no
\* collector runs, so runs settle by a failed send or the sweep.  The two rows
\* of w1 and the two coordinators are interchangeable.  Limit and MaxPolls are
\* those of the race; the pair has two of each.
CONSTANTS
    w1 = w1
    w2 = w2
    o1 = o1
    o2 = o2
    r1 = r1
    r2 = r2
    r3 = r3
    pending = pending
    refused = refused
    k1 = k1
    k2 = k2
    None = None
    Watch = {w1, w2}
    Opportunity = {o1, o2}
    OpportunityOf <- MCOneOpportunity
    Run = {r1, r2, r3}
    WatchOf <- MCWatchOf
    Outcome = {pending}
    First = pending
    Decided = {}
    Negative = {}
    Coordinator = {k1, k2}
    Collector = {}
    Period = {"day"}
    MaxPolls = 1
    Limit <- MCLimitOne
    MaxRequests = 1
    MaxReceive = 1
SPECIFICATION QueueingSpec
INVARIANTS
    TypeOK
    OneActiveRun
    ActiveWithinQuota
PROPERTIES
    QueuesOnlyWhenAllowed
SYMMETRY MCSymmetry
CHECK_DEADLOCK FALSE
