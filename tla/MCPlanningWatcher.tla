------------------------- MODULE MCPlanningWatcher -------------------------
(* Instances of PlanningWatcher: one watch, or two of one opportunity.     *)
(* Queueing has two scenes, told apart by whether o2 is blocked.  Either   *)
(* two watches race for a quota of one, or the watch of o2 may not be      *)
(* polled and the two rows of the other meet a quota and a batch of two,   *)
(* so that only the watch's own active run keeps a second one out.         *)
EXTENDS PlanningWatcher, TLC

CONSTANTS w1, w2, o1, o2, r1, r2, r3, pending, refused

MCOpportunityOf == [w \in Watch |-> IF w = w1 THEN o1 ELSE o2]
MCOneOpportunity == [w \in Watch |-> o1]
MCWatchOf == [r \in Run |-> IF r = r2 THEN w2 ELSE w1]
MCLimitOne == [p \in Period |-> 1]
MCLimitTwo == [p \in Period |-> 2]
MCLimitSeven == [p \in Period |-> 7]
MCSymmetry == Permutations(Coordinator) \cup Permutations({r1, r3})

Race == INSTANCE PlanningWatcher WITH Opportunity <- {o1}
Pair == INSTANCE PlanningWatcher WITH
    Opportunity <- {o1}, OpportunityOf <- MCOpportunityOf,
    Limit <- MCLimitTwo, MaxPolls <- 2

QueueingNext ==
    \/ Init /\ Block(o2)
    \/ o2 \notin blocked /\ Race!Next
    \/ o2 \in blocked /\ Pair!Next

QueueingSpec == Init /\ [][QueueingNext]_vars
=============================================================================
