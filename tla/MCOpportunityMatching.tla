------------------------ MODULE MCOpportunityMatching ------------------------
(***************************************************************************)
(* Two scenes.  In the first, recruitment that shows a change, a planning  *)
(* follow-up and the foundational application it mentions are of one site. *)
(* In the second, routine recruitment of another operator in the same      *)
(* postcode meets the application.                                         *)
(***************************************************************************)
EXTENDS OpportunityMatching, TLC

CONSTANTS R1, R2, w1, w2

ThreeSignals == 1..3
TwoOpportunities == 1..2
TwoWorkers == {w1, w2}
BothReferences == {R1, R2}
WorkerSymmetry == Permutations(TwoWorkers)

OneSite ==
    [signals |-> 1..3, opportunities |-> 1..2,
     class |-> <<"change", "followup", "origin">>, primary |-> <<"none", R2, R1>>,
     prior |-> <<{}, {R1}, {}>>, postcode |-> <<"P", "P", "P">>, operator |-> <<"A", "A", "A">>,
     kinds |-> {"recalculate", "unlink"}, maxEvents |-> 2]

TwoOperators ==
    [signals |-> {1, 3}, opportunities |-> 1..2,
     class |-> <<"routine", "irrelevant", "origin">>, primary |-> <<"none", "none", R1>>,
     prior |-> <<{}, {}, {}>>, postcode |-> <<"P", "Q", "P">>, operator |-> <<"B", "B", "A">>,
     kinds |-> {"replay", "reconcile", "approved", "recalculate", "link", "merge", "create",
                "review", "unlink", "split"}, maxEvents |-> 2]

Scenes == {OneSite, TwoOperators}
=============================================================================
