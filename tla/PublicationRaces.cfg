\* Two executions at once on one opportunity, people and new evidence.
CONSTANTS
    r1 = r1
    r2 = r2
    Opportunity = {1}
    Evidence = {"pending", "refused"}
    Holdout = {}
    Runner = {r1, r2}
    Setting = {"off", "manual", "recurring"}
    BatchLimit = 1
    FailureLimit = 2
    MaxChanges = 3
    MaxRecomputed = 1
SPECIFICATION Spec
SYMMETRY MCSymmetry
INVARIANTS
    TypeOK
    ItemsTellTheTruth
    FailuresBounded
PROPERTIES
    AutomationKeepsOut
CHECK_DEADLOCK FALSE
