\* A person publishes again what automation had published; it is withdrawn.
CONSTANTS
    r1 = r1
    r2 = r2
    Opportunity = {1}
    Evidence = {"pending", "refused"}
    Holdout = {}
    Runner = {r1}
    Setting = {"recurring"}
    BatchLimit = 1
    FailureLimit = 2
    MaxChanges = 2
    MaxRecomputed = 1
SPECIFICATION Spec
PROPERTIES
    HumanPublicationStands
CHECK_DEADLOCK FALSE
