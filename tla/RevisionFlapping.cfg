\* One worker and no redelivery: four observations of one planning record.
CONSTANTS
    planning1 = planning1
    other1 = other1
    a = a
    b = b
    w1 = w1
    w2 = w2
    None = None
    Signal = {planning1}
    Content = {a, b}
    Worker = {w1}
    SourceType <- MCSourceType
    MaxReceive = 1
    MaxObservations = 4
    MaxDay = 1
SPECIFICATION FairSpec
PROPERTIES
    ObservedIsCanonical
CHECK_DEADLOCK FALSE
