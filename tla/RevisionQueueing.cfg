\* One worker, a planning record and its revision, one redelivery.
CONSTANTS
    planning1 = planning1
    other1 = other1
    a = a
    b = b
    w1 = w1
    w2 = w2
    None = None
    Signal = {planning1}
    Content = {a, b}
    Worker = {w1}
    SourceType <- MCSourceType
    MaxReceive = 2
    MaxObservations = 2
    MaxDay = 1
SPECIFICATION FairSpec
PROPERTIES
    RevisionIsQueued
CHECK_DEADLOCK FALSE
