\* Two workers over a planning record and a vacancy, every observation within
\* one of two days, one redelivery after the first delivery.
CONSTANTS
    planning1 = planning1
    other1 = other1
    a = a
    b = b
    w1 = w1
    w2 = w2
    None = None
    Signal = {planning1, other1}
    Content = {a, b}
    Worker = {w1, w2}
    SourceType <- MCSourceType
    MaxReceive = 2
    MaxObservations = 2
    MaxDay = 2
SPECIFICATION FairSpec
INVARIANTS
    TypeOK
    EvidenceIsStored
    CanonicalIsEvidenced
    AcknowledgedIsRecorded
    QueuedMeansSent
    MessagesNameEvidence
PROPERTIES
    DispatchesAreLocked
    EveryObservationSettles
    StoredIsEnriched
CHECK_DEADLOCK FALSE
