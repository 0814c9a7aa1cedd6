------------------------ MODULE SignalIngestionProofs ------------------------
(***************************************************************************)
(* The safety properties of SignalIngestion, for any number of signals,    *)
(* payloads, workers, deliveries and days.                                 *)
(***************************************************************************)
EXTENDS SignalIngestion, SequenceTheorems, TLAPS

\* What is always true of one worker.
WorkerInv(w) ==
    LET s == Current(w).signal
        c == Current(w).content
        k == job[w].key
    IN  \* It holds a message that some collector sent.
        /\ ~Busy(w, {"idle"}) => job[w].message \in DOMAIN observations
        \* What the key it carries from step to step stands for.
        /\ Busy(w, {"putRaw", "store", "putRevision", "storeRevision", "sendRevision",
                    "dispatch", "send", "markQueued"}) => k \in Key
        /\ Busy(w, {"putRaw"}) => k.hash = None
        /\ Busy(w, {"store"}) => k.hash = None \/ k \in Seen(s)
        /\ Busy(w, {"store", "storeRevision"}) => objects[k] # None
        /\ Busy(w, {"putRevision", "storeRevision"}) => k.hash = c
        /\ Busy(w, {"dispatch", "send", "markQueued", "sendRevision"}) => k \in Seen(s)
        \* What it has established of its signal by the time it gets that far.
        /\ Busy(w, {"putRevision", "storeRevision", "sendRevision"}) => Mutable(s)
        /\ Busy(w, {"putRevision", "storeRevision", "sendRevision", "dispatch", "send",
                    "markQueued", "acknowledge"}) => Stored(s)
        /\ Busy(w, {"sendRevision", "dispatch", "send", "markQueued", "acknowledge"}) =>
                /\ c \in Evidenced(s)
                /\ ~Mutable(s) => signals[s].hash = c
        \* The row is locked from the second read of enrichment_queued_at to the
        \* commit: what was read is still true when the message leaves.
        /\ Busy(w, {"send", "markQueued"}) => rowLock[s] = w /\ ~signals[s].queued
        /\ Busy(w, {"markQueued"}) =>
                dispatches[s] > 0 /\ \E m \in enrichmentQueue : m.signal = s

\* An object named by a hash never holds anything else.
ObjectInv ==
    \A k \in Key : k.hash # None => objects[k] \in {None, k.hash}

\* A document's object is stored; a revision's key and row agree on the hash.
DocumentInv ==
    \A s \in Signal : \A i \in DOMAIN documents[s] :
        LET d == documents[s][i]
        IN  objects[d.key] # None /\ (d.key.hash # None => d.hash = d.key.hash)

\* Documents come with the signal; its content and its revisions are evidenced.
SignalInv ==
    \A s \in Signal :
        /\ ~Stored(s) => documents[s] = <<>>
        /\ Stored(s) => signals[s].hash \in Evidenced(s)
        /\ revisions[s] \subseteq Evidenced(s)

SharedInv ==
    /\ ObjectInv
    /\ DocumentInv
    /\ SignalInv
    /\ AcknowledgedIsRecorded
    /\ QueuedMeansSent
    /\ MessagesNameEvidence

\* What the queue may still deliver has a delivery left.
RedriveInv ==
    \A n \in DOMAIN delivery : delivery[n].state = "visible" => CanRetry(n)

IInv ==
    /\ TypeOK
    /\ RedriveInv
    /\ \A w \in Worker : WorkerInv(w)
    /\ SharedInv

\* What every step guarantees and every worker relies on: nothing that was
\* stored, evidenced or sent is ever taken back, and a signal whose source
\* does not revise keeps its content.
Grows ==
    /\ \A n \in DOMAIN observations :
            n \in DOMAIN observations' /\ observations'[n] = observations[n]
    /\ \A s \in Signal :
            /\ Seen(s) \subseteq Seen(s)'
            /\ Evidenced(s) \subseteq Evidenced(s)'
            /\ Stored(s) => Stored(s)'
            /\ Stored(s) /\ ~Mutable(s) => signals'[s].hash = signals[s].hash
            /\ Stored(s) /\ signals[s].queued => signals'[s].queued
            /\ dispatches'[s] >= dispatches[s]
    /\ \A k \in Key : objects[k] # None => objects'[k] # None
    /\ enrichmentQueue \subseteq enrichmentQueue'
-----------------------------------------------------------------------------
\* Inserting a document keeps every key and hash a signal had; afterwards the
\* key is a document of the signal, with this hash if it was not one before.
LEMMA WithDocumentFacts ==
    ASSUME documents \in [Signal -> Seq(Document)],
           NEW s \in Signal, NEW k \in Key, NEW c \in Content,
           documents' = WithDocument(s, k, c)
    PROVE  /\ documents' \in [Signal -> Seq(Document)]
           /\ \A t \in Signal : /\ Seen(t) \subseteq Seen(t)'
                                /\ Evidenced(t) \subseteq Evidenced(t)'
                                /\ t # s => documents'[t] = documents[t]
           /\ k \in Seen(s)'
           /\ k \in Seen(s) \/ c \in Evidenced(s)'
           /\ \A i \in DOMAIN documents'[s] :
                 \/ i \in DOMAIN documents[s] /\ documents'[s][i] = documents[s][i]
                 \/ k \notin Seen(s) /\ documents'[s][i] = [key |-> k, hash |-> c]
           /\ documents'[s] # <<>>
<1>1. CASE k \in Seen(s)
  <2>1. documents' = documents
    BY <1>1 DEF WithDocument
  <2>2. documents[s] # <<>>
    BY <1>1 DEF Seen
  <2> QED
    BY <1>1, <2>1, <2>2 DEF Seen, Evidenced
<1>2. CASE k \notin Seen(s)
  <2> DEFINE d == [key |-> k, hash |-> c]
  <2>1. documents' = [documents EXCEPT ![s] = Append(@, d)]
    BY <1>2 DEF WithDocument
  <2>2. d \in Document /\ documents[s] \in Seq(Document)
    BY DEF Document
  <2>3. documents'[s] = Append(documents[s], d) /\ \A t \in Signal \ {s} : documents'[t] = documents[t]
    BY <2>1
  <2>4. /\ Append(documents[s], d) \in Seq(Document)
        /\ DOMAIN Append(documents[s], d) = 1 .. Len(documents[s]) + 1
        /\ DOMAIN documents[s] = 1 .. Len(documents[s])
        /\ Len(documents[s]) \in Nat
        /\ \A i \in 1 .. Len(documents[s]) : Append(documents[s], d)[i] = documents[s][i]
        /\ Append(documents[s], d)[Len(documents[s]) + 1] = d
    BY <2>2
  <2>5. documents' \in [Signal -> Seq(Document)]
    BY <2>1, <2>4
  <2>6. d.key = k /\ d.hash = c
    OBVIOUS
  <2> HIDE DEF d
  <2>7. \A t \in Signal : Seen(t) \subseteq Seen(t)' /\ Evidenced(t) \subseteq Evidenced(t)'
    BY <2>3, <2>4 DEF Seen, Evidenced
  <2>8. k \in Seen(s)' /\ c \in Evidenced(s)'
    BY <2>3, <2>4, <2>6 DEF Seen, Evidenced
  <2>9. documents'[s] # <<>>
    BY <2>3, <2>4
  <2>10. \A i \in DOMAIN documents'[s] :
            \/ i \in DOMAIN documents[s] /\ documents'[s][i] = documents[s][i]
            \/ documents'[s][i] = d
    BY <2>3, <2>4
  <2> QED
    BY <1>2, <2>3, <2>5, <2>7, <2>8, <2>9, <2>10 DEF d
<1> QED
  BY <1>1, <1>2

\* A worker that does not move keeps its invariant when the rest of the system
\* grows and leaves the row it has locked alone.
LEMMA WorkerKept ==
    ASSUME TypeOK, TypeOK', Grows,
           NEW v \in Worker, WorkerInv(v), job'[v] = job[v],
           Busy(v, {"send", "markQueued"}) =>
               LET s == Current(v).signal
               IN  rowLock'[s] = rowLock[s] /\ (signals'[s].queued => signals[s].queued)
    PROVE  WorkerInv(v)'
<1>1. CASE Busy(v, {"idle"})
  BY <1>1 DEF WorkerInv, Busy
<1>2. CASE ~Busy(v, {"idle"})
  <2>1. job[v].message \in DOMAIN observations
    BY <1>2 DEF WorkerInv
  <2>2. observations[job[v].message] \in Observation
    BY <2>1 DEF TypeOK
  <2>3. Current(v)' = Current(v) /\ job'[v].message \in DOMAIN observations'
    BY <2>1 DEF Grows, Current
  <2>4. PICK s \in Signal, c \in Content : Current(v).signal = s /\ Current(v).content = c
    BY <2>2 DEF Current, Observation
  <2>5. /\ Seen(s) \subseteq Seen(s)' /\ Evidenced(s) \subseteq Evidenced(s)'
        /\ Stored(s) => Stored(s)'
        /\ Stored(s) /\ ~Mutable(s) => signals'[s].hash = signals[s].hash
        /\ dispatches[s] \in Nat /\ dispatches'[s] >= dispatches[s]
        /\ enrichmentQueue \subseteq enrichmentQueue'
    BY DEF Grows, TypeOK
  <2>6. job[v].key \in Key => (objects[job[v].key] # None => objects'[job[v].key] # None)
    BY DEF Grows
  <2>7. Current(v)'.signal = s /\ Current(v)'.content = c
    BY <2>3, <2>4
  <2>8. dispatches[s] > 0 => dispatches'[s] > 0
    BY <2>5 DEF TypeOK
  <2>9. (\E m \in enrichmentQueue : m.signal = s) => \E m \in enrichmentQueue' : m.signal = s
    BY <2>5
  <2> QED
    BY <2>3, <2>4, <2>5, <2>6, <2>7, <2>8, <2>9 DEF WorkerInv, Busy, Mutable
<1> QED
  BY <1>1, <1>2

\* A step that changes neither the database, the bucket nor the enrichment
\* queue, and acknowledges nothing, keeps what is true of them.
LEMMA SharedKept ==
    ASSUME TypeOK, TypeOK', SharedInv,
           UNCHANGED <<database, objects, enrichmentQueue, dispatches>>,
           \A n \in DOMAIN observations :
                n \in DOMAIN observations' /\ observations'[n] = observations[n],
           \A n \in DOMAIN delivery' : delivery'[n].state = "deleted" =>
                n \in DOMAIN delivery /\ delivery[n].state = "deleted"
    PROVE  SharedInv'
<1> USE DEF database
<1>1. ObjectInv' /\ DocumentInv' /\ SignalInv'
  BY DEF SharedInv, ObjectInv, DocumentInv, SignalInv, Stored, Evidenced
<1>2. ASSUME NEW n \in DOMAIN delivery', delivery'[n].state = "deleted"
      PROVE  /\ n \in DOMAIN delivery /\ delivery[n].state = "deleted"
             /\ observations'[n] = observations[n]
  <2>1. n \in DOMAIN delivery /\ delivery[n].state = "deleted"
    BY <1>2
  <2>2. DOMAIN delivery = DOMAIN observations
    BY DEF TypeOK
  <2> QED
    BY <2>1, <2>2
<1>4. AcknowledgedIsRecorded'
  BY <1>2 DEF SharedInv, AcknowledgedIsRecorded, Stored, Evidenced, Mutable
<1>3. QueuedMeansSent' /\ MessagesNameEvidence'
  BY DEF SharedInv, QueuedMeansSent, MessagesNameEvidence, Stored, Seen
<1> QED
  BY <1>1, <1>4, <1>3 DEF SharedInv

\* The message of a busy worker, and the type of its locals.
LEMMA Actor ==
    ASSUME TypeOK, NEW w \in Worker, WorkerInv(w), ~Busy(w, {"idle"})
    PROVE  /\ Current(w) \in Observation
           /\ job[w] \in Job
           /\ job[w].message \in DOMAIN delivery
           /\ job[w].message \in DOMAIN observations
<1>1. job[w].message \in DOMAIN observations
  BY DEF WorkerInv
<1> QED
  BY <1>1 DEF TypeOK, Current

\* A worker that goes to another step, keeping its key or taking a new one.
LEMMA Moves ==
    ASSUME TypeOK, NEW w \in Worker, NEW st \in Step, NEW k \in Key \cup {None},
           \/ GoTo(w, st) /\ k = job[w].key
           \/ GoToWith(w, st, k)
    PROVE  /\ job' \in [Worker -> Job]
           /\ job'[w] = [step |-> st, message |-> job[w].message, key |-> k]
           /\ \A v \in Worker \ {w} : job'[v] = job[v]
<1>1. job \in [Worker -> Job] /\ job[w] \in Job
  BY DEF TypeOK
<1>2. job' = [job EXCEPT ![w] = [step |-> st, message |-> job[w].message, key |-> k]]
  BY <1>1 DEF GoTo, GoToWith, Job
<1> QED
  BY <1>1, <1>2 DEF Job

\* When only worker w moves and the shared state stays, w's own invariant and
\* the types are all there is to show.
LEMMA LocalStep ==
    ASSUME IInv, TypeOK', RedriveInv', NEW w \in Worker,
           UNCHANGED <<observations, database, objects, rowLock, enrichmentQueue, dispatches>>,
           \A v \in Worker \ {w} : job'[v] = job[v],
           \A n \in DOMAIN delivery' : delivery'[n].state = "deleted" =>
                n \in DOMAIN delivery /\ delivery[n].state = "deleted",
           WorkerInv(w)'
    PROVE  IInv' /\ Grows
<1> USE DEF IInv, database
<1>1. Grows
  BY DEF Grows, Seen, Evidenced, Stored, TypeOK
<1>2. \A v \in Worker \ {w} : WorkerInv(v)'
  BY <1>1, WorkerKept
<1>3. SharedInv'
  BY SharedKept
<1> QED
  BY <1>1, <1>2, <1>3

LEMMA ReceiveStep ==
    ASSUME IInv, NEW w \in Worker, NEW n \in 1..MaxObservations, Receive(w, n)
    PROVE  IInv' /\ Grows
<1> USE DEF IInv
<1>1. n \in DOMAIN delivery /\ n \in DOMAIN observations /\ delivery[n] \in Delivery
  BY DEF Receive, TypeOK
<1>2. job'[w] = [step |-> "find", message |-> n, key |-> None] /\ job'[w] \in Job
  BY ConstantsAssumption DEF Receive, TypeOK, Job, Step
<1>3. delivery' = [delivery EXCEPT ![n] = [state |-> "inFlight", receives |-> delivery[n].receives + 1]]
      /\ [state |-> "inFlight", receives |-> delivery[n].receives + 1] \in Delivery
  BY <1>1, ConstantsAssumption DEF Receive, RedriveInv, CanRetry, Delivery
<1>4. TypeOK' /\ RedriveInv'
  BY <1>1, <1>2, <1>3 DEF TypeOK, Receive, database, RedriveInv, CanRetry
<1>5. WorkerInv(w)'
  BY <1>1, <1>2 DEF WorkerInv, Busy, Receive
<1> QED
  BY <1>1, <1>4, <1>5, LocalStep DEF Receive

LEMMA FindSignalStep ==
    ASSUME IInv, NEW w \in Worker, FindSignal(w)
    PROVE  IInv' /\ Grows
<1> USE DEF IInv
<1>1. /\ job[w].step = "find" /\ job[w] \in Job
      /\ Current(w) \in Observation /\ job[w].message \in DOMAIN observations
  BY Actor DEF FindSignal, Busy
<1>2. UNCHANGED <<observations, delivery, today, database, objects, rowLock, enrichmentQueue,
                  dispatches>>
  BY DEF FindSignal
<1>3. PICK s \in Signal, c \in Content, d \in Day :
          Current(w).signal = s /\ Current(w).content = c /\ Current(w).day = d
  BY <1>1 DEF Observation
<1>4. PICK st \in Step, k \in Key \cup {None} :
          /\ (GoTo(w, st) /\ k = job[w].key) \/ GoToWith(w, st, k)
          /\ \/ st = "putRaw" /\ k \in Key /\ k.hash = None
             \/ st = "store" /\ k \in Key /\ k \in Seen(s) /\ objects[k] # None
             \/ st = "putRevision" /\ k \in Key /\ k.hash = c /\ Mutable(s) /\ Stored(s)
             \/ st = "conflict"
  <2>1. CASE signals[s] = None
    <3>1. RawKey(s, d) \in Key /\ RawKey(s, d).hash = None
      BY DEF RawKey, Key
    <3>2. GoToWith(w, "putRaw", RawKey(s, d))
      BY <1>3, <2>1 DEF FindSignal
    <3> QED
      BY <3>1, <3>2 DEF Step
  <2>2. CASE signals[s] # None /\ signals[s].hash = c
    <3>1. documents[s] # <<>> /\ documents[s] \in Seq(Document)
      BY <2>2 DEF SharedInv, SignalInv, Stored, Evidenced, TypeOK
    <3>2. Len(documents[s]) \in DOMAIN documents[s] /\ documents[s][Len(documents[s])] \in Document
      BY <3>1
    <3>3. PICK k \in Key : k = documents[s][Len(documents[s])].key
      BY <3>2 DEF Document
    <3>4. k \in Seen(s) /\ objects[k] # None
      BY <3>2, <3>3 DEF SharedInv, DocumentInv, Seen
    <3>5. GoToWith(w, "store", k)
      BY <1>3, <2>2, <3>3 DEF FindSignal
    <3> QED
      BY <3>4, <3>5 DEF Step
  <2>3. CASE signals[s] # None /\ signals[s].hash # c /\ Mutable(s)
    <3>1. RevisionKey(s, d, c) \in Key /\ RevisionKey(s, d, c).hash = c
      BY DEF RevisionKey, Key
    <3>2. GoToWith(w, "putRevision", RevisionKey(s, d, c))
      BY <1>3, <2>3 DEF FindSignal
    <3> QED
      BY <2>3, <3>1, <3>2 DEF Step, Stored
  <2>4. CASE signals[s] # None /\ signals[s].hash # c /\ ~Mutable(s)
    <3>1. GoTo(w, "conflict") /\ job[w].key \in Key \cup {None}
      BY <1>1, <1>3, <2>4 DEF FindSignal, Job
    <3> QED
      BY <3>1 DEF Step
  <2> QED
    BY <2>1, <2>2, <2>3, <2>4
<1>5. /\ job' \in [Worker -> Job] /\ \A v \in Worker \ {w} : job'[v] = job[v]
      /\ job'[w] = [step |-> st, message |-> job[w].message, key |-> k]
  BY <1>4, Moves
<1>6. TypeOK' /\ RedriveInv'
  BY <1>2, <1>5 DEF TypeOK, RedriveInv, CanRetry, database
<1>7. Current(w)' = Current(w)
  BY <1>2, <1>5 DEF Current
<1>8. WorkerInv(w)'
  BY <1>1, <1>2, <1>3, <1>4, <1>5, <1>7 DEF WorkerInv, Busy, Stored, Seen, Mutable, database
<1> QED
  BY <1>2, <1>5, <1>6, <1>8, LocalStep

\* A step of worker w that may change shared state as well.
LEMMA SharedStep ==
    ASSUME IInv, TypeOK', RedriveInv', Grows, NEW w \in Worker,
           \A v \in Worker \ {w} :
               /\ job'[v] = job[v]
               /\ Busy(v, {"send", "markQueued"}) =>
                    LET s == Current(v).signal
                    IN  rowLock'[s] = rowLock[s] /\ (signals'[s].queued => signals[s].queued),
           WorkerInv(w)', SharedInv'
    PROVE  IInv' /\ Grows
<1>1. \A v \in Worker \ {w} : WorkerInv(v)'
  BY WorkerKept DEF IInv
<1> QED
  BY <1>1 DEF IInv

LEMMA PutEvidenceStep ==
    ASSUME IInv, NEW w \in Worker, PutRaw(w) \/ PutRevision(w)
    PROVE  IInv' /\ Grows
<1> USE DEF IInv
<1>1. /\ Busy(w, {"putRaw", "putRevision"}) /\ job[w] \in Job /\ job[w].key \in Key
      /\ Current(w) \in Observation /\ job[w].message \in DOMAIN observations
  BY Actor DEF PutRaw, PutRevision, PutEvidence, Busy, WorkerInv
<1>2. PICK s \in Signal, c \in Content, d \in Day :
          Current(w).signal = s /\ Current(w).content = c /\ Current(w).day = d
  BY <1>1 DEF Observation
<1>3. PICK k \in Key : k = job[w].key
  BY <1>1
<1>4. /\ UNCHANGED <<observations, delivery, today, database, rowLock, enrichmentQueue, dispatches>>
      /\ objects' = [objects EXCEPT ![k] = c]
  BY <1>2, <1>3 DEF PutRaw, PutRevision, PutEvidence
<1>5. PICK st \in Step :
          /\ GoTo(w, st)
          /\ \/ st = "store" /\ k.hash = None
             \/ st = "storeRevision" /\ k.hash = c /\ Mutable(s) /\ Stored(s)
  BY <1>1, <1>2, <1>3 DEF PutRaw, PutRevision, PutEvidence, WorkerInv, Busy, Step
<1>6. /\ job' \in [Worker -> Job] /\ \A v \in Worker \ {w} : job'[v] = job[v]
      /\ job'[w] = [step |-> st, message |-> job[w].message, key |-> k]
  BY <1>1, <1>3, <1>5, Moves
<1>7. TypeOK' /\ RedriveInv'
  BY <1>4, <1>6 DEF TypeOK, RedriveInv, CanRetry, database
<1>8. c # None
  BY ConstantsAssumption
<1>9. Grows
  BY <1>4, <1>8 DEF Grows, Seen, Evidenced, Stored, TypeOK, database
<1>10. Current(w)' = Current(w)
  BY <1>4, <1>6 DEF Current
<1>11. objects'[k] # None
  BY <1>4, <1>8 DEF TypeOK
<1>12. WorkerInv(w)'
  BY <1>1, <1>2, <1>4, <1>5, <1>6, <1>10, <1>11 DEF WorkerInv, Busy, Stored, Mutable, database
<1>13. SharedInv'
  <2>1. ObjectInv'
    BY <1>4, <1>5 DEF SharedInv, ObjectInv, TypeOK
  <2>2. DocumentInv'
    <3>1. ASSUME NEW t \in Signal, NEW i \in DOMAIN documents[t]
          PROVE  documents[t][i].key \in Key
      <4>1. documents[t] \in Seq(Document)
        BY DEF TypeOK
      <4>2. documents[t][i] \in Document
        BY <4>1
      <4> QED
        BY <4>2 DEF Document
    <3> QED
      BY <1>4, <1>9, <3>1 DEF SharedInv, DocumentInv, Grows, database
  <2>3. SignalInv' /\ AcknowledgedIsRecorded' /\ QueuedMeansSent' /\ MessagesNameEvidence'
    BY <1>4 DEF SharedInv, SignalInv, AcknowledgedIsRecorded, QueuedMeansSent, MessagesNameEvidence,
                Stored, Seen, Evidenced, Mutable, database
  <2> QED
    BY <2>1, <2>2, <2>3 DEF SharedInv
<1>14. \A v \in Worker \ {w} : rowLock' = rowLock /\ signals' = signals
  BY <1>4 DEF database
<1> QED
  BY <1>6, <1>7, <1>9, <1>12, <1>13, <1>14, SharedStep

LEMMA LockForDispatchStep ==
    ASSUME IInv, NEW w \in Worker, LockForDispatch(w)
    PROVE  IInv' /\ Grows
<1> USE DEF IInv
<1>1. /\ Busy(w, {"dispatch"}) /\ job[w] \in Job /\ job[w].key \in Key
      /\ Current(w) \in Observation /\ job[w].message \in DOMAIN observations
  BY Actor DEF LockForDispatch, Busy, WorkerInv
<1>2. PICK s \in Signal, c \in Content, d \in Day :
          Current(w).signal = s /\ Current(w).content = c /\ Current(w).day = d
  BY <1>1 DEF Observation
<1>3. /\ UNCHANGED <<observations, delivery, today, database, objects, enrichmentQueue, dispatches>>
      /\ Unlocked(s)
  BY <1>2 DEF LockForDispatch
<1>4. PICK st \in Step :
          /\ GoTo(w, st)
          /\ \/ st = "acknowledge" /\ rowLock' = rowLock
             \/ st = "send" /\ rowLock' = [rowLock EXCEPT ![s] = w] /\ ~signals[s].queued
  BY <1>2 DEF LockForDispatch, Step, AlreadyQueued
<1>5. /\ job' \in [Worker -> Job] /\ \A v \in Worker \ {w} : job'[v] = job[v]
      /\ job'[w] = [step |-> st, message |-> job[w].message, key |-> job[w].key]
  BY <1>1, <1>4, Moves
<1>6. TypeOK' /\ RedriveInv'
  BY <1>3, <1>4, <1>5 DEF TypeOK, RedriveInv, CanRetry, database
<1>7. Current(w)' = Current(w)
  BY <1>3, <1>5 DEF Current
<1>8. rowLock'[s] = w \/ st = "acknowledge"
  BY <1>4 DEF TypeOK
<1>9. WorkerInv(w)'
  BY <1>1, <1>2, <1>3, <1>4, <1>5, <1>7, <1>8
     DEF WorkerInv, Busy, Stored, Seen, Evidenced, Mutable, database
<1>10. Grows
  BY <1>3 DEF Grows, Seen, Evidenced, Stored, TypeOK, database
<1>11. SharedInv'
  BY <1>3, <1>6, SharedKept
<1>12. ASSUME NEW v \in Worker \ {w}, Busy(v, {"send", "markQueued"})
       PROVE  rowLock'[Current(v).signal] = rowLock[Current(v).signal]
  <2>1. rowLock[Current(v).signal] = v
    BY <1>12 DEF WorkerInv
  <2>2. v # None
    BY ConstantsAssumption
  <2>3. Current(v).signal \in Signal
    BY <1>12, Actor DEF Busy, Observation
  <2> QED
    BY <1>3, <1>4, <2>1, <2>2, <2>3 DEF Unlocked, TypeOK
<1> QED
  BY <1>3, <1>5, <1>6, <1>9, <1>10, <1>11, <1>12, SharedStep DEF database

LEMMA SendEnrichmentStep ==
    ASSUME IInv, NEW w \in Worker, SendEnrichment(w)
    PROVE  IInv' /\ Grows
<1> USE DEF IInv
<1>1. /\ Busy(w, {"send"}) /\ job[w] \in Job /\ job[w].key \in Key
      /\ Current(w) \in Observation /\ job[w].message \in DOMAIN observations
  BY Actor DEF SendEnrichment, Busy, WorkerInv
<1>2. PICK s \in Signal, c \in Content, d \in Day :
          Current(w).signal = s /\ Current(w).content = c /\ Current(w).day = d
  BY <1>1 DEF Observation
<1>3. PICK k \in Key : k = job[w].key
  BY <1>1
<1>4. /\ UNCHANGED <<observations, delivery, today, database, objects, rowLock>>
      /\ enrichmentQueue' = enrichmentQueue \cup {[signal |-> s, key |-> k]}
      /\ dispatches' = [dispatches EXCEPT ![s] = @ + 1]
      /\ GoTo(w, "markQueued")
  BY <1>2, <1>3 DEF SendEnrichment
<1>5. /\ job' \in [Worker -> Job] /\ \A v \in Worker \ {w} : job'[v] = job[v]
      /\ job'[w] = [step |-> "markQueued", message |-> job[w].message, key |-> k]
  BY <1>1, <1>3, <1>4, Moves DEF Step
<1>6. dispatches' \in [Signal -> Nat] /\ dispatches'[s] > 0
      /\ \A t \in Signal : dispatches'[t] >= dispatches[t]
  BY <1>4 DEF TypeOK
<1>7. TypeOK' /\ RedriveInv'
  BY <1>4, <1>5, <1>6 DEF TypeOK, RedriveInv, CanRetry, database
<1>8. Current(w)' = Current(w)
  BY <1>4, <1>5 DEF Current
<1>9. \E m \in enrichmentQueue' : m.signal = s
  <2>1. [signal |-> s, key |-> k] \in enrichmentQueue'
    BY <1>4
  <2> QED
    BY <2>1
<1>10. WorkerInv(w)'
  BY <1>1, <1>2, <1>3, <1>4, <1>5, <1>6, <1>8, <1>9
     DEF WorkerInv, Busy, Stored, Seen, Evidenced, Mutable, database
<1>11. Grows
  BY <1>4, <1>6 DEF Grows, Seen, Evidenced, Stored, TypeOK, database
<1>12. SharedInv'
  <2>1. ObjectInv' /\ DocumentInv' /\ SignalInv' /\ AcknowledgedIsRecorded'
    BY <1>4 DEF SharedInv, ObjectInv, DocumentInv, SignalInv, AcknowledgedIsRecorded,
                Stored, Seen, Evidenced, Mutable, database
  <2>2. QueuedMeansSent'
    <3>1. \A t \in Signal : dispatches[t] > 0 => dispatches'[t] > 0
      BY <1>6 DEF TypeOK
    <3> QED
      BY <1>4, <3>1 DEF SharedInv, QueuedMeansSent, Stored, database
  <2>3. MessagesNameEvidence'
    <3>1. k \in Seen(s)
      BY <1>1, <1>2, <1>3 DEF WorkerInv, Busy
    <3> QED
      BY <1>4, <3>1 DEF SharedInv, MessagesNameEvidence, Seen, database
  <2> QED
    BY <2>1, <2>2, <2>3 DEF SharedInv
<1>13. \A v \in Worker \ {w} : rowLock' = rowLock /\ signals' = signals
  BY <1>4 DEF database
<1> QED
  BY <1>5, <1>7, <1>10, <1>11, <1>12, <1>13, SharedStep

LEMMA MarkQueuedStep ==
    ASSUME IInv, NEW w \in Worker, MarkQueued(w)
    PROVE  IInv' /\ Grows
<1> USE DEF IInv
<1>1. /\ Busy(w, {"markQueued"}) /\ job[w] \in Job
      /\ Current(w) \in Observation /\ job[w].message \in DOMAIN observations
  BY Actor DEF MarkQueued, Busy, WorkerInv
<1>2. PICK s \in Signal, c \in Content, d \in Day :
          Current(w).signal = s /\ Current(w).content = c /\ Current(w).day = d
  BY <1>1 DEF Observation
<1>3. /\ UNCHANGED <<observations, delivery, today, revisions, documents, objects,
                     enrichmentQueue, dispatches>>
      /\ signals' = [signals EXCEPT ![s].queued = TRUE]
      /\ rowLock' = [rowLock EXCEPT ![s] = None]
      /\ GoTo(w, "acknowledge")
  BY <1>2 DEF MarkQueued
<1>4. /\ job' \in [Worker -> Job] /\ \A v \in Worker \ {w} : job'[v] = job[v]
      /\ job'[w] = [step |-> "acknowledge", message |-> job[w].message, key |-> job[w].key]
  BY <1>1, <1>3, Moves DEF Step, Job
<1>5. /\ signals[s] \in Row /\ signals[s] # None /\ rowLock[s] = w
      /\ dispatches[s] > 0 /\ \E m \in enrichmentQueue : m.signal = s
      /\ c \in Evidenced(s) /\ (~Mutable(s) => signals[s].hash = c)
  BY <1>1, <1>2 DEF WorkerInv, Busy, Stored, TypeOK
<1>6. PICK row \in Row : /\ row.hash = signals[s].hash /\ row.queued
                         /\ signals' = [signals EXCEPT ![s] = row]
  BY <1>3, <1>5 DEF Row, TypeOK
<1>7. row # None /\ signals'[s] = row /\ \A t \in Signal \ {s} : signals'[t] = signals[t]
  <2>1. signals'[s] = row /\ \A t \in Signal \ {s} : signals'[t] = signals[t]
    BY <1>6 DEF TypeOK
  <2>2. row # None
    BY <1>6, ConstantsAssumption
  <2> QED
    BY <2>1, <2>2
<1>8. TypeOK' /\ RedriveInv'
  BY <1>3, <1>4, <1>6 DEF TypeOK, RedriveInv, CanRetry
<1>9. Current(w)' = Current(w)
  BY <1>3, <1>4 DEF Current
<1>10. \A t \in Signal : /\ Seen(t)' = Seen(t) /\ Evidenced(t)' = Evidenced(t)
                         /\ Stored(t)' <=> Stored(t)
                         /\ Stored(t) => signals'[t].hash = signals[t].hash
                         /\ Stored(t) /\ signals[t].queued => signals'[t].queued
  <2>1. \A t \in Signal : Seen(t)' = Seen(t) /\ Evidenced(t)' = Evidenced(t)
    BY <1>3 DEF Seen, Evidenced
  <2>2. ASSUME NEW t \in Signal
        PROVE  /\ Stored(t)' <=> Stored(t)
               /\ Stored(t) => signals'[t].hash = signals[t].hash
               /\ Stored(t) /\ signals[t].queued => signals'[t].queued
    <3>1. CASE t = s
      BY <1>5, <1>6, <1>7, <3>1 DEF Stored
    <3>2. CASE t # s
      BY <1>7, <3>2 DEF Stored
    <3> QED
      BY <3>1, <3>2
  <2> QED
    BY <2>1, <2>2
<1>11. WorkerInv(w)'
  <2>1. /\ Stored(s)' /\ c \in Evidenced(s)'
        /\ ~Mutable(s)' => signals'[s].hash = c
    BY <1>5, <1>10 DEF Stored, Mutable
  <2> QED
    BY <1>1, <1>2, <1>3, <1>4, <1>9, <2>1 DEF WorkerInv, Busy
<1>12. Grows
  BY <1>3, <1>10 DEF Grows, TypeOK
<1>13. SharedInv'
  <2>1. ObjectInv' /\ DocumentInv' /\ MessagesNameEvidence'
    BY <1>3 DEF SharedInv, ObjectInv, DocumentInv, MessagesNameEvidence, Seen
  <2>2. SignalInv'
    BY <1>3, <1>10 DEF SharedInv, SignalInv
  <2>3. QueuedMeansSent'
    BY <1>3, <1>5, <1>7 DEF SharedInv, QueuedMeansSent, Stored
  <2>4. AcknowledgedIsRecorded'
    <3>1. ASSUME NEW n \in DOMAIN delivery
          PROVE  observations[n].signal \in Signal
      <4>1. observations[n] \in Observation
        BY <3>1 DEF TypeOK
      <4> QED
        BY <4>1 DEF Observation
    <3> QED
      BY <1>3, <1>10, <3>1 DEF SharedInv, AcknowledgedIsRecorded, Mutable
  <2> QED
    BY <2>1, <2>2, <2>3, <2>4 DEF SharedInv
<1>14. ASSUME NEW v \in Worker \ {w}, Busy(v, {"send", "markQueued"})
       PROVE  Current(v).signal \in Signal \ {s}
  <2>1. rowLock[Current(v).signal] = v
    BY <1>14 DEF WorkerInv
  <2>2. Current(v).signal \in Signal
    BY <1>14, Actor DEF Busy, Observation
  <2> QED
    BY <1>5, <2>1, <2>2
<1>15. \A t \in Signal \ {s} : rowLock'[t] = rowLock[t]
  BY <1>3 DEF TypeOK
<1> QED
  BY <1>4, <1>7, <1>8, <1>11, <1>12, <1>13, <1>14, <1>15, SharedStep


\* The two transactions that store content: the row of s becomes row, a
\* document of key k and hash c is there afterwards, nothing else is touched.
LEMMA StoreStep ==
    ASSUME IInv, TypeOK', RedriveInv', NEW w \in Worker, NEW s \in Signal, NEW c \in Content,
           NEW k \in Key, NEW row \in Row,
           UNCHANGED <<observations, delivery, objects, rowLock, enrichmentQueue, dispatches>>,
           \A v \in Worker \ {w} : job'[v] = job[v],
           signals' = [signals EXCEPT ![s] = row],
           \/ ~Stored(s) /\ ~row.queued
           \/ /\ Stored(s)
              /\ row.queued = signals[s].queued
              /\ row.hash = signals[s].hash \/ Mutable(s),
           documents' = WithDocument(s, k, c),
           k \in Seen(s) \/ k.hash \in {None, c},
           objects[k] # None,
           SignalInv', WorkerInv(w)'
    PROVE  IInv' /\ Grows
<1> USE DEF IInv
<1>1. row # None /\ signals'[s] = row /\ \A t \in Signal \ {s} : signals'[t] = signals[t]
  <2>1. signals'[s] = row /\ \A t \in Signal \ {s} : signals'[t] = signals[t]
    BY DEF TypeOK
  <2>2. row # None
    BY ConstantsAssumption
  <2> QED
    BY <2>1, <2>2
<1>2. /\ \A t \in Signal : /\ Seen(t) \subseteq Seen(t)' /\ Evidenced(t) \subseteq Evidenced(t)'
                           /\ t # s => documents'[t] = documents[t]
      /\ \A i \in DOMAIN documents'[s] :
             \/ i \in DOMAIN documents[s] /\ documents'[s][i] = documents[s][i]
             \/ k \notin Seen(s) /\ documents'[s][i] = [key |-> k, hash |-> c]
  BY WithDocumentFacts DEF TypeOK
<1>3. ASSUME NEW t \in Signal
      PROVE  /\ Stored(t) => Stored(t)'
             /\ Stored(t) /\ ~Mutable(t) => signals'[t].hash = signals[t].hash
             /\ Stored(t)' /\ signals'[t].queued => Stored(t) /\ signals[t].queued
             /\ Stored(t) /\ signals[t].queued => signals'[t].queued
  <2>1. CASE t = s
    BY <1>1, <2>1 DEF Stored
  <2>2. CASE t # s
    BY <1>1, <2>2 DEF Stored
  <2> QED
    BY <2>1, <2>2
<1>4. Grows
  BY <1>2, <1>3 DEF Grows, TypeOK
<1>5. SharedInv'
  <2>1. ObjectInv'
    BY DEF SharedInv, ObjectInv
  <2>2. DocumentInv'
    <3>1. ASSUME NEW t \in Signal, NEW i \in DOMAIN documents'[t]
          PROVE  /\ objects[documents'[t][i].key] # None
                 /\ documents'[t][i].key.hash # None =>
                        documents'[t][i].hash = documents'[t][i].key.hash
      BY <1>2, <3>1 DEF SharedInv, DocumentInv
    <3> QED
      BY <3>1 DEF DocumentInv
  <2>3. AcknowledgedIsRecorded'
    <3>1. ASSUME NEW n \in DOMAIN delivery
          PROVE  observations[n].signal \in Signal
      <4>1. observations[n] \in Observation
        BY <3>1 DEF TypeOK
      <4> QED
        BY <4>1 DEF Observation
    <3> QED
      BY <1>2, <1>3, <3>1 DEF SharedInv, AcknowledgedIsRecorded, Mutable
  <2>4. QueuedMeansSent'
    BY <1>3 DEF SharedInv, QueuedMeansSent
  <2>5. MessagesNameEvidence'
    <3>1. \A m \in enrichmentQueue : m.signal \in Signal
      BY DEF TypeOK
    <3> QED
      BY <1>2, <3>1 DEF SharedInv, MessagesNameEvidence
  <2> QED
    BY <2>1, <2>2, <2>3, <2>4, <2>5 DEF SharedInv
<1>6. ASSUME NEW v \in Worker \ {w}, Busy(v, {"send", "markQueued"})
      PROVE  signals'[Current(v).signal].queued => signals[Current(v).signal].queued
  <2>1. Current(v).signal \in Signal
    BY <1>6, Actor DEF Busy, Observation
  <2>2. Stored(Current(v).signal)
    BY <1>6 DEF WorkerInv, Busy
  <2> QED
    BY <1>3, <2>1, <2>2, <1>1 DEF Stored
<1> QED
  BY <1>4, <1>5, <1>6, SharedStep

LEMMA StoreSignalStep ==
    ASSUME IInv, NEW w \in Worker, StoreSignal(w)
    PROVE  IInv' /\ Grows
<1> USE DEF IInv
<1>1. /\ Busy(w, {"store"}) /\ job[w] \in Job
      /\ Current(w) \in Observation /\ job[w].message \in DOMAIN observations
  BY Actor DEF StoreSignal, Busy
<1>2. PICK s \in Signal, c \in Content, d \in Day :
          Current(w).signal = s /\ Current(w).content = c /\ Current(w).day = d
  BY <1>1 DEF Observation
<1>3. PICK k \in Key : k = job[w].key
  BY <1>1 DEF WorkerInv, Busy
<1>4. (k.hash = None \/ k \in Seen(s)) /\ objects[k] # None
  BY <1>1, <1>2, <1>3 DEF WorkerInv, Busy
<1>5. PICK row \in Row : row = IF signals[s] = None THEN [hash |-> c, queued |-> FALSE]
                                                   ELSE signals[s]
  <2>1. [hash |-> c, queued |-> FALSE] \in Row
    BY DEF Row
  <2>2. signals[s] # None => signals[s] \in Row
    BY DEF TypeOK
  <2> QED
    BY <2>1, <2>2
<1>6. /\ UNCHANGED <<observations, delivery, today, revisions, objects, rowLock,
                     enrichmentQueue, dispatches>>
      /\ signals' = [signals EXCEPT ![s] = row]
      /\ documents' = WithDocument(s, k, c)
      /\ \/ row.hash # c /\ GoTo(w, "conflict")
         \/ row.hash = c /\ row.queued /\ GoTo(w, "acknowledge")
         \/ row.hash = c /\ ~row.queued /\ GoToWith(w, "dispatch", documents'[s][1].key)
  BY <1>2, <1>3, <1>5 DEF StoreSignal, Refused, NeedsDispatch
<1>7. /\ documents' \in [Signal -> Seq(Document)]
      /\ \A t \in Signal : Evidenced(t) \subseteq Evidenced(t)'
                          /\ (t # s => documents'[t] = documents[t])
      /\ k \in Seen(s)' /\ documents'[s] # <<>>
      /\ k \in Seen(s) \/ c \in Evidenced(s)'
  BY <1>6, WithDocumentFacts DEF TypeOK
<1>8. row # None /\ signals'[s] = row /\ \A t \in Signal \ {s} : signals'[t] = signals[t]
  <2>1. signals'[s] = row /\ \A t \in Signal \ {s} : signals'[t] = signals[t]
    BY <1>6 DEF TypeOK
  <2>2. row # None
    BY ConstantsAssumption
  <2> QED
    BY <2>1, <2>2
<1>9. row.hash \in Evidenced(s)'
  <2>1. CASE signals[s] = None
    <3>1. Seen(s) = {}
      BY <2>1 DEF SharedInv, SignalInv, Stored, Seen
    <3> QED
      BY <1>5, <1>7, <2>1, <3>1
  <2>2. CASE signals[s] # None
    BY <1>5, <1>7, <2>2 DEF SharedInv, SignalInv, Stored
  <2> QED
    BY <2>1, <2>2
<1>10. SignalInv'
  <2>1. ASSUME NEW t \in Signal
        PROVE  /\ ~Stored(t)' => documents'[t] = <<>>
               /\ Stored(t)' => signals'[t].hash \in Evidenced(t)'
               /\ revisions'[t] \subseteq Evidenced(t)'
    <3>1. CASE t = s
      BY <1>6, <1>7, <1>8, <1>9, <3>1 DEF SharedInv, SignalInv, Stored
    <3>2. CASE t # s
      BY <1>6, <1>7, <1>8, <3>2 DEF SharedInv, SignalInv, Stored
    <3> QED
      BY <3>1, <3>2
  <2> QED
    BY <2>1 DEF SignalInv
<1>11. documents'[s][1].key \in Key /\ documents'[s][1].key \in Seen(s)'
  <2>1. 1 \in DOMAIN documents'[s] /\ documents'[s][1] \in Document
    BY <1>7
  <2> QED
    BY <2>1 DEF Seen, Document
<1>12. PICK st \in Step, k2 \in Key \cup {None} :
          /\ (GoTo(w, st) /\ k2 = job[w].key) \/ GoToWith(w, st, k2)
          /\ \/ st = "conflict"
             \/ st = "acknowledge" /\ row.hash = c
             \/ st = "dispatch" /\ row.hash = c /\ k2 \in Key /\ k2 \in Seen(s)'
  BY <1>3, <1>6, <1>11 DEF Step
<1>13. /\ job' \in [Worker -> Job] /\ \A v \in Worker \ {w} : job'[v] = job[v]
       /\ job'[w] = [step |-> st, message |-> job[w].message, key |-> k2]
  BY <1>12, Moves
<1>14. TypeOK' /\ RedriveInv'
  BY <1>6, <1>7, <1>13 DEF TypeOK, RedriveInv, CanRetry
<1>15. Current(w)' = Current(w)
  BY <1>6, <1>13 DEF Current
<1>16. WorkerInv(w)'
  <2>1. Stored(s)' /\ (row.hash = c => c \in Evidenced(s)' /\ signals'[s].hash = c)
    BY <1>8, <1>9 DEF Stored
  <2> QED
    BY <1>1, <1>2, <1>6, <1>12, <1>13, <1>15, <2>1 DEF WorkerInv, Busy
<1>17. \/ ~Stored(s) /\ ~row.queued
       \/ /\ Stored(s)
          /\ row.queued = signals[s].queued
          /\ row.hash = signals[s].hash \/ Mutable(s)
  BY <1>5 DEF Stored
<1> QED
  BY <1>4, <1>6, <1>10, <1>13, <1>14, <1>16, <1>17, StoreStep

LEMMA StoreRevisionStep ==
    ASSUME IInv, NEW w \in Worker, StoreRevision(w)
    PROVE  IInv' /\ Grows
<1> USE DEF IInv
<1>1. /\ Busy(w, {"storeRevision"}) /\ job[w] \in Job
      /\ Current(w) \in Observation /\ job[w].message \in DOMAIN observations
  BY Actor DEF StoreRevision, Busy
<1>2. PICK s \in Signal, c \in Content, d \in Day :
          Current(w).signal = s /\ Current(w).content = c /\ Current(w).day = d
  BY <1>1 DEF Observation
<1>3. PICK k \in Key : k = job[w].key
  BY <1>1 DEF WorkerInv, Busy
<1>4. k.hash = c /\ objects[k] # None /\ Mutable(s) /\ Stored(s)
  BY <1>1, <1>2, <1>3 DEF WorkerInv, Busy
<1>5. UNCHANGED <<observations, delivery, today, objects, rowLock, enrichmentQueue, dispatches>>
  BY DEF StoreRevision
<1>6. CASE c \in revisions[s]
  <2>1. GoTo(w, "acknowledge") /\ UNCHANGED database
    BY <1>2, <1>6 DEF StoreRevision
  <2>2. /\ job' \in [Worker -> Job] /\ \A v \in Worker \ {w} : job'[v] = job[v]
        /\ job'[w] = [step |-> "acknowledge", message |-> job[w].message, key |-> k]
    BY <1>3, <2>1, Moves DEF Step
  <2>3. TypeOK' /\ RedriveInv'
    BY <1>5, <2>1, <2>2 DEF TypeOK, RedriveInv, CanRetry, database
  <2>4. Current(w)' = Current(w)
    BY <1>5, <2>2 DEF Current
  <2>5. c \in Evidenced(s)
    BY <1>6 DEF SharedInv, SignalInv
  <2>6. WorkerInv(w)'
    BY <1>1, <1>2, <1>4, <1>5, <2>1, <2>2, <2>4, <2>5
       DEF WorkerInv, Busy, Stored, Evidenced, Mutable, database
  <2> QED
    BY <1>5, <2>1, <2>2, <2>3, <2>6, LocalStep
<1>7. CASE c \notin revisions[s]
  <2>1. signals[s] \in Row
    BY <1>4 DEF Stored, TypeOK
  <2>2. PICK row \in Row : row = [signals[s] EXCEPT !.hash = c]
    BY <2>1 DEF Row
  <2>3. row.hash = c /\ row.queued = signals[s].queued
    BY <2>1, <2>2 DEF Row
  <2>4. /\ revisions' = [revisions EXCEPT ![s] = @ \cup {c}]
        /\ signals' = [signals EXCEPT ![s] = row]
        /\ documents' = WithDocument(s, k, c)
        /\ GoTo(w, IF RevisionIsEnriched(s) THEN "sendRevision" ELSE "acknowledge")
    BY <1>2, <1>3, <1>7, <2>2 DEF StoreRevision, TypeOK
  <2>5. PICK st \in {"sendRevision", "acknowledge"} : GoTo(w, st)
    BY <2>4
  <2>6. /\ job' \in [Worker -> Job] /\ \A v \in Worker \ {w} : job'[v] = job[v]
        /\ job'[w] = [step |-> st, message |-> job[w].message, key |-> k]
    BY <1>3, <2>5, Moves DEF Step
  <2>7. /\ documents' \in [Signal -> Seq(Document)]
        /\ \A t \in Signal : Evidenced(t) \subseteq Evidenced(t)'
                            /\ (t # s => documents'[t] = documents[t])
        /\ k \in Seen(s)'
        /\ k \in Seen(s) \/ c \in Evidenced(s)'
    BY <2>4, WithDocumentFacts DEF TypeOK
  <2>8. c \in Evidenced(s)'
    <3>1. CASE k \in Seen(s)
      <4>1. PICK i \in DOMAIN documents[s] : documents[s][i].key = k
        BY <3>1 DEF Seen
      <4>2. documents[s][i].hash = c
        BY <1>4, <4>1, ConstantsAssumption DEF SharedInv, DocumentInv
      <4> QED
        BY <2>7, <4>2 DEF Evidenced
    <3> QED
      BY <2>7, <3>1
  <2>9. /\ revisions' \in [Signal -> SUBSET Content]
        /\ revisions'[s] = revisions[s] \cup {c}
        /\ \A t \in Signal \ {s} : revisions'[t] = revisions[t]
    BY <2>4 DEF TypeOK
  <2>10. row # None /\ signals'[s] = row /\ \A t \in Signal \ {s} : signals'[t] = signals[t]
    <3>1. signals'[s] = row /\ \A t \in Signal \ {s} : signals'[t] = signals[t]
      BY <2>4 DEF TypeOK
    <3>2. row # None
      BY ConstantsAssumption
    <3> QED
      BY <3>1, <3>2
  <2>11. SignalInv'
    <3>1. ASSUME NEW t \in Signal
          PROVE  /\ ~Stored(t)' => documents'[t] = <<>>
                 /\ Stored(t)' => signals'[t].hash \in Evidenced(t)'
                 /\ revisions'[t] \subseteq Evidenced(t)'
      <4>1. CASE t = s
        BY <2>3, <2>7, <2>8, <2>9, <2>10, <4>1 DEF SharedInv, SignalInv, Stored
      <4>2. CASE t # s
        BY <2>7, <2>9, <2>10, <4>2 DEF SharedInv, SignalInv, Stored
      <4> QED
        BY <4>1, <4>2
    <3> QED
      BY <3>1 DEF SignalInv
  <2>12. TypeOK' /\ RedriveInv'
    BY <1>5, <2>4, <2>6, <2>7, <2>9 DEF TypeOK, RedriveInv, CanRetry
  <2>13. Current(w)' = Current(w)
    BY <1>5, <2>6 DEF Current
  <2>14. WorkerInv(w)'
    <3>1. Stored(s)' /\ signals'[s].hash = c /\ Mutable(s)'
      BY <1>4, <2>3, <2>10 DEF Stored, Mutable
    <3> QED
      BY <1>1, <1>2, <1>5, <2>6, <2>7, <2>8, <2>13, <3>1 DEF WorkerInv, Busy
  <2> QED
    BY <1>4, <1>5, <2>3, <2>4, <2>6, <2>11, <2>12, <2>14, StoreStep
<1> QED
  BY <1>6, <1>7

LEMMA SendRevisionStep ==
    ASSUME IInv, NEW w \in Worker, SendRevision(w)
    PROVE  IInv' /\ Grows
<1> USE DEF IInv
<1>1. /\ Busy(w, {"sendRevision"}) /\ job[w] \in Job
      /\ Current(w) \in Observation /\ job[w].message \in DOMAIN observations
  BY Actor DEF SendRevision, Busy
<1>2. PICK s \in Signal, c \in Content, d \in Day :
          Current(w).signal = s /\ Current(w).content = c /\ Current(w).day = d
  BY <1>1 DEF Observation
<1>3. PICK k \in Key : k = job[w].key
  BY <1>1 DEF WorkerInv, Busy
<1>4. /\ UNCHANGED <<observations, delivery, today, database, objects, rowLock, dispatches>>
      /\ enrichmentQueue' = enrichmentQueue \cup {[signal |-> s, key |-> k]}
      /\ GoTo(w, "acknowledge")
  BY <1>2, <1>3 DEF SendRevision
<1>5. /\ job' \in [Worker -> Job] /\ \A v \in Worker \ {w} : job'[v] = job[v]
      /\ job'[w] = [step |-> "acknowledge", message |-> job[w].message, key |-> k]
  BY <1>3, <1>4, Moves DEF Step
<1>6. TypeOK' /\ RedriveInv'
  BY <1>4, <1>5 DEF TypeOK, RedriveInv, CanRetry, database
<1>7. Current(w)' = Current(w)
  BY <1>4, <1>5 DEF Current
<1>8. WorkerInv(w)'
  BY <1>1, <1>2, <1>3, <1>4, <1>5, <1>7
     DEF WorkerInv, Busy, Stored, Evidenced, Mutable, database
<1>9. Grows
  BY <1>4 DEF Grows, Seen, Evidenced, Stored, TypeOK, database
<1>10. SharedInv'
  <2>1. ObjectInv' /\ DocumentInv' /\ SignalInv' /\ AcknowledgedIsRecorded'
    BY <1>4 DEF SharedInv, ObjectInv, DocumentInv, SignalInv, AcknowledgedIsRecorded,
                Stored, Seen, Evidenced, Mutable, database
  <2>2. QueuedMeansSent'
    BY <1>4 DEF SharedInv, QueuedMeansSent, Stored, database
  <2>3. MessagesNameEvidence'
    <3>1. k \in Seen(s)
      BY <1>1, <1>2, <1>3 DEF WorkerInv, Busy
    <3> QED
      BY <1>4, <3>1 DEF SharedInv, MessagesNameEvidence, Seen, database
  <2> QED
    BY <2>1, <2>2, <2>3 DEF SharedInv
<1>11. rowLock' = rowLock /\ signals' = signals
  BY <1>4 DEF database
<1> QED
  BY <1>5, <1>6, <1>8, <1>9, <1>10, <1>11, SharedStep

\* One message changes its queue state.
LEMMA DeliveryChange ==
    ASSUME TypeOK, NEW n \in DOMAIN delivery, NEW q \in {"visible", "inFlight", "deleted", "dead"},
           delivery' = [delivery EXCEPT ![n].state = q]
    PROVE  /\ delivery' \in Seq(Delivery) /\ Len(delivery') = Len(delivery)
           /\ DOMAIN delivery' = DOMAIN delivery
           /\ delivery'[n].state = q /\ delivery'[n].receives = delivery[n].receives
           /\ \A m \in DOMAIN delivery \ {n} : delivery'[m] = delivery[m]
<1> DEFINE e == [state |-> q, receives |-> delivery[n].receives]
<1>1. delivery \in Seq(Delivery) /\ delivery[n] \in Delivery
  BY DEF TypeOK
<1>2. e \in Delivery /\ [delivery[n] EXCEPT !.state = q] = e
  BY <1>1 DEF Delivery
<1>3. delivery' = [delivery EXCEPT ![n] = e]
  BY <1>2
<1>4. e.state = q /\ e.receives = delivery[n].receives
  OBVIOUS
<1> HIDE DEF e
<1> QED
  BY <1>1, <1>2, <1>3, <1>4

LEMMA AcknowledgeStep ==
    ASSUME IInv, NEW w \in Worker, Acknowledge(w)
    PROVE  IInv' /\ Grows
<1> USE DEF IInv
<1>1. /\ Busy(w, {"acknowledge"}) /\ job[w] \in Job
      /\ Current(w) \in Observation /\ job[w].message \in DOMAIN observations
      /\ job[w].message \in DOMAIN delivery
  BY Actor DEF Acknowledge, Busy
<1>2. PICK n \in DOMAIN delivery, s \in Signal, c \in Content :
          job[w].message = n /\ observations[n].signal = s /\ observations[n].content = c
  BY <1>1 DEF Observation, Current
<1>3. /\ UNCHANGED <<observations, today, database, objects, rowLock, enrichmentQueue, dispatches>>
      /\ delivery' = [delivery EXCEPT ![n].state = "deleted"]
      /\ job' = [job EXCEPT ![w] = Idle]
  BY <1>2 DEF Acknowledge
<1>4. delivery' \in Seq(Delivery) /\ Len(delivery') = Len(delivery)
  BY <1>3, DeliveryChange
<1>5. /\ DOMAIN delivery' = DOMAIN delivery /\ delivery'[n].state = "deleted"
      /\ \A m \in DOMAIN delivery \ {n} : delivery'[m] = delivery[m]
  BY <1>3, DeliveryChange
<1>6. job'[w] = Idle /\ Idle \in Job /\ \A v \in Worker \ {w} : job'[v] = job[v]
  BY <1>3, ConstantsAssumption DEF TypeOK, Idle, Job, Step
<1>7. TypeOK' /\ RedriveInv'
  BY <1>3, <1>4, <1>5, <1>6 DEF TypeOK, RedriveInv, CanRetry, database
<1>8. WorkerInv(w)'
  BY <1>6 DEF WorkerInv, Busy, Idle
<1>9. Grows
  BY <1>3 DEF Grows, Seen, Evidenced, Stored, TypeOK, database
<1>10. SharedInv'
  <2>1. ObjectInv' /\ DocumentInv' /\ SignalInv' /\ QueuedMeansSent' /\ MessagesNameEvidence'
    BY <1>3 DEF SharedInv, ObjectInv, DocumentInv, SignalInv, QueuedMeansSent,
                MessagesNameEvidence, Stored, Seen, Evidenced, database
  <2>2. ASSUME NEW m \in DOMAIN delivery', delivery'[m].state = "deleted"
        PROVE  LET o == observations[m]
               IN  /\ Stored(o.signal)
                   /\ o.content \in Evidenced(o.signal)
                   /\ ~Mutable(o.signal) => signals[o.signal].hash = o.content
    <3>1. CASE m = n
      BY <1>1, <1>2, <3>1 DEF WorkerInv, Busy, Current
    <3>2. CASE m # n
      BY <1>5, <2>2, <3>2 DEF SharedInv, AcknowledgedIsRecorded
    <3> QED
      BY <3>1, <3>2
  <2>3. AcknowledgedIsRecorded'
    BY <1>3, <2>2 DEF AcknowledgedIsRecorded, Stored, Evidenced, Mutable, database
  <2> QED
    BY <2>1, <2>3 DEF SharedInv
<1>11. rowLock' = rowLock /\ signals' = signals
  BY <1>3 DEF database
<1> QED
  BY <1>6, <1>7, <1>8, <1>9, <1>10, <1>11, SharedStep

LEMMA AbandonStep ==
    ASSUME IInv, NEW w \in Worker, Abandon(w)
    PROVE  IInv' /\ Grows
<1> USE DEF IInv
<1>1. job[w].message \in DOMAIN observations /\ job[w].message \in DOMAIN delivery
  BY Actor DEF Abandon
<1>2. PICK n \in DOMAIN delivery : job[w].message = n
  BY <1>1
<1>3. /\ UNCHANGED <<observations, today, database, objects, enrichmentQueue, dispatches>>
      /\ job' = [job EXCEPT ![w] = Idle]
      /\ rowLock' = [s \in Signal |-> IF rowLock[s] = w THEN None ELSE rowLock[s]]
  BY DEF Abandon, LocksWithout
<1>4. PICK q \in {"visible", "inFlight", "deleted", "dead"} :
          /\ delivery' = [delivery EXCEPT ![n].state = q]
          /\ q = "deleted" => delivery[n].state = "deleted"
          /\ q = "visible" => CanRetry(n)
  <2>1. delivery[n] \in Delivery
    BY DEF TypeOK
  <2> QED
    BY <1>2, <2>1 DEF Abandon, RedriveInv, Delivery
<1>5. /\ delivery' \in Seq(Delivery) /\ Len(delivery') = Len(delivery)
      /\ DOMAIN delivery' = DOMAIN delivery
      /\ delivery'[n].state = q /\ delivery'[n].receives = delivery[n].receives
      /\ \A m \in DOMAIN delivery \ {n} : delivery'[m] = delivery[m]
  BY <1>4, DeliveryChange
<1>6. job'[w] = Idle /\ Idle \in Job /\ \A v \in Worker \ {w} : job'[v] = job[v]
  BY <1>3, ConstantsAssumption DEF TypeOK, Idle, Job, Step
<1>7. TypeOK' /\ RedriveInv'
  BY <1>3, <1>4, <1>5, <1>6 DEF TypeOK, RedriveInv, CanRetry, database
<1>8. WorkerInv(w)'
  BY <1>6 DEF WorkerInv, Busy, Idle
<1>9. Grows
  BY <1>3 DEF Grows, Seen, Evidenced, Stored, TypeOK, database
<1>10. SharedInv'
  BY <1>3, <1>4, <1>5, <1>7, SharedKept
<1>11. ASSUME NEW v \in Worker \ {w}, Busy(v, {"send", "markQueued"})
       PROVE  rowLock'[Current(v).signal] = rowLock[Current(v).signal]
  <2>1. rowLock[Current(v).signal] = v
    BY <1>11 DEF WorkerInv
  <2>2. Current(v).signal \in Signal
    BY <1>11, Actor DEF Busy, Observation
  <2> QED
    BY <1>3, <2>1, <2>2
<1> QED
  BY <1>3, <1>6, <1>7, <1>8, <1>9, <1>10, <1>11, SharedStep DEF database

\* Steps in which no worker moves and no shared state changes.
LEMMA OutsideStep ==
    ASSUME IInv, TypeOK', RedriveInv',
           UNCHANGED <<job, database, objects, rowLock, enrichmentQueue, dispatches>>,
           \A n \in DOMAIN observations :
                n \in DOMAIN observations' /\ observations'[n] = observations[n],
           \A n \in DOMAIN delivery' : delivery'[n].state = "deleted" =>
                n \in DOMAIN delivery /\ delivery[n].state = "deleted"
    PROVE  IInv' /\ Grows
<1> USE DEF IInv, database
<1>1. Grows
  BY DEF Grows, Seen, Evidenced, Stored, TypeOK
<1>2. \A v \in Worker : WorkerInv(v)'
  BY <1>1, WorkerKept
<1>3. SharedInv'
  BY SharedKept
<1> QED
  BY <1>1, <1>2, <1>3

LEMMA ObserveStep ==
    ASSUME IInv, NEW s \in Signal, NEW c \in Content, Observe(s, c)
    PROVE  IInv' /\ Grows
<1> USE DEF IInv
<1> DEFINE o == [signal |-> s, content |-> c, day |-> today]
           e == [state |-> "visible", receives |-> 0]
<1>1. /\ o \in Observation /\ e \in Delivery /\ e.state = "visible" /\ e.receives = 0
      /\ observations \in Seq(Observation) /\ delivery \in Seq(Delivery)
      /\ Len(delivery) = Len(observations)
  BY ConstantsAssumption DEF TypeOK, Observation, Delivery
<1>2. /\ Len(observations) < MaxObservations
      /\ observations' = Append(observations, o) /\ delivery' = Append(delivery, e)
      /\ UNCHANGED <<today, job, database, objects, rowLock, enrichmentQueue, dispatches>>
  BY DEF Observe
<1> HIDE DEF o, e
<1>3. /\ observations' \in Seq(Observation) /\ Len(observations') = Len(observations) + 1
      /\ \A n \in DOMAIN observations :
            n \in DOMAIN observations' /\ observations'[n] = observations[n]
  BY <1>1, <1>2
<1>4. /\ delivery' \in Seq(Delivery) /\ Len(delivery') = Len(delivery) + 1
      /\ \A n \in DOMAIN delivery' : \/ n \in DOMAIN delivery /\ delivery'[n] = delivery[n]
                                     \/ delivery'[n] = e
  BY <1>1, <1>2
<1>5. TypeOK' /\ RedriveInv'
  <2>1. TypeOK'
    BY <1>1, <1>2, <1>3, <1>4, ConstantsAssumption DEF TypeOK, database
  <2>2. RedriveInv'
    BY <1>1, <1>4, ConstantsAssumption DEF RedriveInv, CanRetry
  <2> QED
    BY <2>1, <2>2
<1> QED
  BY <1>1, <1>2, <1>3, <1>4, <1>5, OutsideStep

LEMMA NextDayStep ==
    ASSUME IInv, NextDay PROVE IInv' /\ Grows
<1>1. TypeOK' /\ RedriveInv'
  BY ConstantsAssumption DEF IInv, NextDay, TypeOK, RedriveInv, CanRetry, Day, database
<1> QED
  BY <1>1, OutsideStep DEF NextDay

LEMMA RedeliverStep ==
    ASSUME IInv, NEW n \in 1..MaxObservations, Redeliver(n) PROVE IInv' /\ Grows
<1> USE DEF IInv
<1>1. /\ n \in DOMAIN delivery /\ CanRetry(n)
      /\ delivery' = [delivery EXCEPT ![n].state = "visible"]
      /\ UNCHANGED <<observations, today, job, database, objects, rowLock, enrichmentQueue, dispatches>>
  BY DEF Redeliver
<1>2. /\ delivery' \in Seq(Delivery) /\ Len(delivery') = Len(delivery)
      /\ DOMAIN delivery' = DOMAIN delivery
      /\ delivery'[n].state = "visible" /\ delivery'[n].receives = delivery[n].receives
      /\ \A m \in DOMAIN delivery \ {n} : delivery'[m] = delivery[m]
  BY <1>1, DeliveryChange
<1>3. TypeOK' /\ RedriveInv'
  BY <1>1, <1>2 DEF TypeOK, RedriveInv, CanRetry, database
<1>4. \A m \in DOMAIN delivery' : delivery'[m].state = "deleted" =>
          m \in DOMAIN delivery /\ delivery[m].state = "deleted"
  BY <1>2
<1> QED
  BY <1>1, <1>3, <1>4, OutsideStep

LEMMA StutterStep ==
    ASSUME IInv, UNCHANGED vars PROVE IInv' /\ Grows
<1>1. TypeOK' /\ RedriveInv'
  BY DEF IInv, TypeOK, RedriveInv, CanRetry, vars
<1> QED
  BY <1>1, OutsideStep DEF vars, database

-----------------------------------------------------------------------------
\* The initial state satisfies the inductive invariant.
LEMMA InitInv == Init => IInv
<1> SUFFICES ASSUME Init PROVE IInv
  OBVIOUS
<1> USE ConstantsAssumption DEF Init
<1>1. TypeOK
  BY DEF TypeOK, Day, Job, Step, Idle
<1>2. RedriveInv /\ \A w \in Worker : WorkerInv(w)
  BY DEF RedriveInv, WorkerInv, Busy, Idle
<1>3. SharedInv
  BY DEF SharedInv, ObjectInv, DocumentInv, SignalInv, AcknowledgedIsRecorded, QueuedMeansSent,
         MessagesNameEvidence, Stored, Evidenced
<1> QED
  BY <1>1, <1>2, <1>3 DEF IInv

\* Every step preserves it, and takes back nothing that was stored.
LEMMA NextInv == IInv /\ [Next]_vars => IInv' /\ Grows
<1> SUFFICES ASSUME IInv, [Next]_vars PROVE IInv' /\ Grows
  OBVIOUS
<1>1. ASSUME NEW s \in Signal, NEW c \in Content, Observe(s, c) PROVE IInv' /\ Grows
  BY <1>1, ObserveStep
<1>2. CASE NextDay
  BY <1>2, NextDayStep
<1>3. ASSUME NEW w \in Worker, NEW n \in 1..MaxObservations, Receive(w, n) PROVE IInv' /\ Grows
  BY <1>3, ReceiveStep
<1>4. ASSUME NEW w \in Worker, Progress(w) \/ Abandon(w) PROVE IInv' /\ Grows
  <2>1. CASE FindSignal(w)
    BY <2>1, FindSignalStep
  <2>2. CASE PutRaw(w) \/ PutRevision(w)
    BY <2>2, PutEvidenceStep
  <2>3. CASE StoreSignal(w)
    BY <2>3, StoreSignalStep
  <2>4. CASE LockForDispatch(w)
    BY <2>4, LockForDispatchStep
  <2>5. CASE SendEnrichment(w)
    BY <2>5, SendEnrichmentStep
  <2>6. CASE MarkQueued(w)
    BY <2>6, MarkQueuedStep
  <2>7. CASE StoreRevision(w)
    BY <2>7, StoreRevisionStep
  <2>8. CASE SendRevision(w)
    BY <2>8, SendRevisionStep
  <2>9. CASE Acknowledge(w)
    BY <2>9, AcknowledgeStep
  <2>10. CASE Abandon(w)
    BY <2>10, AbandonStep
  <2> QED
    BY <1>4, <2>1, <2>2, <2>3, <2>4, <2>5, <2>6, <2>7, <2>8, <2>9, <2>10 DEF Progress
<1>5. ASSUME NEW n \in 1..MaxObservations, Redeliver(n) PROVE IInv' /\ Grows
  BY <1>5, RedeliverStep
<1>6. CASE UNCHANGED vars
  BY <1>6, StutterStep
<1> QED
  BY <1>1, <1>2, <1>3, <1>4, <1>5, <1>6 DEF Next

\* IInv is an invariant of the specification.
THEOREM Invariance == Spec => []IInv
<1>1. IInv /\ [Next]_vars => IInv'
  BY NextInv
<1> QED
  BY <1>1, InitInv, PTL DEF Spec

\* Every variable of the ingestion path keeps its type, and no message is
\* delivered more often than the redrive policy of infra/main.tf allows.
THEOREM TypeCorrect == Spec => []TypeOK
<1>1. IInv => TypeOK
  BY DEF IInv
<1> QED
  BY <1>1, Invariance, PTL

\* put_raw_evidence before the commit: no document row without its object,
\* and a revision's object is what its row says.
THEOREM EvidenceStored == Spec => []EvidenceIsStored
<1>1. IInv => EvidenceIsStored
  <2> SUFFICES ASSUME IInv, NEW s \in Signal, NEW i \in DOMAIN documents[s]
               PROVE  LET d == documents[s][i]
                      IN  objects[d.key] # None /\ (d.key.hash # None => objects[d.key] = d.hash)
    BY DEF EvidenceIsStored
  <2>1. documents[s] \in Seq(Document)
    BY DEF IInv, TypeOK
  <2>2. documents[s][i] \in Document
    BY <2>1
  <2>3. documents[s][i].key \in Key
    BY <2>2 DEF Document
  <2> QED
    BY <2>3 DEF IInv, SharedInv, DocumentInv, ObjectInv
<1> QED
  BY <1>1, Invariance, PTL

\* Insert, revision or a race of the two: the content a signal shows is always
\* the hash of one of its documents.
THEOREM CanonicalEvidenced == Spec => []CanonicalIsEvidenced
<1>1. IInv => CanonicalIsEvidenced
  BY DEF IInv, SharedInv, SignalInv, CanonicalIsEvidenced
<1> QED
  BY <1>1, Invariance, PTL

\* batchItemFailures leaves a record out only after it was recorded.
THEOREM AcknowledgedRecorded == Spec => []AcknowledgedIsRecorded
<1>1. IInv => AcknowledgedIsRecorded
  BY DEF IInv, SharedInv
<1> QED
  BY <1>1, Invariance, PTL

\* What dispatch_enrichment records was sent: enrichment_queued_at is set in a
\* transaction that commits after the message is in the queue.
THEOREM QueuedSent == Spec => []QueuedMeansSent
<1>1. IInv => QueuedMeansSent
  BY DEF IInv, SharedInv
<1> QED
  BY <1>1, Invariance, PTL

\* What the two dispatch functions send names a committed document of a stored
\* signal, so the enrichment worker finds what its message asks for.
THEOREM MessagesEvidenced == Spec => []MessagesNameEvidence
<1>1. IInv => MessagesNameEvidence
  BY DEF IInv, SharedInv
<1> QED
  BY <1>1, Invariance, PTL

\* The FOR UPDATE lock of dispatch_enrichment does its work for any number of
\* workers: once queued, a signal is never dispatched again.
THEOREM DispatchedOnce == Spec => NoDispatchAfterQueued
<1> DEFINE A == \A s \in Signal : Stored(s) /\ signals[s].queued => dispatches'[s] = dispatches[s]
<1>1. IInv /\ [Next]_vars => [A]_vars
  <2> SUFFICES ASSUME IInv, Next, NEW s \in Signal, Stored(s), signals[s].queued
               PROVE  dispatches'[s] = dispatches[s]
    OBVIOUS
  <2>1. ASSUME NEW w \in Worker, SendEnrichment(w) PROVE dispatches'[s] = dispatches[s]
    <3>1. Current(w).signal # s
      BY <2>1 DEF IInv, WorkerInv, Busy, SendEnrichment
    <3> QED
      BY <2>1, <3>1 DEF SendEnrichment, IInv, TypeOK
  <2> QED
    BY <2>1 DEF Next, Progress, Observe, NextDay, Receive, FindSignal, PutRaw, PutRevision,
                PutEvidence, StoreSignal, LockForDispatch, MarkQueued, StoreRevision,
                SendRevision, Acknowledge, Abandon, Redeliver
<1> QED
  BY <1>1, Invariance, PTL DEF Spec, NoDispatchAfterQueued

\* No step of ingestion removes an object, a document, a stored signal or a sent
\* message, or changes the content of a signal whose source does not revise.
THEOREM NothingTakenBack == Spec => [][Grows]_vars
<1>1. IInv /\ [Next]_vars => [Grows]_vars
  BY NextInv
<1> QED
  BY <1>1, Invariance, PTL DEF Spec
-----------------------------------------------------------------------------
(* dispatch_enrichment implements LockedDispatch.                          *)

\* The worker that has locked a row is at a step that waits for no lock.
LockHolderWorks ==
    \A s \in Signal : ~Unlocked(s) =>
        Busy(rowLock[s], {"send", "markQueued"}) /\ Current(rowLock[s]).signal = s

DispatchInv == IInv /\ LockHolderWorks

\* What a worker does who has locked nothing leaves the transactions alone.
LEMMA OthersLocks ==
    ASSUME LockHolderWorks, NEW w \in Worker, ~Busy(w, {"send", "markQueued"}),
           \A v \in Worker \ {w} : job'[v] = job[v], TypeOK
    PROVE  \A s \in Signal : ~Unlocked(s) => job'[rowLock[s]] = job[rowLock[s]]
BY DEF LockHolderWorks, TypeOK, Unlocked

\* A row whose lock and holder stay is in the same phase.
LEMMA PhaseKept ==
    ASSUME DispatchInv, Grows, NEW s \in Signal, rowLock'[s] = rowLock[s],
           ~Unlocked(s) => job'[rowLock[s]] = job[rowLock[s]]
    PROVE  /\ Phase(s)' = Phase(s)
           /\ ~Unlocked(s)' => /\ Busy(rowLock[s], {"send", "markQueued"})'
                               /\ (Current(rowLock[s]).signal = s)'
<1>1. ~Unlocked(s) => rowLock[s] \in Worker
  BY DEF DispatchInv, IInv, TypeOK, Unlocked
<1>2. ~Unlocked(s) => /\ Busy(rowLock[s], {"send", "markQueued"})
                      /\ Current(rowLock[s]).signal = s
                      /\ job[rowLock[s]].message \in DOMAIN observations
  BY <1>1 DEF DispatchInv, LockHolderWorks, IInv, WorkerInv, Busy
<1> QED
  BY <1>2 DEF Phase, Busy, Unlocked, Current, Grows

\* A step that sends, locks, records and marks nothing is a stutter.
LEMMA QuietDispatch ==
    ASSUME DispatchInv, IInv', Grows, UNCHANGED <<rowLock, dispatches>>,
           \A s \in Signal : /\ Stored(s)' <=> Stored(s)
                             /\ Stored(s) => signals'[s].queued = signals[s].queued
                             /\ ~Unlocked(s) => job'[rowLock[s]] = job[rowLock[s]]
    PROVE  DispatchInv' /\ UNCHANGED Dispatch!vars
<1>1. \A s \in Signal :
        /\ Phase(s)' = Phase(s)
        /\ ~Unlocked(s)' => /\ Busy(rowLock[s], {"send", "markQueued"})'
                            /\ (Current(rowLock[s]).signal = s)'
  BY PhaseKept
<1>2. DispatchInv'
  BY <1>1 DEF DispatchInv, LockHolderWorks, Unlocked
<1>3. \A s \in Signal : (Stored(s) /\ signals[s].queued)' <=> Stored(s) /\ signals[s].queued
  OBVIOUS
<1> QED
  BY <1>1, <1>2, <1>3 DEF Dispatch!vars

\* A step that changes the phase of one row.
LEMMA RowMoves ==
    ASSUME DispatchInv, IInv', Grows, NEW w \in Worker, NEW s \in Signal,
           \A v \in Worker \ {w} : job'[v] = job[v],
           \A t \in Signal \ {s} : rowLock'[t] = rowLock[t] /\ rowLock[t] # w,
           rowLock'[s] # None => /\ rowLock'[s] = w /\ job'[w].step \in {"send", "markQueued"}
                                 /\ Current(w)' = Current(w) /\ Current(w).signal = s
    PROVE  /\ DispatchInv'
           /\ [t \in Signal |-> Phase(t)]' = [[t \in Signal |-> Phase(t)] EXCEPT ![s] = Phase(s)']
<1>1. \A t \in Signal \ {s} : ~Unlocked(t) => job'[rowLock[t]] = job[rowLock[t]]
  BY DEF DispatchInv, IInv, TypeOK, Unlocked
<1>2. \A t \in Signal \ {s} :
        /\ Phase(t)' = Phase(t)
        /\ ~Unlocked(t)' => /\ Busy(rowLock[t], {"send", "markQueued"})'
                            /\ (Current(rowLock[t]).signal = t)'
  BY <1>1, PhaseKept
<1>3. DispatchInv'
  BY <1>2 DEF DispatchInv, LockHolderWorks, Unlocked, Busy
<1> QED
  BY <1>2, <1>3

\* A step of a worker that has locked nothing, and locks, sends and marks nothing.
LEMMA QuietWorker ==
    ASSUME DispatchInv, IInv', Grows, NEW w \in Worker, ~Busy(w, {"send", "markQueued"}),
           \A v \in Worker \ {w} : job'[v] = job[v], UNCHANGED <<rowLock, dispatches>>,
           \A s \in Signal : /\ Stored(s)' <=> Stored(s)
                             /\ Stored(s) => signals'[s].queued = signals[s].queued
    PROVE  DispatchInv' /\ UNCHANGED Dispatch!vars
<1>1. \A s \in Signal : ~Unlocked(s) => job'[rowLock[s]] = job[rowLock[s]]
  BY OthersLocks DEF DispatchInv, IInv
<1> QED
  BY <1>1, QuietDispatch

\* store_signal records the signal, or finds it stored.
LEMMA StoreDispatch ==
    ASSUME DispatchInv, IInv', Grows, NEW w \in Worker, StoreSignal(w)
    PROVE  DispatchInv' /\ [Dispatch!Next]_(Dispatch!vars)
<1>0. PICK s \in Signal, c \in Content : Current(w).signal = s /\ Current(w).content = c
  BY Actor DEF StoreSignal, Busy, DispatchInv, IInv, Observation
<1> DEFINE row == IF signals[s] = None THEN [hash |-> c, queued |-> FALSE]
                  ELSE signals[s]
<1>1. /\ Busy(w, {"store"}) /\ ~Busy(w, {"send", "markQueued"})
      /\ job[w].key \in Seen(s) \/ Unlocked(s)
      /\ signals' = [signals EXCEPT ![s] = row]
      /\ UNCHANGED <<rowLock, dispatches>>
      /\ \A v \in Worker \ {w} : job'[v] = job[v]
  BY <1>0, Actor DEF StoreSignal, Busy, DispatchInv, IInv, TypeOK, GoTo, GoToWith
<1>2. signals \in [Signal -> Row \cup {None}]
  BY DEF DispatchInv, IInv, TypeOK
<1>3. CASE Stored(s)
  BY <1>1, <1>2, <1>3, QuietWorker DEF Stored
<1>4. CASE ~Stored(s)
  <2>1. Unlocked(s)
    BY <1>1, <1>4 DEF Seen, DispatchInv, IInv, SharedInv, SignalInv
  <2>2. row.queued = FALSE /\ row # None
    <3>1. row = [hash |-> c, queued |-> FALSE]
      BY <1>4 DEF Stored
    <3>2. [hash |-> c, queued |-> FALSE] \in Row
      BY DEF Row
    <3> HIDE DEF row
    <3> QED
      BY <3>1, <3>2, ConstantsAssumption
  <2>3. \A t \in Signal : /\ Stored(t)' <=> Stored(t) \/ t = s
                          /\ (Stored(t) /\ signals[t].queued)' <=> Stored(t) /\ signals[t].queued
    BY <1>1, <1>2, <1>4, <2>2 DEF Stored
  <2>4. \A t \in Signal : ~Unlocked(t) => job'[rowLock[t]] = job[rowLock[t]]
    BY <1>1, OthersLocks DEF DispatchInv, IInv
  <2>5. \A t \in Signal :
          /\ Phase(t)' = Phase(t)
          /\ ~Unlocked(t)' => /\ Busy(rowLock[t], {"send", "markQueued"})'
                              /\ (Current(rowLock[t]).signal = t)'
    BY <1>1, <2>4, PhaseKept
  <2>6. DispatchInv'
    BY <2>5 DEF DispatchInv, LockHolderWorks, Unlocked
  <2>7. Phase(s) = "unlocked"
    BY <2>1 DEF Phase
  <2>8. Dispatch!Record(s)
    BY <1>1, <1>4, <2>3, <2>5, <2>7 DEF Dispatch!Record
  <2> QED
    BY <1>1, <2>6, <2>8 DEF Dispatch!Next
<1> QED
  BY <1>3, <1>4

\* dispatch_enrichment locks the row, unless it is marked by then.
LEMMA LockDispatch ==
    ASSUME DispatchInv, IInv', Grows, NEW w \in Worker, LockForDispatch(w)
    PROVE  DispatchInv' /\ [Dispatch!Next]_(Dispatch!vars)
<1>0. PICK s \in Signal : Current(w).signal = s
  BY Actor DEF LockForDispatch, Busy, DispatchInv, IInv, Observation
<1>1. /\ Busy(w, {"dispatch"}) /\ ~Busy(w, {"send", "markQueued"})
      /\ Unlocked(s) /\ Stored(s)
      /\ UNCHANGED <<observations, database, dispatches>>
      /\ \A v \in Worker \ {w} : job'[v] = job[v]
  BY <1>0, Actor DEF LockForDispatch, Busy, DispatchInv, IInv, TypeOK, GoTo, WorkerInv
<1>2. CASE AlreadyQueued(s)
  BY <1>0, <1>1, <1>2, QuietWorker DEF LockForDispatch, database, Stored
<1>3. CASE ~AlreadyQueued(s)
  <2>1. /\ rowLock' = [rowLock EXCEPT ![s] = w] /\ GoTo(w, "send")
        /\ rowLock \in [Signal -> Worker \cup {None}] /\ job \in [Worker -> Job]
    BY <1>0, <1>3 DEF LockForDispatch, DispatchInv, IInv, TypeOK
  <2>2. job'[w].step = "send" /\ job'[w].message = job[w].message
    BY <2>1 DEF GoTo, Job
  <2>3. \A t \in Signal \ {s} : rowLock'[t] = rowLock[t] /\ rowLock[t] # w
    BY <1>1, <2>1, ConstantsAssumption DEF DispatchInv, LockHolderWorks, Unlocked
  <2>4. /\ DispatchInv'
        /\ [t \in Signal |-> Phase(t)]' = [[t \in Signal |-> Phase(t)] EXCEPT ![s] = Phase(s)']
    BY <1>1, <2>1, <2>2, <2>3, <1>0, RowMoves DEF Current
  <2>5. Phase(s) = "unlocked" /\ Phase(s)' = "locked"
    BY <1>1, <2>1, <2>2, ConstantsAssumption DEF Phase, Unlocked, Busy
  <2>6. Dispatch!Lock(s)
    BY <1>1, <1>3, <2>4, <2>5 DEF Dispatch!Lock, AlreadyQueued, database, Stored
  <2> QED
    BY <1>1, <2>4, <2>6 DEF Dispatch!Next
<1> QED
  BY <1>2, <1>3

\* It sends while the row is locked,
LEMMA SendDispatch ==
    ASSUME DispatchInv, IInv', Grows, NEW w \in Worker, SendEnrichment(w)
    PROVE  DispatchInv' /\ [Dispatch!Next]_(Dispatch!vars)
<1>0. PICK s \in Signal : Current(w).signal = s
  BY Actor DEF SendEnrichment, Busy, DispatchInv, IInv, Observation
<1>1. /\ Busy(w, {"send"}) /\ rowLock[s] = w
      /\ UNCHANGED <<observations, database, rowLock>>
      /\ dispatches' = [dispatches EXCEPT ![s] = dispatches[s] + 1]
      /\ \A v \in Worker \ {w} : job'[v] = job[v]
      /\ job'[w].step = "markQueued" /\ job'[w].message = job[w].message
  BY <1>0, Actor DEF SendEnrichment, Busy, DispatchInv, IInv, TypeOK, GoTo, WorkerInv, Job
<1>2. \A t \in Signal \ {s} : rowLock[t] # w
  BY <1>1, ConstantsAssumption DEF DispatchInv, LockHolderWorks, Unlocked
<1>3. /\ DispatchInv'
      /\ [t \in Signal |-> Phase(t)]' = [[t \in Signal |-> Phase(t)] EXCEPT ![s] = Phase(s)']
  BY <1>0, <1>1, <1>2, RowMoves DEF Current
<1>4. Phase(s) = "locked" /\ Phase(s)' = "sent"
  BY <1>1, ConstantsAssumption DEF Phase, Unlocked, Busy
<1>5. Dispatch!Send(s)
  BY <1>1, <1>3, <1>4 DEF Dispatch!Send, database, Stored
<1> QED
  BY <1>1, <1>3, <1>5 DEF Dispatch!Next

\* and marks it when it commits.
LEMMA MarkDispatch ==
    ASSUME DispatchInv, IInv', Grows, NEW w \in Worker, MarkQueued(w)
    PROVE  DispatchInv' /\ [Dispatch!Next]_(Dispatch!vars)
<1>0. PICK s \in Signal : Current(w).signal = s
  BY Actor DEF MarkQueued, Busy, DispatchInv, IInv, Observation
<1>1. /\ Busy(w, {"markQueued"}) /\ rowLock[s] = w /\ Stored(s)
      /\ UNCHANGED <<observations, dispatches>>
      /\ signals' = [signals EXCEPT ![s].queued = TRUE]
      /\ rowLock' = [rowLock EXCEPT ![s] = None]
      /\ rowLock \in [Signal -> Worker \cup {None}] /\ signals \in [Signal -> Row \cup {None}]
      /\ \A v \in Worker \ {w} : job'[v] = job[v]
  BY <1>0, Actor DEF MarkQueued, Busy, DispatchInv, IInv, TypeOK, GoTo, WorkerInv
<1>2. \A t \in Signal \ {s} : rowLock'[t] = rowLock[t] /\ rowLock[t] # w
  BY <1>1, ConstantsAssumption DEF DispatchInv, LockHolderWorks, Unlocked
<1>3. /\ DispatchInv'
      /\ [t \in Signal |-> Phase(t)]' = [[t \in Signal |-> Phase(t)] EXCEPT ![s] = Phase(s)']
  BY <1>0, <1>1, <1>2, RowMoves
<1>4. Phase(s) = "sent" /\ Phase(s)' = "unlocked"
  BY <1>1, ConstantsAssumption DEF Phase, Unlocked, Busy
<1>5. \A t \in Signal : /\ Stored(t)' <=> Stored(t)
                        /\ (Stored(t) /\ signals[t].queued)' <=>
                              (Stored(t) /\ signals[t].queued) \/ t = s
  <2>1. Stored(s)' /\ signals'[s].queued = TRUE
    BY <1>1, ConstantsAssumption DEF Stored, Row, Grows
  <2> QED
    BY <1>1, <2>1 DEF Stored
<1>6. Dispatch!Commit(s)
  BY <1>1, <1>3, <1>4, <1>5 DEF Dispatch!Commit
<1> QED
  BY <1>1, <1>3, <1>6 DEF Dispatch!Next

\* A worker that fails gives up the row it has locked.
LEMMA AbandonDispatch ==
    ASSUME DispatchInv, IInv', Grows, NEW w \in Worker, Abandon(w)
    PROVE  DispatchInv' /\ [Dispatch!Next]_(Dispatch!vars)
<1>1. /\ UNCHANGED <<observations, database, dispatches>>
      /\ rowLock' = [s \in Signal |-> IF rowLock[s] = w THEN None ELSE rowLock[s]]
      /\ rowLock \in [Signal -> Worker \cup {None}]
      /\ \A v \in Worker \ {w} : job'[v] = job[v]
  BY DEF Abandon, LocksWithout, DispatchInv, IInv, TypeOK
<1>2. CASE \A s \in Signal : rowLock[s] # w
  <2>1. rowLock' = rowLock
    BY <1>1, <1>2
  <2>2. \A s \in Signal : ~Unlocked(s) => job'[rowLock[s]] = job[rowLock[s]]
    BY <1>1, <1>2 DEF Unlocked
  <2> QED
    BY <1>1, <2>1, <2>2, QuietDispatch DEF database, Stored
<1>3. ASSUME NEW s \in Signal, rowLock[s] = w
      PROVE  DispatchInv' /\ [Dispatch!Next]_(Dispatch!vars)
  <2>1. \A t \in Signal \ {s} : rowLock'[t] = rowLock[t] /\ rowLock[t] # w
    BY <1>1, <1>3, ConstantsAssumption DEF DispatchInv, LockHolderWorks, Unlocked
  <2>2. rowLock'[s] = None
    BY <1>1, <1>3
  <2>3. /\ DispatchInv'
        /\ [t \in Signal |-> Phase(t)]' = [[t \in Signal |-> Phase(t)] EXCEPT ![s] = Phase(s)']
    BY <1>1, <2>1, <2>2, RowMoves
  <2>4. Phase(s) # "unlocked" /\ Phase(s)' = "unlocked"
    BY <1>3, <2>2, ConstantsAssumption DEF Phase, Unlocked
  <2>5. Dispatch!RollBack(s)
    BY <1>1, <2>3, <2>4 DEF Dispatch!RollBack, database, Stored
  <2> QED
    BY <2>3, <2>5 DEF Dispatch!Next
<1> QED
  BY <1>2, <1>3

\* Receiving, looking, putting evidence, revisions and acknowledging are none of
\* the transaction's business.
LEMMA OtherSteps ==
    ASSUME DispatchInv, IInv', Grows, NEW w \in Worker,
           \/ \E n \in 1..MaxObservations : Receive(w, n)
           \/ FindSignal(w) \/ PutRaw(w) \/ PutRevision(w)
           \/ StoreRevision(w) \/ SendRevision(w) \/ Acknowledge(w)
    PROVE  DispatchInv' /\ UNCHANGED Dispatch!vars
<1>1. ~Busy(w, {"send", "markQueued"}) /\ UNCHANGED <<rowLock, dispatches>>
  BY DEF Busy, Receive, FindSignal, PutRaw, PutRevision, PutEvidence, StoreRevision,
         SendRevision, Acknowledge
<1>2. \A v \in Worker \ {w} : job'[v] = job[v]
  BY DEF DispatchInv, IInv, TypeOK, GoTo, GoToWith, Receive, FindSignal, PutRaw, PutRevision,
         PutEvidence, StoreRevision, SendRevision, Acknowledge
<1>3. \A s \in Signal : /\ Stored(s)' <=> Stored(s)
                        /\ Stored(s) => signals'[s].queued = signals[s].queued
  <2>1. CASE signals' = signals
    BY <2>1 DEF Stored
  <2>2. CASE StoreRevision(w) /\ signals' # signals
    <3>1. PICK s \in Signal, c \in Content :
              Current(w).signal = s /\ Current(w).content = c /\ Stored(s)
      BY <2>2, Actor DEF StoreRevision, Busy, DispatchInv, IInv, Observation, WorkerInv
    <3>2. /\ signals' = [signals EXCEPT ![s].hash = c]
          /\ signals \in [Signal -> Row \cup {None}] /\ signals[s] \in Row
      BY <2>2, <3>1 DEF StoreRevision, database, DispatchInv, IInv, TypeOK, Stored
    <3>3. Stored(s)'
      BY <3>1 DEF Grows
    <3>4. signals'[s].queued = signals[s].queued /\ \A t \in Signal \ {s} : signals'[t] = signals[t]
      BY <3>2 DEF Row
    <3> QED
      BY <3>1, <3>3, <3>4 DEF Stored
  <2> QED
    BY <2>1, <2>2 DEF Receive, FindSignal, PutRaw, PutRevision, PutEvidence, SendRevision,
                      Acknowledge, database
<1> QED
  BY <1>1, <1>2, <1>3, QuietWorker

LEMMA NextDispatch ==
    ASSUME DispatchInv, [Next]_vars
    PROVE  DispatchInv' /\ [Dispatch!Next]_(Dispatch!vars)
<1>1. IInv' /\ Grows
  BY NextInv DEF DispatchInv
<1>2. ASSUME UNCHANGED <<job, rowLock, signals, dispatches>>
      PROVE  DispatchInv' /\ [Dispatch!Next]_(Dispatch!vars)
  BY <1>1, <1>2, QuietDispatch DEF Stored
<1>3. CASE \E s \in Signal, c \in Content : Observe(s, c)
  BY <1>2, <1>3 DEF Observe, database
<1>4. CASE NextDay \/ \E n \in 1..MaxObservations : Redeliver(n)
  BY <1>2, <1>4 DEF NextDay, Redeliver, database
<1>5. CASE UNCHANGED vars
  BY <1>2, <1>5 DEF vars, database
<1>6. ASSUME NEW w \in Worker, \E n \in 1..MaxObservations : Receive(w, n)
      PROVE  DispatchInv' /\ [Dispatch!Next]_(Dispatch!vars)
  BY <1>1, <1>6, OtherSteps
<1>7. ASSUME NEW w \in Worker, Progress(w) \/ Abandon(w)
      PROVE  DispatchInv' /\ [Dispatch!Next]_(Dispatch!vars)
  <2>1. CASE StoreSignal(w)
    BY <1>1, <2>1, StoreDispatch
  <2>2. CASE LockForDispatch(w)
    BY <1>1, <2>2, LockDispatch
  <2>3. CASE SendEnrichment(w)
    BY <1>1, <2>3, SendDispatch
  <2>4. CASE MarkQueued(w)
    BY <1>1, <2>4, MarkDispatch
  <2>5. CASE Abandon(w)
    BY <1>1, <2>5, AbandonDispatch
  <2>6. CASE \/ FindSignal(w) \/ PutRaw(w) \/ PutRevision(w)
             \/ StoreRevision(w) \/ SendRevision(w) \/ Acknowledge(w)
    BY <1>1, <2>6, OtherSteps
  <2> QED
    BY <1>7, <2>1, <2>2, <2>3, <2>4, <2>5, <2>6 DEF Progress
<1> QED
  BY <1>3, <1>4, <1>5, <1>6, <1>7 DEF Next

LEMMA InitDispatch == Init => DispatchInv /\ Dispatch!Init
<1> SUFFICES ASSUME Init PROVE DispatchInv /\ Dispatch!Init
  OBVIOUS
<1>1. \A s \in Signal : Unlocked(s) /\ ~Stored(s)
  BY DEF Init, Unlocked, Stored
<1>2. DispatchInv
  BY <1>1, InitInv DEF DispatchInv, LockHolderWorks
<1> QED
  BY <1>1, <1>2 DEF Dispatch!Init, Init, Phase

THEOREM DispatchInvariance == Spec => []DispatchInv
BY InitDispatch, NextDispatch, PTL DEF Spec

\* Nobody waits for a worker that waits: whoever has locked a row, of whatever
\* signal, is about to send or to commit, which needs no other lock.
THEOREM LockHoldersWork == Spec => []LockHolderWorks
<1>1. DispatchInv => LockHolderWorks
  BY DEF DispatchInv
<1> QED
  BY <1>1, DispatchInvariance, PTL

\* Any number of workers that ingest, dispatch, fail and crash together is, to
\* the tables and the queue, one transaction of a signal at a time that sends and
\* then marks.
THEOREM DispatchIsLocked == Spec => DispatchesAreLocked
<1>1. DispatchInv /\ [Next]_vars => [Dispatch!Next]_(Dispatch!vars)
  BY NextDispatch
<1> QED
  BY <1>1, InitDispatch, DispatchInvariance, PTL DEF Spec, DispatchesAreLocked, Dispatch!Spec

\* What LockedDispatch promises follows from its steps alone, and so is true of the
\* ingestion: a signal that is marked was sent, and is not sent again.
THEOREM LockedDispatchPromises ==
    Dispatch!Spec => []Dispatch!MarkedWereSent /\ Dispatch!MarkedAreSettled
<1> DEFINE phase == [s \in Signal |-> Phase(s)]
           marked == {s \in Signal : Stored(s) /\ signals[s].queued}
           SendInv == /\ dispatches \in [Signal -> Nat]
                      /\ \A s \in Signal : phase[s] = "sent" => dispatches[s] > 0
                      /\ \A s \in marked : dispatches[s] > 0 /\ phase[s] = "unlocked"
<1>1. Dispatch!Init => SendInv
  BY DEF Dispatch!Init
<1>2. SendInv /\ [Dispatch!Next]_(Dispatch!vars) => SendInv' /\ Dispatch!KeepsMarked
  <2> SUFFICES ASSUME SendInv, [Dispatch!Next]_(Dispatch!vars)
               PROVE  SendInv' /\ Dispatch!KeepsMarked
    OBVIOUS
  <2> USE DEF Dispatch!KeepsMarked
  <2>1. ASSUME UNCHANGED <<phase, marked, dispatches>> PROVE SendInv' /\ Dispatch!KeepsMarked
    BY <2>1
  <2>2. ASSUME NEW s \in Signal, Dispatch!Record(s) PROVE SendInv' /\ Dispatch!KeepsMarked
    BY <2>1, <2>2 DEF Dispatch!Record
  <2>3. ASSUME NEW s \in Signal, Dispatch!Lock(s) PROVE SendInv' /\ Dispatch!KeepsMarked
    BY <2>3 DEF Dispatch!Lock
  <2>4. ASSUME NEW s \in Signal, Dispatch!Send(s) PROVE SendInv' /\ Dispatch!KeepsMarked
    <3>1. /\ phase[s] = "locked" /\ phase' = [phase EXCEPT ![s] = "sent"]
          /\ dispatches' = [dispatches EXCEPT ![s] = dispatches[s] + 1]
          /\ marked' = marked
      BY <2>4 DEF Dispatch!Send
    <3>2. marked \subseteq Signal /\ DOMAIN phase = Signal
      OBVIOUS
    <3>3. /\ SendInv'
          /\ \A i \in marked : dispatches'[i] = dispatches[i]
      <4> HIDE DEF phase, marked
      <4> QED
        BY <3>1, <3>2
    <3>4. Dispatch!KeepsMarked
      BY <3>3
    <3> QED
      BY <3>3, <3>4
  <2>5. ASSUME NEW s \in Signal, Dispatch!Commit(s) PROVE SendInv' /\ Dispatch!KeepsMarked
    BY <2>5 DEF Dispatch!Commit
  <2>6. ASSUME NEW s \in Signal, Dispatch!RollBack(s) PROVE SendInv' /\ Dispatch!KeepsMarked
    BY <2>6 DEF Dispatch!RollBack
  <2> QED
    BY <2>1, <2>2, <2>3, <2>4, <2>5, <2>6 DEF Dispatch!Next, Dispatch!vars
<1>3. SendInv => Dispatch!MarkedWereSent
  BY DEF Dispatch!MarkedWereSent
<1> HIDE DEF SendInv
<1> QED
  BY <1>1, <1>2, <1>3, PTL DEF Dispatch!Spec, Dispatch!MarkedAreSettled
=============================================================================
