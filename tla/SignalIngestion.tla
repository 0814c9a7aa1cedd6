--------------------------- MODULE SignalIngestion ---------------------------
(***************************************************************************)
(* From a collector's observation to a stored signal and its enrichment    *)
(* message: app/ingestion_worker.py, app/service.py and the functions of   *)
(* app/repository.py and app/storage.py they call.                         *)
(*                                                                         *)
(* Collectors put observations on the ingestion queue; ingestion workers   *)
(* take them one by one and run ingest_signal.  Every S3 write, database   *)
(* transaction and SQS send of ingest_signal is an action of its own: the  *)
(* workers interleave between them, and a worker may fail or crash before  *)
(* any of them.  The queue redelivers what was not acknowledged, up to     *)
(* MaxReceive deliveries, and may also deliver an acknowledged message     *)
(* again (standard SQS queues are at-least-once).                          *)
(***************************************************************************)
EXTENDS Naturals, Sequences

CONSTANTS
    Signal,         \* source identities: (vertical, source_type, external_id)
    SourceType,     \* SourceType[s] is the source_type of identity s
    Content,        \* payloads a provider can show (told apart by their sha256)
    Worker,         \* concurrent executions of the ingestion Lambda
    None,           \* SQL NULL, an absent row or an absent object
    MaxReceive,     \* maxReceiveCount of the queue's redrive policy
    MaxObservations,\* bound: observations the collectors make
    MaxDay          \* bound: calendar days that pass

SourceTypes == {"planning", "ofsted", "procurement", "other"}

\* The columns of raw_signals that ingestion decides on: content_sha256, and
\* whether enrichment_queued_at is set.
Row == [hash: Content, queued: BOOLEAN]

ASSUME ConstantsAssumption ==
    /\ SourceType \in [Signal -> SourceTypes]
    /\ None \notin Content \cup Worker \cup Row
    /\ MaxReceive \in Nat \ {0}
    /\ MaxObservations \in Nat
    /\ MaxDay \in Nat \ {0}

VARIABLES
    observations,   \* everything the collectors sent, in sending order
    delivery,       \* delivery[n]: queue state of observation n
    today,          \* the date part of discovered_at of a new observation
    job,            \* job[w]: where worker w is in ingest_signal, its locals
    signals,        \* table raw_signals
    revisions,      \* table raw_signal_revisions: the hashes stored per signal
    documents,      \* table source_documents, per signal in insertion order
    objects,        \* the evidence bucket: object key -> payload
    rowLock,        \* the worker holding SELECT ... FOR UPDATE on a signal
    enrichmentQueue,\* enrichment messages ever sent: signal and evidence key
    dispatches      \* sends made by dispatch_enrichment, per signal

vars == <<observations, delivery, today, job, signals, revisions, documents,
          objects, rowLock, enrichmentQueue, dispatches>>

database == <<signals, revisions, documents>>
-----------------------------------------------------------------------------
Day == 1..MaxDay

Observation == [signal: Signal, content: Content, day: Day]

\* Object keys.  The first object of a signal is named by its identity and the
\* day of discovery, not by its content; a revision's key holds the hash.
RawKey(s, d) == [signal |-> s, day |-> d, hash |-> None]
RevisionKeyBug(s, d, c) == RawKey(s, d)
RevisionKey(s, d, c) == [signal |-> s, day |-> d, hash |-> c]
Key == [signal: Signal, day: Day, hash: Content \cup {None}]

Document == [key: Key, hash: Content]

Mutable(s) == SourceType[s] \in {"planning", "ofsted", "procurement"}
RevisionIsEnriched(s) == SourceType[s] \in {"planning", "ofsted"}

\* A Python thread's place in ingest_signal; the next transaction or call.
Step == {"idle", "find", "putRaw", "store", "dispatch", "send", "markQueued",
         "putRevision", "storeRevision", "sendRevision", "acknowledge",
         "conflict"}

Idle == [step |-> "idle", message |-> 0, key |-> None]

Busy(w, steps) == job[w].step \in steps
Current(w) == observations[job[w].message]
GoTo(w, step) == job' = [job EXCEPT ![w].step = step]
GoToWith(w, step, key) == job' = [job EXCEPT ![w].step = step, ![w].key = key]

Seen(s) == {documents[s][i].key : i \in DOMAIN documents[s]}
Evidenced(s) == {documents[s][i].hash : i \in DOMAIN documents[s]}

\* (Bug: one document per signal, whatever its key.)
WithDocumentBug(s, key, content) ==
    IF documents[s] # <<>> THEN documents
    ELSE [documents EXCEPT ![s] = Append(@, [key |-> key, hash |-> content])]

\* INSERT INTO source_documents ... ON CONFLICT (s3_bucket, s3_key) DO NOTHING
WithDocument(s, key, content) ==
    IF key \in Seen(s) THEN documents
    ELSE [documents EXCEPT ![s] = Append(@, [key |-> key, hash |-> content])]

\* A transaction that changes the row of s, or inserts a row that refers to
\* it, waits for the transaction that has locked it.
Unlocked(s) == rowLock[s] = None

\* What the worker checks, each followed in the text below by the action that
\* relies on it.  A definition named ...Bug is a plausible slip in that code:
\* no action uses it, the mutation runs put it in place of its namesake.

\* The row that the insert returned belongs to another payload.
RefusedBug(row, c) == FALSE
Refused(row, c) == row.hash # c

\* "stored.identity.enrichment_queued_at is None", whoever created the row.
NeedsDispatchBug(s, row) == signals[s] = None /\ ~row.queued
NeedsDispatch(s, row) == ~row.queued

\* enrichment_queued_at as it is read again under the row lock.
AlreadyQueuedBug(s) == FALSE
AlreadyQueued(s) == signals[s].queued

\* The queue still redelivers a message that failed.
CanRetryBug(n) == delivery[n].receives <= MaxReceive
CanRetry(n) == delivery[n].receives < MaxReceive

\* The row locks left when the connection of worker w closes.
LocksWithoutBug(w) == rowLock
LocksWithout(w) == [s \in Signal |-> IF rowLock[s] = w THEN None ELSE rowLock[s]]
-----------------------------------------------------------------------------
Init ==
    /\ observations = <<>>
    /\ delivery = <<>>
    /\ today = 1
    /\ job = [w \in Worker |-> Idle]
    /\ signals = [s \in Signal |-> None]
    /\ revisions = [s \in Signal |-> {}]
    /\ documents = [s \in Signal |-> <<>>]
    /\ objects = [k \in Key |-> None]
    /\ rowLock = [s \in Signal |-> None]
    /\ enrichmentQueue = {}
    /\ dispatches = [s \in Signal |-> 0]

\* A collector sends what the provider shows of an identity today.
Observe(s, c) ==
    /\ Len(observations) < MaxObservations
    /\ observations' = Append(observations,
                              [signal |-> s, content |-> c, day |-> today])
    /\ delivery' = Append(delivery, [state |-> "visible", receives |-> 0])
    /\ UNCHANGED <<today, job, database, objects, rowLock, enrichmentQueue,
                   dispatches>>

NextDay ==
    /\ today < MaxDay
    /\ Len(observations) < MaxObservations    \* later days show nothing new
    /\ today' = today + 1
    /\ UNCHANGED <<observations, delivery, job, database, objects, rowLock,
                   enrichmentQueue, dispatches>>

Receive(w, n) ==
    /\ Busy(w, {"idle"})
    /\ n \in DOMAIN delivery
    /\ delivery[n].state = "visible"
    /\ delivery' = [delivery EXCEPT ![n] = [state |-> "inFlight",
                                            receives |-> @.receives + 1]]
    /\ job' = [job EXCEPT ![w] = [step |-> "find", message |-> n, key |-> None]]
    /\ UNCHANGED <<observations, today, database, objects, rowLock,
                   enrichmentQueue, dispatches>>

\* find_signal and the branch taken on what it returns.  The row read here is
\* a snapshot: nothing keeps another worker from changing it afterwards.
FindSignal(w) ==
    LET s == Current(w).signal
        c == Current(w).content
    IN  /\ Busy(w, {"find"})
        /\ \/ /\ signals[s] = None
              /\ GoToWith(w, "putRaw", RawKey(s, Current(w).day))
           \/ /\ signals[s] # None
              /\ signals[s].hash = c
              /\ GoToWith(w, "store", documents[s][Len(documents[s])].key)
           \/ /\ signals[s] # None
              /\ signals[s].hash # c
              /\ IF Mutable(s)
                 THEN GoToWith(w, "putRevision", RevisionKey(s, Current(w).day, c))
                 ELSE GoTo(w, "conflict")
        /\ UNCHANGED <<observations, delivery, today, database, objects,
                       rowLock, enrichmentQueue, dispatches>>

PutEvidence(w, from, to) ==
    /\ Busy(w, {from})
    /\ objects' = [objects EXCEPT ![job[w].key] = Current(w).content]
    /\ GoTo(w, to)
    /\ UNCHANGED <<observations, delivery, today, database, rowLock,
                   enrichmentQueue, dispatches>>

PutRaw(w) == PutEvidence(w, "putRaw", "store")
PutRevisionBug(w) ==    \* (Bug: the S3 error is swallowed.)
    /\ Busy(w, {"putRevision"})
    /\ GoTo(w, "storeRevision")
    /\ UNCHANGED <<observations, delivery, today, database, objects, rowLock,
                   enrichmentQueue, dispatches>>
PutRevision(w) == PutEvidence(w, "putRevision", "storeRevision")

\* store_signal: one transaction, and the decision taken on the row it returns.
StoreSignal(w) ==
    LET s == Current(w).signal
        c == Current(w).content
        row == IF signals[s] = None THEN [hash |-> c, queued |-> FALSE]
                                    ELSE signals[s]
    IN  /\ Busy(w, {"store"})
        /\ job[w].key \in Seen(s) \/ Unlocked(s)
        /\ signals' = [signals EXCEPT ![s] = row]
        /\ documents' = WithDocument(s, job[w].key, c)
        /\ \/ Refused(row, c) /\ GoTo(w, "conflict")
           \/ /\ ~Refused(row, c) /\ ~NeedsDispatch(s, row)
              /\ GoTo(w, "acknowledge")
           \/ /\ ~Refused(row, c) /\ NeedsDispatch(s, row)
              /\ GoToWith(w, "dispatch", documents'[s][1].key)
        /\ UNCHANGED <<observations, delivery, today, revisions, objects,
                       rowLock, enrichmentQueue, dispatches>>

\* dispatch_enrichment, first half: lock the row and read it again.
LockForDispatch(w) ==
    LET s == Current(w).signal
    IN  /\ Busy(w, {"dispatch"})
        /\ Unlocked(s)
        /\ IF AlreadyQueued(s)
           THEN GoTo(w, "acknowledge") /\ UNCHANGED rowLock
           ELSE /\ GoTo(w, "send")
                /\ rowLock' = [rowLock EXCEPT ![s] = w]
        /\ UNCHANGED <<observations, delivery, today, database, objects,
                       enrichmentQueue, dispatches>>

SendEnrichmentBug(w) ==    \* (Bug: a failed send is swallowed.)
    /\ Busy(w, {"send"})
    /\ GoTo(w, "markQueued")
    /\ UNCHANGED <<observations, delivery, today, database, objects, rowLock,
                   enrichmentQueue, dispatches>>

\* The message leaves while the row is locked ...
SendEnrichment(w) ==
    LET s == Current(w).signal
    IN  /\ Busy(w, {"send"})
        /\ enrichmentQueue' = enrichmentQueue \cup
                                {[signal |-> s, key |-> job[w].key]}
        /\ dispatches' = [dispatches EXCEPT ![s] = @ + 1]
        /\ GoTo(w, "markQueued")
        /\ UNCHANGED <<observations, delivery, today, database, objects, rowLock>>

\* ... and enrichment_queued_at is committed after it, which unlocks the row.
MarkQueued(w) ==
    LET s == Current(w).signal
    IN  /\ Busy(w, {"markQueued"})
        /\ signals' = [signals EXCEPT ![s].queued = TRUE]
        /\ rowLock' = [rowLock EXCEPT ![s] = None]
        /\ GoTo(w, "acknowledge")
        /\ UNCHANGED <<observations, delivery, today, revisions, documents,
                       objects, enrichmentQueue, dispatches>>

\* store_planning_revision: a hash that is already a revision changes nothing.
StoreRevision(w) ==
    LET s == Current(w).signal
        c == Current(w).content
    IN  /\ Busy(w, {"storeRevision"})
        /\ c \in revisions[s] \/ Unlocked(s)
        /\ IF c \in revisions[s]
           THEN GoTo(w, "acknowledge") /\ UNCHANGED database
           ELSE /\ revisions' = [revisions EXCEPT ![s] = @ \cup {c}]
                /\ signals' = [signals EXCEPT ![s].hash = c]
                /\ documents' = WithDocument(s, job[w].key, c)
                /\ GoTo(w, IF RevisionIsEnriched(s) THEN "sendRevision"
                                                    ELSE "acknowledge")
        /\ UNCHANGED <<observations, delivery, today, objects, rowLock,
                       enrichmentQueue, dispatches>>

\* dispatch_revision_enrichment: a plain send, after the commit.
SendRevision(w) ==
    /\ Busy(w, {"sendRevision"})
    /\ enrichmentQueue' = enrichmentQueue \cup
                            {[signal |-> Current(w).signal, key |-> job[w].key]}
    /\ GoTo(w, "acknowledge")
    /\ UNCHANGED <<observations, delivery, today, database, objects, rowLock,
                   dispatches>>

\* The handler returns without naming the record: SQS deletes the message.
Acknowledge(w) ==
    /\ Busy(w, {"acknowledge"})
    /\ delivery' = [delivery EXCEPT ![job[w].message].state = "deleted"]
    /\ job' = [job EXCEPT ![w] = Idle]
    /\ UNCHANGED <<observations, today, database, objects, rowLock,
                   enrichmentQueue, dispatches>>

\* The record fails: an exception the handler reports in batchItemFailures, a
\* timeout or a crash.  An open transaction rolls back and gives up its lock.
\* The message becomes visible again, or moves to the dead-letter queue.
Abandon(w) ==
    LET n == job[w].message
    IN  /\ ~Busy(w, {"idle"})
        /\ delivery' = [delivery EXCEPT ![n].state =
                            IF @ # "inFlight" THEN @
                            ELSE IF CanRetry(n) THEN "visible" ELSE "dead"]
        /\ rowLock' = LocksWithout(w)
        /\ job' = [job EXCEPT ![w] = Idle]
        /\ UNCHANGED <<observations, today, database, objects, enrichmentQueue,
                       dispatches>>

\* Standard SQS queue: a message that was deleted can be delivered once more.
Redeliver(n) ==
    /\ n \in DOMAIN delivery
    /\ delivery[n].state = "deleted"
    /\ CanRetry(n)
    /\ delivery' = [delivery EXCEPT ![n].state = "visible"]
    /\ UNCHANGED <<observations, today, job, database, objects, rowLock,
                   enrichmentQueue, dispatches>>

\* The steps a worker takes by itself while it holds a message.
Progress(w) ==
    \/ FindSignal(w)
    \/ PutRaw(w)
    \/ StoreSignal(w)
    \/ LockForDispatch(w)
    \/ SendEnrichment(w)
    \/ MarkQueued(w)
    \/ PutRevision(w)
    \/ StoreRevision(w)
    \/ SendRevision(w)
    \/ Acknowledge(w)
    \/ Busy(w, {"conflict"}) /\ Abandon(w)

Next ==
    \/ \E s \in Signal, c \in Content : Observe(s, c)
    \/ NextDay
    \/ \E w \in Worker, n \in 1..MaxObservations : Receive(w, n)
    \/ \E w \in Worker : Progress(w) \/ Abandon(w)
    \/ \E n \in 1..MaxObservations : Redeliver(n)

Spec == Init /\ [][Next]_vars

\* A Lambda that holds a message runs on, and SQS keeps delivering what is
\* visible.  Nothing makes a collector observe, a day pass or a worker fail.
Fairness ==
    /\ \A w \in Worker : WF_vars(Progress(w))
    /\ \A n \in 1..MaxObservations : WF_vars(\E w \in Worker : Receive(w, n))

FairSpec == Spec /\ Fairness
-----------------------------------------------------------------------------
(***************************************************************************)
(* Properties                                                              *)
(***************************************************************************)

Delivery == [state: {"visible", "inFlight", "deleted", "dead"},
             receives: 0..MaxReceive]
Job == [step: Step, message: 0..MaxObservations, key: Key \cup {None}]

\* Every variable has its type; no message is received more often than the
\* redrive policy allows.
TypeOK ==
    /\ observations \in Seq(Observation)
    /\ delivery \in Seq(Delivery)
    /\ Len(delivery) = Len(observations)
    /\ Len(observations) <= MaxObservations
    /\ today \in Day
    /\ job \in [Worker -> Job]
    /\ signals \in [Signal -> Row \cup {None}]
    /\ revisions \in [Signal -> SUBSET Content]
    /\ documents \in [Signal -> Seq(Document)]
    /\ objects \in [Key -> Content \cup {None}]
    /\ rowLock \in [Signal -> Worker \cup {None}]
    /\ enrichmentQueue \subseteq [signal: Signal, key: Key]
    /\ dispatches \in [Signal -> Nat]

Stored(s) == signals[s] # None

\* A source_documents row is never committed before its object: the object is
\* in the bucket, and a revision's object holds the payload whose hash the row
\* records (put_raw_evidence comes before store_planning_revision).
EvidenceIsStored ==
    \A s \in Signal : \A i \in DOMAIN documents[s] :
        LET d == documents[s][i]
        IN  /\ objects[d.key] # None
            /\ d.key.hash # None => objects[d.key] = d.hash

\* Whatever content a signal shows, by insert, by revision or by a race of the
\* two, some document of that signal records the same hash.
CanonicalIsEvidenced ==
    \A s \in Signal : Stored(s) => signals[s].hash \in Evidenced(s)

\* A message SQS may forget was really ingested: its payload is evidence of
\* its signal, and for a source that does not revise, the signal's content.
AcknowledgedIsRecorded ==
    \A n \in DOMAIN delivery :
        LET o == observations[n]
        IN  delivery[n].state = "deleted" =>
                /\ Stored(o.signal)
                /\ o.content \in Evidenced(o.signal)
                /\ ~Mutable(o.signal) => signals[o.signal].hash = o.content

\* enrichment_queued_at is only ever set on a signal whose message was sent.
QueuedMeansSent ==
    \A s \in Signal : Stored(s) /\ signals[s].queued =>
        dispatches[s] > 0 /\ \E m \in enrichmentQueue : m.signal = s

\* The evidence key an enrichment message carries is a committed document of
\* the signal it names: the enrichment worker never meets an unknown signal.
MessagesNameEvidence ==
    \A m \in enrichmentQueue : m.key \in Seen(m.signal)

\* "Send once while holding a row lock": after a dispatch has committed, no
\* other worker sends again, whatever it read before taking the lock.
NoDispatchAfterQueued ==
    [][\A s \in Signal : Stored(s) /\ signals[s].queued =>
            dispatches'[s] = dispatches[s]]_vars

\* dispatch_enrichment as a transaction of the signal's row: no other worker
\* locks it, sends for it or marks it until this one commits or is rolled back,
\* and what is marked was sent by the transaction that marks it.
Phase(s) ==
    IF Unlocked(s) THEN "unlocked"
    ELSE IF Busy(rowLock[s], {"markQueued"}) THEN "sent" ELSE "locked"

Dispatch == INSTANCE LockedDispatch WITH
    Item <- Signal,
    recorded <- {s \in Signal : Stored(s)},
    marked <- {s \in Signal : Stored(s) /\ signals[s].queued},
    phase <- [s \in Signal |-> Phase(s)],
    sends <- dispatches

DispatchesAreLocked == Dispatch!Spec

\* Every message ends: it is acknowledged or it reaches the dead-letter queue,
\* whatever locks the workers that died in between were holding.
EveryObservationSettles ==
    \A n \in 1..MaxObservations :
        (n \in DOMAIN delivery) ~>
        (n \in DOMAIN delivery /\ delivery[n].state \in {"deleted", "dead"})

\* A stored signal of a source whose revisions are enriched, or that has none,
\* is offered for enrichment at least once, or a message with its content has
\* been parked in the dead-letter queue where operators see it.
StoredIsEnriched ==
    \A s \in Signal : SourceType[s] # "procurement" =>
        (Stored(s) ~>
            \/ \E m \in enrichmentQueue : m.signal = s
            \/ \E n \in DOMAIN delivery :
                  /\ delivery[n].state = "dead"
                  /\ observations[n].signal = s
                  /\ observations[n].content \in Evidenced(s))

\* dispatch_revision_enrichment: "Queue one enrichment after a newly persisted
\* mutable-source revision."  A revision row of such a source is followed by
\* an enrichment message for it unless a message was dead-lettered.
RevisionIsQueued ==
    \A s \in Signal, c \in Content : RevisionIsEnriched(s) =>
        (c \in revisions[s] ~>
            \/ \E m \in enrichmentQueue : m.signal = s /\ m.key.hash = c
            \/ \E n \in DOMAIN delivery : delivery[n].state = "dead")

\* README: "A changed planning record is stored as an immutable evidence object
\* and a raw_signal_revisions row while updating the existing canonical signal".
\* When a worker acknowledges a planning observation, and no other worker is
\* there to interfere, the canonical signal shows what was observed.
ObservedIsCanonical ==
    [][\A w \in Worker : Acknowledge(w) /\ SourceType[Current(w).signal] = "planning" =>
            signals[Current(w).signal].hash = Current(w).content]_vars
=============================================================================
