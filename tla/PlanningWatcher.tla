--------------------------- MODULE PlanningWatcher ---------------------------
(***************************************************************************)
(* The CareProspect planning watcher: the watch, run and state tables and  *)
(* the functions of app/repository.py that change them, the coordinator in *)
(* app/handler.py, the poll of one application in app/collector.py, and    *)
(* the result consumer in app/worker.py.                                   *)
(*                                                                         *)
(* A coordinator (the six-hourly Lambda, an admin's or an MCP request)     *)
(* enrols watches and queues runs for the due ones; a collector polls the  *)
(* provider for one run, offers a change to ingestion and reports a        *)
(* result; the result is recorded on the run and its watch.  A database    *)
(* transaction is one action, split where it reads first and writes what   *)
(* it decided later.  Time is what it makes true: a watch comes due, a run *)
(* is thirty minutes old, a day or a month ends.                           *)
(***************************************************************************)
EXTENDS Integers, FiniteSets, FiniteSetsExt

CONSTANTS
    Watch,          \* (opportunity, primary signal) pairs that may be watched
    Opportunity,
    OpportunityOf,  \* OpportunityOf[w]
    Run,            \* rows for runs; a settled one nothing refers to is reused
    WatchOf,        \* WatchOf[r]: the watch_id of the rows r stands for
    Outcome,        \* what planning_watch_snapshot tells apart
    First,          \* the snapshot of the signal as it was first ingested
    Decided,        \* TERMINAL_PLANNING_OUTCOMES
    Negative,       \* the decided ones that leave a lifecycle STOPPED
    Coordinator,
    Collector,      \* maximum_concurrency of the event source mapping
    None,
    Period,         \* {"day", "month"}: what a quota is for
    MaxPolls,       \* min(max_due, max_polls_per_execution)
    Limit,          \* max_provider_requests_per_day and _per_month
    MaxRequests,    \* calls one poll makes: two lookups of three attempts
    MaxReceive      \* maxReceiveCount of the planning manual-run queue

Failures == {"FAILED", "QUEUE_FAILED"}   \* RATE_LIMITED is treated as FAILED
Settled == {"UNCHANGED", "CHANGED"} \cup Failures

ASSUME ConstantsAssumption ==
    /\ OpportunityOf \in [Watch -> Opportunity]
    /\ WatchOf \in [Run -> Watch]
    /\ IsFiniteSet(Run)
    /\ First \in Outcome \ Decided
    /\ Negative \subseteq Decided /\ Decided \subseteq Outcome
    /\ None \notin Outcome \cup Coordinator \cup Run
    /\ Period \subseteq {"day", "month"} /\ "day" \in Period
    /\ MaxPolls \in Nat /\ MaxRequests \in Nat /\ MaxReceive \in Nat \ {0}
    /\ Limit \in [Period -> Nat]

VARIABLES
    executionEnabled,   \* planning_lifecycle_watcher_state.execution_enabled
    stateLock,          \* the coordinator holding that row FOR UPDATE
    watches,            \* table planning_lifecycle_watches
    runs,               \* table planning_lifecycle_watch_runs
    used,               \* sum(provider_requests) of the runs of this day (month)
    blocked,            \* opportunities with publication_automation_blocked
    stopped,            \* opportunities whose lifecycle is STOPPED
    published,          \* what the provider shows of the application
    evidence,           \* the metadata of the primary signal
    recorded,           \* the revisions stored of that signal
    offered,            \* what was ever put on the ingestion queue for it
    changes,            \* ... and has not been taken from it
    jobs,               \* the planning manual-run queue, by run
    results,            \* results on the enrichment queue
    coordinator,        \* coordinator[k]: its place in the code, its locals
    collector           \* collector[c]: the same

tables == <<watches, runs, used>>
signal == <<published, evidence, recorded>>
queues == <<offered, changes, jobs, results>>
switches == <<executionEnabled, blocked, stopped>>
vars == <<switches, stateLock, tables, signal, queues, coordinator, collector>>
-----------------------------------------------------------------------------
WatchRow == [enrolled: BOOLEAN, enabled: BOOLEAN, due: BOOLEAN, snapshot: Outcome]
RunRow == [status: {"none", "QUEUED"} \cup Settled, old: BOOLEAN,
           in: SUBSET Period]
Plan == [do: {"leave", "disable"}] \cup
        [do: {"insert", "update"}, next: {"staggered", "future", "due"}, snapshot: Outcome]
Leave == [do |-> "leave"]
Item == [run: Run, snapshot: Outcome]
Job == [snapshot: Outcome, receives: 0..MaxReceive, held: BOOLEAN]
ASSUME MessagesAssumption == None \notin Job
Result == [run: Run, status: {"UNCHANGED", "CHANGED", "FAILED"},
           requests: 0..MaxRequests, snapshot: Outcome \cup {None}]
Queueing == [step: {"idle", "enrolling", "selecting", "sending", "failing"},
             plan: [Watch -> Plan], swept: SUBSET Run, budget: Nat,
             items: SUBSET Item, failing: Run \cup {None}]
Polling == [step: {"idle", "poll", "offer", "report", "acknowledge"},
            run: Run \cup {None}, snapshot: Outcome \cup {None},
            status: {"UNCHANGED", "CHANGED", "FAILED"}, requests: 0..MaxRequests]

\* The locals of enrol_care_planning_watches and of
\* queue_due_care_planning_watches.
CoordinatorIdle ==
    [step |-> "idle", plan |-> [w \in Watch |-> Leave], swept |-> {},
     budget |-> 0, items |-> {}, failing |-> None]
CollectorIdle ==
    [step |-> "idle", run |-> None, snapshot |-> None, status |-> "FAILED",
     requests |-> 0]

\* Rows the queries select.
ActiveRuns == {r \in Run : runs[r].status = "QUEUED"}
OldRunsBug == {}
OldRuns == {r \in ActiveRuns : runs[r].old}
\* (Bug: only RUNNING, a status that no code gives a run.)
PolledBug(w) == {r \in Run : WatchOf[r] = w /\ runs[r].status = "RUNNING"}
Polled(w) == {r \in ActiveRuns : WatchOf[r] = w}
Unblocked(w) == OpportunityOf[w] \notin blocked

\* Runs that a queueing transaction has marked FAILED and not committed.
UncommittedSweep == UNION {coordinator[k].swept : k \in Coordinator}

\* A row of Run that stands for no run that anything still refers to.
Free(r) ==
    /\ runs[r].status # "QUEUED"
    /\ jobs[r] = None
    /\ \A m \in results : m.run # r
    /\ \A c \in Collector : collector[c].run # r
    /\ \A k \in Coordinator :
          /\ coordinator[k].failing # r
          /\ \A i \in coordinator[k].items : i.run # r

\* evaluate_planning_watch, for evidence that is relevant and not stale.
Eligible(w) ==
    /\ Unblocked(w)
    /\ OpportunityOf[w] \notin stopped
    /\ evidence[w] \notin Decided

\* What is left of the quota once the old runs are swept.
Available(p) == Limit[p] - used[p] - Cardinality(ActiveRuns \ OldRuns)
Budget == Min({MaxPolls} \cup {Available(p) : p \in Period})

\* A run that waits no more: its age and its periods no longer matter.
SettledAs(status) == [status |-> status, old |-> FALSE, in |-> {}]

Charge(r, n) == [p \in Period |-> IF p \in runs[r].in THEN used[p] + n ELSE used[p]]
-----------------------------------------------------------------------------
Init ==
    /\ executionEnabled = FALSE
    /\ stateLock = None
    /\ watches = [w \in Watch |->
          [enrolled |-> FALSE, enabled |-> FALSE, due |-> FALSE, snapshot |-> First]]
    /\ runs = [r \in Run |-> [status |-> "none", old |-> FALSE, in |-> {}]]
    /\ used = [p \in Period |-> 0]
    /\ blocked = {}
    /\ stopped = {}
    /\ published = [w \in Watch |-> First]
    /\ evidence = [w \in Watch |-> First]
    /\ recorded = [w \in Watch |-> {First}]
    /\ offered = [w \in Watch |-> {First}]
    /\ changes = {}
    /\ jobs = [r \in Run |-> None]
    /\ results = {}
    /\ coordinator = [k \in Coordinator |-> CoordinatorIdle]
    /\ collector = [c \in Collector |-> CollectorIdle]

-----------------------------------------------------------------------------
(* enrol_care_planning_watches: one transaction, which reads the candidates *)
(* and the watches without locking them, and then writes by watch id.       *)

\* The next poll that is written: an enabled watch keeps the one read, in the
\* future or due by then; the others get a new one, staggered over a cadence.
NextPoll(w) ==
    IF ~watches[w].enabled THEN "staggered"
    ELSE IF watches[w].due THEN "due" ELSE "future"

\* What the rows read make of watch w.
Decision(w) ==
    IF Eligible(w)
      THEN [do |-> IF watches[w].enrolled THEN "update" ELSE "insert",
            next |-> NextPoll(w), snapshot |-> evidence[w]]
    ELSE IF watches[w].enabled THEN [do |-> "disable"] ELSE Leave

ReadCohort(k) ==
    /\ coordinator[k].step = "idle"
    /\ coordinator' = [coordinator EXCEPT ![k] =
          [CoordinatorIdle EXCEPT !.step = "enrolling",
                                  !.plan = [w \in Watch |-> Decision(w)]]]
    /\ UNCHANGED <<switches, stateLock, tables, signal, queues, collector>>

\* (Bug: a watch that is enrolled again keeps its snapshot.)
EnrolledBug(w, plan) ==
    CASE plan.do = "leave" -> watches[w]
      [] plan.do = "disable" -> [watches[w] EXCEPT !.enabled = FALSE]
      [] OTHER -> [watches[w] EXCEPT !.enrolled = TRUE, !.enabled = TRUE,
                                     !.due = plan.next = "due" \/ @]

\* The row of w after the write decided on.
Enrolled(w, plan) ==
    CASE plan.do = "leave" -> watches[w]
      [] plan.do = "disable" -> [watches[w] EXCEPT !.enabled = FALSE]
      [] OTHER -> [enrolled |-> TRUE, enabled |-> TRUE,
                   due |-> plan.next = "due" \/ (plan.next = "future" /\ watches[w].due),
                   snapshot |-> plan.snapshot]

\* An INSERT meets the row that another enrolment has inserted since.
Conflicting(w, plan) == plan.do = "insert" /\ watches[w].enrolled

Enrol(k) ==
    /\ coordinator[k].step = "enrolling"
    /\ \A w \in Watch : ~Conflicting(w, coordinator[k].plan[w])
    /\ watches' = [w \in Watch |-> Enrolled(w, coordinator[k].plan[w])]
    /\ coordinator' = [coordinator EXCEPT ![k] = CoordinatorIdle]
    /\ UNCHANGED <<switches, stateLock, runs, used, signal, queues, collector>>
-----------------------------------------------------------------------------
(* queue_due_care_planning_watches                                         *)

\* (Bug: the state row is read without FOR UPDATE.)
StateFreeBug == TRUE
StateFree == stateLock = None

\* The state row is locked, then the old runs are swept and the usage read.
\* With execution disabled or no budget all of it is rolled back, the sweep
\* too, and nothing has changed.
LockState(k) ==
    /\ coordinator[k].step = "idle"
    /\ StateFree
    /\ executionEnabled
    /\ Budget > 0
    /\ stateLock' = k
    /\ coordinator' = [coordinator EXCEPT ![k] =
          [CoordinatorIdle EXCEPT !.step = "selecting", !.swept = OldRuns,
                                  !.budget = Budget]]
    /\ UNCHANGED <<switches, tables, signal, queues, collector>>

\* What the select asks of a watch besides being due or to be retried.
\* (Bug: a disabled watch is thought to be all that a block needs.)
PollableBug(w, swept) == watches[w].enabled /\ Polled(w) \subseteq swept
Pollable(w, swept) ==
    /\ watches[w].enabled
    /\ Unblocked(w)
    /\ Polled(w) \subseteq swept

Fail(set) == [r \in Run |->
    IF r \in set THEN SettledAs("FAILED") ELSE runs[r]]

NewRunBug == [status |-> "RUNNING", old |-> FALSE, in |-> Period]
NewRun == [status |-> "QUEUED", old |-> FALSE, in |-> Period]

\* Select up to the budget, insert a run for each, and commit.
SelectAndQueue(k, candidates) ==
    LET me == coordinator[k]
        free == {r \in Run : Free(r) /\ WatchOf[r] \in candidates
                                    /\ Pollable(WatchOf[r], me.swept)}
        selectable == {WatchOf[r] : r \in free}
    IN  /\ me.step = "selecting"
        /\ \E new \in SUBSET free :
              /\ Cardinality(new) = Min({me.budget, Cardinality(selectable)})
              /\ \A r, q \in new : WatchOf[r] = WatchOf[q] => r = q
              /\ runs' = [r \in Run |-> IF r \in new THEN NewRun ELSE Fail(me.swept)[r]]
              /\ coordinator' = [coordinator EXCEPT ![k] =
                    [CoordinatorIdle EXCEPT
                       !.step = "sending",
                       !.items = {[run |-> r, snapshot |-> watches[WatchOf[r]].snapshot] : r \in new}]]
        /\ stateLock' = None
        /\ UNCHANGED <<switches, watches, used, signal, queues, collector>>

QueueDue(k) == SelectAndQueue(k, {w \in Watch : watches[w].due})

\* retry_run_ids names failed runs; a run this transaction sweeps is one.
RetryFailed(k) ==
    LET failed == {r \in Run : runs[r].status \in Failures} \cup coordinator[k].swept
    IN  \E named \in SUBSET failed :
            named # {} /\ SelectAndQueue(k, {WatchOf[r] : r \in named})

\* After the commit each run is sent on its own.
SendJob(k) ==
    /\ coordinator[k].step = "sending"
    /\ \E i \in coordinator[k].items :
          /\ jobs' = [jobs EXCEPT ![i.run] =
                [snapshot |-> i.snapshot, receives |-> 0, held |-> FALSE]]
          /\ coordinator' = [coordinator EXCEPT ![k].items = @ \ {i}]
    /\ UNCHANGED <<switches, stateLock, tables, signal, offered, changes, results, collector>>

\* The send raises; the queue may have taken the message all the same.
SendJobFails(k) ==
    /\ coordinator[k].step = "sending"
    /\ \E i \in coordinator[k].items :
          /\ \/ jobs' = [jobs EXCEPT ![i.run] =
                   [snapshot |-> i.snapshot, receives |-> 0, held |-> FALSE]]
             \/ UNCHANGED jobs
          /\ coordinator' = [coordinator EXCEPT ![k].step = "failing",
                ![k].items = @ \ {i}, ![k].failing = i.run]
    /\ UNCHANGED <<switches, stateLock, tables, signal, offered, changes, results, collector>>

\* UPDATE ... SET status = 'QUEUE_FAILED' ... AND status = 'QUEUED'
StillQueued(r) == runs[r].status = "QUEUED"

MarkQueueFailed(k) ==
    LET r == coordinator[k].failing IN
    /\ coordinator[k].step = "failing"
    /\ r \notin UncommittedSweep
    /\ IF StillQueued(r)
         THEN runs' = [runs EXCEPT ![r] = SettledAs("QUEUE_FAILED")]
         ELSE UNCHANGED runs
    /\ coordinator' = [coordinator EXCEPT ![k].step = "sending", ![k].failing = None]
    /\ UNCHANGED <<switches, stateLock, watches, used, signal, queues, collector>>

QueueingEnds(k) ==
    /\ coordinator[k].step = "sending"
    /\ coordinator[k].items = {}
    /\ coordinator' = [coordinator EXCEPT ![k] = CoordinatorIdle]
    /\ UNCHANGED <<switches, stateLock, tables, signal, queues, collector>>

\* The process ends, or an INSERT conflicts and the call raises: a transaction
\* is rolled back, runs that were committed and not sent stay QUEUED.
CoordinatorStops(k) ==
    /\ coordinator[k].step # "idle"
    /\ coordinator' = [coordinator EXCEPT ![k] = CoordinatorIdle]
    /\ stateLock' = IF stateLock = k THEN None ELSE stateLock
    /\ UNCHANGED <<switches, tables, signal, queues, collector>>
-----------------------------------------------------------------------------
(* refresh_planning_lifecycle_watch: one message, one poll, one result.    *)

GoOn(c, step, status, n, snapshot) ==
    collector' = [collector EXCEPT ![c] =
        [step |-> step, run |-> collector[c].run, snapshot |-> snapshot,
         status |-> status, requests |-> n]]

Report(c, status, n, snapshot) == GoOn(c, "report", status, n, snapshot)

ReceiveJob(c) ==
    /\ collector[c].step = "idle"
    /\ \E r \in Run :
          /\ jobs[r] # None
          /\ ~jobs[r].held
          /\ jobs' = [jobs EXCEPT ![r] =
                [snapshot |-> jobs[r].snapshot, receives |-> jobs[r].receives + 1, held |-> TRUE]]
          /\ collector' = [collector EXCEPT ![c] =
                [CollectorIdle EXCEPT !.step = "poll", !.run = r,
                                      !.snapshot = jobs[r].snapshot]]
    /\ UNCHANGED <<switches, stateLock, tables, signal, offered, changes, results, coordinator>>

\* The application is found: by its stable id, or by reference after a 404,
\* each lookup in one to three attempts.
PollFinds(c) ==
    LET shown == published[WatchOf[collector[c].run]] IN
    /\ collector[c].step = "poll"
    /\ \E n \in 1..MaxRequests :
          IF shown = collector[c].snapshot
            THEN Report(c, "UNCHANGED", n, shown)
            ELSE GoOn(c, "offer", "FAILED", n, shown)
    /\ UNCHANGED <<switches, stateLock, tables, signal, queues, coordinator>>

\* An invalid reference (no request), no match, a rate limit or an error.
PollFails(c) ==
    /\ collector[c].step = "poll"
    /\ \E n \in 0..MaxRequests : Report(c, "FAILED", n, None)
    /\ UNCHANGED <<switches, stateLock, tables, signal, queues, coordinator>>

Offer(w, o) ==
    /\ changes' = changes \cup {<<w, o>>}
    /\ offered' = [offered EXCEPT ![w] = @ \cup {o}]

\* (Bug: the change is reported but not offered.)
OfferChangeBug(c) ==
    /\ collector[c].step = "offer"
    /\ Report(c, "CHANGED", collector[c].requests, collector[c].snapshot)
    /\ UNCHANGED <<switches, stateLock, tables, signal, queues, coordinator>>

\* send_ingestion_message, before the result.
OfferChange(c) ==
    /\ collector[c].step = "offer"
    /\ Offer(WatchOf[collector[c].run], collector[c].snapshot)
    /\ Report(c, "CHANGED", collector[c].requests, collector[c].snapshot)
    /\ UNCHANGED <<switches, stateLock, tables, signal, jobs, results, coordinator>>

\* It raises; the queue may have taken the message all the same.
OfferFails(c) ==
    /\ collector[c].step = "offer"
    /\ \/ Offer(WatchOf[collector[c].run], collector[c].snapshot)
       \/ UNCHANGED <<changes, offered>>
    /\ Report(c, "FAILED", collector[c].requests, None)
    /\ UNCHANGED <<switches, stateLock, tables, signal, jobs, results, coordinator>>

SendResult(c) ==
    LET me == collector[c] IN
    /\ me.step = "report"
    /\ results' = results \cup {[run |-> me.run, status |-> me.status,
                                 requests |-> me.requests, snapshot |-> me.snapshot]}
    /\ collector' = [collector EXCEPT ![c] =
          [CollectorIdle EXCEPT !.step = "acknowledge", !.run = me.run]]
    /\ UNCHANGED <<switches, stateLock, tables, signal, offered, changes, jobs, coordinator>>

AcknowledgeJob(c) ==
    /\ collector[c].step = "acknowledge"
    /\ jobs' = [jobs EXCEPT ![collector[c].run] = None]
    /\ collector' = [collector EXCEPT ![c] = CollectorIdle]
    /\ UNCHANGED <<switches, stateLock, tables, signal, offered, changes, results, coordinator>>

\* The Lambda times out or is killed, or sending the result raises: the queue
\* delivers the message again, or moves it to the dead-letter queue.
CollectorStops(c) ==
    LET r == collector[c].run IN
    /\ collector[c].step # "idle"
    /\ jobs' = [jobs EXCEPT ![r] =
          IF jobs[r].receives < MaxReceive THEN [jobs[r] EXCEPT !.held = FALSE] ELSE None]
    /\ collector' = [collector EXCEPT ![c] = CollectorIdle]
    /\ UNCHANGED <<switches, stateLock, tables, signal, offered, changes, results, coordinator>>
\* A message nobody takes is deleted when its retention period ends.
LoseJob(r) ==
    /\ jobs[r] # None /\ ~jobs[r].held
    /\ jobs' = [jobs EXCEPT ![r] = None]
    /\ UNCHANGED <<switches, stateLock, tables, signal, offered, changes, results,
                   coordinator, collector>>
-----------------------------------------------------------------------------
(* update_care_planning_watch_result, called by the enrichment worker.     *)

\* (Bug: a result is recorded whatever the run's status.)
AwaitsResultBug(r) == TRUE
AwaitsResult(r) == runs[r].status = "QUEUED"

\* A terminal outcome disables the watch, any result puts off its next poll.
Checked(w, m) ==
    [enrolled |-> watches[w].enrolled,
     enabled |-> watches[w].enabled /\ m.snapshot \notin Decided,
     due |-> FALSE,
     snapshot |-> IF m.snapshot = None THEN watches[w].snapshot ELSE m.snapshot]

\* The run is locked and read; a settled one is a duplicate and is dropped.
RecordResult(m) ==
    LET w == WatchOf[m.run] IN
    /\ m.run \notin UncommittedSweep
    /\ IF AwaitsResult(m.run)
         THEN /\ runs' = [runs EXCEPT ![m.run] = SettledAs(m.status)]
              /\ watches' = [watches EXCEPT ![w] = Checked(w, m)]
              /\ used' = Charge(m.run, m.requests)
         ELSE UNCHANGED tables
    /\ UNCHANGED <<switches, stateLock, signal, offered, changes, jobs, coordinator, collector>>

\* The result is recorded and acknowledged, or recorded and delivered again.
TakeResult(m) == RecordResult(m) /\ results' = results \ {m}
TakeResultAgain(m) == RecordResult(m) /\ UNCHANGED results

\* Every delivery failed: the dead-letter queue of the enrichment queue.
LoseResult(m) ==
    /\ results' = results \ {m}
    /\ UNCHANGED <<switches, stateLock, tables, signal, offered, changes, jobs,
                   coordinator, collector>>
-----------------------------------------------------------------------------
(* What else changes the tables, and what time and the provider do.        *)

\* set_care_planning_watcher_execution: the UPDATE waits for the row lock.
SetExecution ==
    /\ StateFree
    /\ executionEnabled' = ~executionEnabled
    /\ UNCHANGED <<blocked, stopped, stateLock, tables, signal, queues, coordinator, collector>>

Disable(o) == [w \in Watch |->
    IF OpportunityOf[w] = o THEN [watches[w] EXCEPT !.enabled = FALSE] ELSE watches[w]]

\* set_opportunity_automation_block
Block(o) ==
    /\ blocked' = blocked \cup {o}
    /\ watches' = Disable(o)
    /\ UNCHANGED <<executionEnabled, stopped, stateLock, runs, used, signal,
                   queues, coordinator, collector>>

Unblock(o) ==
    /\ blocked' = blocked \ {o}
    /\ UNCHANGED <<executionEnabled, stopped, stateLock, tables, signal, queues,
                   coordinator, collector>>

\* recompute_care_opportunity_lifecycle_for_signal, for an opportunity whose
\* evidence is planning applications: STOPPED when all are refused.
Stops(o) == \A w \in Watch : OpportunityOf[w] = o => evidence[w] \in Negative

Recompute(o) ==
    /\ IF Stops(o) THEN stopped' = stopped \cup {o} /\ watches' = Disable(o)
                   ELSE stopped' = stopped \ {o} /\ UNCHANGED watches
    /\ UNCHANGED <<executionEnabled, blocked, stateLock, runs, used, signal,
                   queues, coordinator, collector>>

\* The ingestion worker stores a change; a revision it has stored is ignored.
Ingest(w, o) ==
    /\ <<w, o>> \in changes
    /\ changes' = changes \ {<<w, o>>}
    /\ recorded' = [recorded EXCEPT ![w] = @ \cup {o}]
    /\ evidence' = IF o \in recorded[w] THEN evidence ELSE [evidence EXCEPT ![w] = o]
    /\ UNCHANGED <<switches, stateLock, tables, published, offered, jobs, results,
                   coordinator, collector>>

\* ... or gives up: the ingestion dead-letter queue.
LoseChange(w, o) ==
    /\ <<w, o>> \in changes
    /\ changes' = changes \ {<<w, o>>}
    /\ UNCHANGED <<switches, stateLock, tables, signal, offered, jobs, results,
                   coordinator, collector>>

\* The planning authority decides.
Publish(w, o) ==
    /\ published[w] \notin Decided
    /\ o # published[w]
    /\ published' = [published EXCEPT ![w] = o]
    /\ UNCHANGED <<switches, stateLock, tables, evidence, recorded, queues,
                   coordinator, collector>>

ComesDue(w) ==
    /\ watches[w].enrolled /\ ~watches[w].due
    /\ watches' = [watches EXCEPT ![w].due = TRUE]
    /\ UNCHANGED <<switches, stateLock, runs, used, signal, queues,
                   coordinator, collector>>

\* Thirty minutes after the run was created.
GrowsOld(r) ==
    /\ runs[r].status = "QUEUED" /\ ~runs[r].old
    /\ runs' = [runs EXCEPT ![r].old = TRUE]
    /\ UNCHANGED <<switches, stateLock, watches, used, signal, queues,
                   coordinator, collector>>

\* What was requested before counts no more: a day ends, and with a month a day.
Ends(ended) ==
    /\ used' = [p \in Period |-> IF p \in ended THEN 0 ELSE used[p]]
    /\ runs' = [r \in Run |-> [runs[r] EXCEPT !.in = @ \ ended]]
    /\ UNCHANGED <<switches, stateLock, watches, signal, queues,
                   coordinator, collector>>

DayEnds == Ends({"day"})
MonthEnds == Ends(Period)
-----------------------------------------------------------------------------
Coordinate(k) ==
    \/ ReadCohort(k) \/ Enrol(k)
    \/ LockState(k) \/ QueueDue(k) \/ RetryFailed(k)
    \/ SendJob(k) \/ MarkQueueFailed(k) \/ QueueingEnds(k)

Collect(c) ==
    \/ ReceiveJob(c) \/ PollFinds(c) \/ OfferChange(c)
    \/ SendResult(c) \/ AcknowledgeJob(c)

Administer ==
    \/ SetExecution
    \/ \E o \in Opportunity : Block(o) \/ Unblock(o) \/ Recompute(o)

TimePasses ==
    \/ \E w \in Watch : ComesDue(w)
    \/ \E r \in Run : GrowsOld(r)
    \/ DayEnds \/ MonthEnds

\* Every call succeeds, every message is taken.
Works ==
    \/ \E k \in Coordinator : Coordinate(k)
    \/ \E c \in Collector : Collect(c)
    \/ \E m \in results : TakeResult(m)
    \/ \E w \in Watch, o \in Outcome : Ingest(w, o) \/ Publish(w, o)
    \/ Administer
    \/ TimePasses

\* A call raises, a process ends, a message is lost or delivered again.
Fails ==
    \/ \E k \in Coordinator : SendJobFails(k) \/ CoordinatorStops(k)
    \/ \E c \in Collector : PollFails(c) \/ OfferFails(c) \/ CollectorStops(c)
    \/ \E m \in results : TakeResultAgain(m) \/ LoseResult(m)
    \/ \E r \in Run : LoseJob(r)
    \/ \E w \in Watch, o \in Outcome : LoseChange(w, o)

Next == Works \/ Fails

Spec == Init /\ [][Next]_vars

\* The schedule fires, Lambdas and queues run and time passes; failures, as
\* many as there may be, end.
Fairness ==
    /\ \A k \in Coordinator :
          /\ SF_vars(ReadCohort(k)) /\ SF_vars(LockState(k)) /\ SF_vars(QueueDue(k))
          /\ WF_vars(Enrol(k)) /\ WF_vars(SendJob(k))
          /\ WF_vars(MarkQueueFailed(k)) /\ WF_vars(QueueingEnds(k))
    /\ \A c \in Collector :
          /\ WF_vars(ReceiveJob(c)) /\ WF_vars(PollFinds(c)) /\ WF_vars(OfferChange(c))
          /\ WF_vars(SendResult(c)) /\ WF_vars(AcknowledgeJob(c))
    /\ WF_vars(\E m \in results : TakeResult(m))
    /\ WF_vars(\E w \in Watch, o \in Outcome : Ingest(w, o))
    /\ \A w \in Watch : WF_vars(ComesDue(w))
    /\ \A r \in Run : WF_vars(GrowsOld(r))
    /\ WF_vars(MonthEnds)
    /\ <>[][Works]_vars

FairSpec == Spec /\ Fairness
-----------------------------------------------------------------------------
TypeOK ==
    /\ executionEnabled \in BOOLEAN
    /\ stateLock \in Coordinator \cup {None}
    /\ watches \in [Watch -> WatchRow]
    /\ runs \in [Run -> RunRow]
    /\ used \in [Period -> Nat]
    /\ blocked \subseteq Opportunity /\ stopped \subseteq Opportunity
    /\ published \in [Watch -> Outcome] /\ evidence \in [Watch -> Outcome]
    /\ recorded \in [Watch -> SUBSET Outcome] /\ offered \in [Watch -> SUBSET Outcome]
    /\ changes \subseteq Watch \X Outcome
    /\ jobs \in [Run -> Job \cup {None}]
    /\ results \subseteq Result
    /\ coordinator \in [Coordinator -> Queueing] /\ collector \in [Collector -> Polling]

\* No two active runs poll the same watch: the partial unique index
\* planning_lifecycle_watch_runs_active_idx never refuses an insert.
OneActiveRun ==
    \A r, q \in Run :
        /\ runs[r].status = "QUEUED" /\ runs[q].status = "QUEUED"
        /\ WatchOf[r] = WatchOf[q]
        => r = q

\* However many coordinators queue at once, the runs that wait for a result
\* are never more than the day's or the month's quota.
ActiveWithinQuota == \A p \in Period : Cardinality({r \in Run : runs[r].status = "QUEUED"}) <= Limit[p]

\* The snapshot that later polls are compared with is one that ingestion was
\* offered: no provider change is taken for known without having been sent.
SnapshotWasOffered == \A w \in Watch : watches[w].snapshot \in offered[w]

\* "Persist one collector result exactly once": a run that has a result, or
\* was given up, keeps it, whatever late or repeated message arrives.  (A row
\* that becomes QUEUED again is a new run.)
ResultIsFinal ==
    [][\A r \in Run : runs[r].status \in Settled =>
          runs'[r].status \in {runs[r].status, "QUEUED"}]_vars

\* A run is only queued while execution is enabled, for an opportunity that
\* nobody has blocked, though an enrolment that read the opportunity before it
\* was blocked may have enabled its watch again.
QueuesOnlyWhenAllowed ==
    [][\A r \in Run : runs[r].status # "QUEUED" /\ runs'[r].status = "QUEUED" =>
          executionEnabled /\ Unblocked(WatchOf[r])]_vars

\* A run does not wait for ever, whatever is lost or crashes: it gets a result
\* or is swept, unless execution is disabled.
EveryRunSettles ==
    \A r \in Run :
        runs[r].status = "QUEUED" ~> (runs[r].status # "QUEUED" \/ ~executionEnabled)

\* What the provider publishes of an application is recorded by ingestion in
\* the end, though polls, sends and ingestions fail, unless execution is
\* disabled, the watch becomes ineligible or something else is published.
PublishedIsRecorded ==
    \A w \in Watch, o \in Outcome \ {First} :
        published[w] = o ~>
            (o \in recorded[w] \/ published[w] # o \/ ~Eligible(w) \/ ~executionEnabled)

\* ROADMAP.md: "guardrails are 50 watcher requests/day and 2,000/month".
RequestsWithinQuota == \A p \in Period : used[p] <= Limit[p]
=============================================================================
