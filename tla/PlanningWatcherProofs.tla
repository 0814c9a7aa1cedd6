------------------------- MODULE PlanningWatcherProofs -------------------------
(***************************************************************************)
(* For any watches, run rows, coordinators, collectors, outcomes and       *)
(* limits: what the planning watcher's tables promise, whatever overlaps,  *)
(* fails, is lost or is delivered again.                                   *)
(***************************************************************************)
EXTENDS PlanningWatcher, FiniteSetTheorems, TLAPS

Selecting(k) == coordinator[k].step = "selecting"

\* Who selects holds the state row, which keeps others from selecting and
\* execution enabled; what it swept still waits, since that is uncommitted;
\* and the other runs that wait leave room for its budget.
LockInv ==
    \A k \in Coordinator : Selecting(k) =>
        /\ stateLock = k
        /\ executionEnabled
        /\ coordinator[k].swept \subseteq ActiveRuns
        /\ \A p \in Period :
              coordinator[k].budget + Cardinality(ActiveRuns \ coordinator[k].swept) <= Limit[p]

QuotaInv == OneActiveRun /\ ActiveWithinQuota

Busy(c) == collector[c].step # "idle"

\* A message belongs to whoever has it: a run that is still to be sent has
\* none, and is to be sent by one coordinator once; a collector holds the
\* message of its run, alone; a message that nobody holds may be received.
MessagesInv ==
    /\ \A k \in Coordinator : \A i \in coordinator[k].items :
          /\ jobs[i.run] = None
          /\ \A j \in coordinator[k].items : i.run = j.run => i = j
          /\ \A h \in Coordinator : \A j \in coordinator[h].items : i.run = j.run => h = k
    /\ \A c \in Collector : Busy(c) =>
          /\ collector[c].run \in Run
          /\ jobs[collector[c].run] # None
          /\ jobs[collector[c].run].held
          /\ \A d \in Collector : Busy(d) /\ collector[d].run = collector[c].run => d = c
    /\ \A r \in Run : jobs[r] # None /\ ~jobs[r].held => jobs[r].receives < MaxReceive

Offered(w, o) == o \in offered[w]

\* Every snapshot under way was offered for its watch; the one a collector is
\* about to offer is the exception.
OfferedInv ==
    /\ \A w \in Watch : Offered(w, watches[w].snapshot) /\ Offered(w, evidence[w])
    /\ \A w \in Watch, o \in Outcome : <<w, o>> \in changes => Offered(w, o)
    /\ \A k \in Coordinator :
          /\ \A w \in Watch : coordinator[k].plan[w].do \in {"insert", "update"} =>
                Offered(w, coordinator[k].plan[w].snapshot)
          /\ \A i \in coordinator[k].items : Offered(WatchOf[i.run], i.snapshot)
    /\ \A r \in Run : jobs[r] # None => Offered(WatchOf[r], jobs[r].snapshot)
    /\ \A c \in Collector :
          /\ collector[c].step = "poll" => Offered(WatchOf[collector[c].run], collector[c].snapshot)
          /\ collector[c].step = "offer" => collector[c].snapshot # None
          /\ collector[c].step = "report" =>
                \/ collector[c].snapshot = None
                \/ Offered(WatchOf[collector[c].run], collector[c].snapshot)
    /\ \A m \in results : m.snapshot = None \/ Offered(WatchOf[m.run], m.snapshot)

IInv == TypeOK /\ LockInv /\ QuotaInv /\ MessagesInv /\ OfferedInv

\* What a step may do to the run rows: the two action properties, row by row.
RunsFine ==
    \A r \in Run :
        /\ runs[r].status \in Settled => runs'[r].status \in {runs[r].status, "QUEUED"}
        /\ runs[r].status # "QUEUED" /\ runs'[r].status = "QUEUED" =>
              executionEnabled /\ Unblocked(WatchOf[r])

Safe == IInv' /\ RunsFine
------------------------------------------------------------------------------
(* Frames: what a step keeps by leaving things alone. *)

LEMMA ActiveFinite ==
    ASSUME NEW S, S \subseteq Run
    PROVE  IsFiniteSet(S) /\ Cardinality(S) \in Nat
BY ConstantsAssumption, FS_Subset, FS_CardinalityType

\* Runs only settle, and none that a transaction has swept.
RunsQuiet ==
    \A r \in Run : \/ runs'[r].status = runs[r].status
                   \/ /\ runs[r].status = "QUEUED" /\ runs'[r].status \in Settled
                      /\ r \notin UncommittedSweep

\* Whoever still selects goes on under the same lock.
SelectionKept ==
    \A k \in Coordinator : Selecting(k)' =>
        /\ Selecting(k)
        /\ coordinator'[k].swept = coordinator[k].swept
        /\ coordinator'[k].budget = coordinator[k].budget
        /\ stateLock' = k
        /\ executionEnabled'

LEMMA QuietStep ==
    ASSUME IInv, RunsQuiet, SelectionKept
    PROVE  LockInv' /\ QuotaInv' /\ RunsFine
<1>1. ActiveRuns' \subseteq ActiveRuns /\ ActiveRuns \subseteq Run
  BY DEF RunsQuiet, ActiveRuns, Settled, Failures
<1>2. ASSUME NEW k \in Coordinator, Selecting(k)'
      PROVE  /\ stateLock' = k /\ executionEnabled'
             /\ coordinator'[k].swept \subseteq ActiveRuns'
             /\ \A p \in Period : coordinator'[k].budget
                    + Cardinality(ActiveRuns' \ coordinator'[k].swept) <= Limit[p]
  <2>1. /\ Selecting(k)
        /\ coordinator'[k].swept = coordinator[k].swept
        /\ coordinator'[k].budget = coordinator[k].budget
        /\ stateLock' = k /\ executionEnabled'
    BY <1>2 DEF SelectionKept
  <2>2. coordinator[k].swept \subseteq ActiveRuns
    BY <2>1 DEF IInv, LockInv
  <2>3. coordinator[k].swept \subseteq ActiveRuns'
    BY <2>2 DEF RunsQuiet, ActiveRuns, UncommittedSweep
  <2> DEFINE before == ActiveRuns \ coordinator[k].swept
             after == ActiveRuns' \ coordinator[k].swept
  <2>4. after \subseteq before /\ before \subseteq Run
    BY <1>1
  <2>5. Cardinality(after) <= Cardinality(before)
    BY <2>4, ActiveFinite, FS_Subset
  <2>6. \A p \in Period : coordinator[k].budget + Cardinality(before) <= Limit[p]
    BY <2>1 DEF IInv, LockInv
  <2>7. coordinator[k].budget \in Nat /\ \A p \in Period : Limit[p] \in Nat
    BY ConstantsAssumption DEF IInv, TypeOK, Queueing
  <2>8. Cardinality(after) \in Nat /\ Cardinality(before) \in Nat
    BY <2>4, ActiveFinite
  <2> HIDE DEF before, after
  <2>9. \A p \in Period : coordinator[k].budget + Cardinality(after) <= Limit[p]
    BY <2>5, <2>6, <2>7, <2>8
  <2> QED
    BY <2>1, <2>3, <2>9 DEF after
<1>3. LockInv'
  BY <1>2 DEF LockInv
<1>4. OneActiveRun'
  BY <1>1 DEF IInv, QuotaInv, OneActiveRun, ActiveRuns
<1>5. ActiveWithinQuota'
  <2>1. Cardinality(ActiveRuns') <= Cardinality(ActiveRuns)
    BY <1>1, ActiveFinite, FS_Subset
  <2>2. Cardinality(ActiveRuns') \in Nat /\ Cardinality(ActiveRuns) \in Nat
    BY <1>1, ActiveFinite
  <2>3. \A p \in Period : Cardinality(ActiveRuns) <= Limit[p]
    BY DEF IInv, QuotaInv, ActiveWithinQuota, ActiveRuns
  <2>4. \A p \in Period : Limit[p] \in Nat
    BY ConstantsAssumption
  <2>5. \A p \in Period : Cardinality(ActiveRuns') <= Limit[p]
    BY <2>1, <2>2, <2>3, <2>4
  <2> QED
    BY <2>5 DEF ActiveWithinQuota, ActiveRuns
<1>6. RunsFine
  BY DEF RunsQuiet, RunsFine, Settled, Failures
<1> QED
  BY <1>3, <1>4, <1>5, <1>6 DEF QuotaInv

LEMMA MessagesKept ==
    ASSUME MessagesInv, jobs' = jobs,
           \A k \in Coordinator : coordinator'[k].items \subseteq coordinator[k].items,
           \A c \in Collector : /\ Busy(c)' <=> Busy(c)
                               /\ collector'[c].run = collector[c].run
    PROVE  MessagesInv'
<1>1. ASSUME NEW k \in Coordinator, NEW i \in coordinator'[k].items
      PROVE  /\ jobs'[i.run] = None
             /\ \A j \in coordinator'[k].items : i.run = j.run => i = j
             /\ \A h \in Coordinator : \A j \in coordinator'[h].items : i.run = j.run => h = k
  BY DEF MessagesInv
<1>2. ASSUME NEW c \in Collector, Busy(c)'
      PROVE  /\ collector'[c].run \in Run
             /\ jobs'[collector'[c].run] # None
             /\ jobs'[collector'[c].run].held
             /\ \A d \in Collector : Busy(d)' /\ collector'[d].run = collector'[c].run => d = c
  BY <1>2 DEF MessagesInv
<1>3. \A r \in Run : jobs'[r] # None /\ ~jobs'[r].held => jobs'[r].receives < MaxReceive
  BY DEF MessagesInv
<1> QED
  BY <1>1, <1>2, <1>3 DEF MessagesInv

\* Signals, queues and collectors untouched, and no new snapshot in a local.
LEMMA OfferedKept ==
    ASSUME OfferedInv, signal' = signal, queues' = queues, collector' = collector,
           \A w \in Watch : watches'[w].snapshot = watches[w].snapshot,
           \A k \in Coordinator :
              /\ coordinator'[k].items \subseteq coordinator[k].items
              /\ \A w \in Watch : \/ coordinator'[k].plan[w] = coordinator[k].plan[w]
                                 \/ coordinator'[k].plan[w].do \in {"leave", "disable"}
                                 \/ coordinator'[k].plan[w].snapshot \in offered[w]
    PROVE  OfferedInv'
BY DEF OfferedInv, Offered, signal, queues

\* A step of a switch, an administrator or the clock.
LEMMA OutsideStep ==
    ASSUME IInv, TypeOK', RunsQuiet, signal' = signal, queues' = queues,
           collector' = collector, coordinator' = coordinator, stateLock' = stateLock,
           stateLock # None => executionEnabled' = executionEnabled,
           \A w \in Watch : watches'[w].snapshot = watches[w].snapshot
    PROVE  Safe
<1>1. SelectionKept
  <2> SUFFICES ASSUME NEW k \in Coordinator, Selecting(k)
               PROVE  stateLock = k /\ executionEnabled'
    BY DEF SelectionKept, Selecting
  <2>1. stateLock = k /\ executionEnabled
    BY DEF IInv, LockInv
  <2>2. stateLock # None
    BY <2>1, ConstantsAssumption
  <2> QED
    BY <2>1, <2>2
<1>2. MessagesInv'
  BY MessagesKept DEF IInv, queues, Busy
<1>3. OfferedInv'
  BY OfferedKept DEF IInv
<1> QED
  BY <1>1, <1>2, <1>3, QuietStep DEF IInv, Safe
------------------------------------------------------------------------------
(* Administrators, the clock and ingestion *)

LEMMA SetExecutionSafe ==
    ASSUME IInv, SetExecution
    PROVE  Safe
<1>1. TypeOK'
  BY DEF IInv, TypeOK, SetExecution, tables, signal, queues
<1>2. RunsQuiet
  BY DEF RunsQuiet, SetExecution, tables
<1> QED
  BY <1>1, <1>2, OutsideStep DEF SetExecution, StateFree, tables

\* A row with one field changed.
LEMMA WatchRowChanges ==
    ASSUME NEW row \in WatchRow
    PROVE  /\ [row EXCEPT !.enabled = FALSE] \in WatchRow
           /\ [row EXCEPT !.enabled = FALSE].snapshot = row.snapshot
           /\ [row EXCEPT !.due = TRUE] \in WatchRow
           /\ [row EXCEPT !.due = TRUE].snapshot = row.snapshot
BY DEF WatchRow

LEMMA RunRowChanges ==
    ASSUME NEW row \in RunRow, NEW ended
    PROVE  /\ [row EXCEPT !.old = TRUE] \in RunRow
           /\ [row EXCEPT !.old = TRUE].status = row.status
           /\ [row EXCEPT !.in = @ \ ended] \in RunRow
           /\ [row EXCEPT !.in = @ \ ended].status = row.status
BY DEF RunRow

LEMMA DisableKeeps ==
    ASSUME TypeOK, NEW o \in Opportunity
    PROVE  /\ Disable(o) \in [Watch -> WatchRow]
           /\ \A w \in Watch : Disable(o)[w].snapshot = watches[w].snapshot
BY WatchRowChanges DEF TypeOK, Disable

LEMMA BlockSafe ==
    ASSUME IInv, NEW o \in Opportunity, Block(o) \/ Unblock(o)
    PROVE  Safe
<1>1. watches' \in [Watch -> WatchRow]
      /\ \A w \in Watch : watches'[w].snapshot = watches[w].snapshot
  BY DisableKeeps DEF IInv, TypeOK, Block, Unblock, tables
<1>2. TypeOK'
  BY <1>1 DEF IInv, TypeOK, Block, Unblock, tables, signal, queues
<1>3. RunsQuiet
  BY DEF RunsQuiet, Block, Unblock, tables
<1> QED
  BY <1>1, <1>2, <1>3, OutsideStep DEF Block, Unblock

LEMMA RecomputeSafe ==
    ASSUME IInv, NEW o \in Opportunity, Recompute(o)
    PROVE  Safe
<1>1. watches' \in [Watch -> WatchRow]
      /\ \A w \in Watch : watches'[w].snapshot = watches[w].snapshot
  BY DisableKeeps DEF IInv, TypeOK, Recompute
<1>2. TypeOK'
  BY <1>1 DEF IInv, TypeOK, Recompute, signal, queues
<1>3. RunsQuiet
  BY DEF RunsQuiet, Recompute
<1> QED
  BY <1>1, <1>2, <1>3, OutsideStep DEF Recompute

LEMMA ComesDueSafe ==
    ASSUME IInv, NEW w \in Watch, ComesDue(w)
    PROVE  Safe
<1>1. watches' \in [Watch -> WatchRow]
      /\ \A v \in Watch : watches'[v].snapshot = watches[v].snapshot
  <2>1. /\ watches \in [Watch -> WatchRow]
        /\ watches' = [watches EXCEPT ![w] = [watches[w] EXCEPT !.due = TRUE]]
    BY DEF IInv, TypeOK, ComesDue
  <2> QED
    BY <2>1, WatchRowChanges
<1>2. TypeOK'
  BY <1>1 DEF IInv, TypeOK, ComesDue, switches, signal, queues
<1>3. RunsQuiet
  BY DEF RunsQuiet, ComesDue
<1> QED
  BY <1>1, <1>2, <1>3, OutsideStep DEF ComesDue, switches

LEMMA GrowsOldSafe ==
    ASSUME IInv, NEW r \in Run, GrowsOld(r)
    PROVE  Safe
<1>1. runs' \in [Run -> RunRow] /\ \A q \in Run : runs'[q].status = runs[q].status
  <2>1. /\ runs \in [Run -> RunRow]
        /\ runs' = [runs EXCEPT ![r] = [runs[r] EXCEPT !.old = TRUE]]
    BY DEF IInv, TypeOK, GrowsOld
  <2> QED
    BY <2>1, RunRowChanges
<1>2. TypeOK'
  BY <1>1 DEF IInv, TypeOK, GrowsOld, switches, signal, queues
<1>3. RunsQuiet
  BY <1>1 DEF RunsQuiet
<1> QED
  BY <1>2, <1>3, OutsideStep DEF GrowsOld, switches

LEMMA EndsSafe ==
    ASSUME IInv, DayEnds \/ MonthEnds
    PROVE  Safe
<1>1. PICK ended \in SUBSET {"day", "month"} : Ends(ended)
  BY ConstantsAssumption DEF DayEnds, MonthEnds
<1>2. runs' \in [Run -> RunRow] /\ \A q \in Run : runs'[q].status = runs[q].status
  <2>1. /\ runs \in [Run -> RunRow]
        /\ runs' = [q \in Run |-> [runs[q] EXCEPT !.in = @ \ ended]]
    BY <1>1 DEF IInv, TypeOK, Ends
  <2> QED
    BY <2>1, RunRowChanges
<1>3. used' \in [Period -> Nat]
  BY <1>1 DEF IInv, TypeOK, Ends
<1>4. TypeOK'
  BY <1>1, <1>2, <1>3 DEF IInv, TypeOK, Ends, switches, signal, queues
<1>5. RunsQuiet
  BY <1>2 DEF RunsQuiet
<1> QED
  BY <1>1, <1>4, <1>5, OutsideStep DEF Ends, switches

\* A step of the signals or the queues, which no run row sees.
LEMMA QueueStep ==
    ASSUME IInv, TypeOK', MessagesInv', OfferedInv', runs' = runs,
           coordinator' = coordinator, stateLock' = stateLock,
           executionEnabled' = executionEnabled
    PROVE  Safe
<1>1. SelectionKept
  BY DEF IInv, LockInv, SelectionKept, Selecting
<1>2. RunsQuiet
  BY DEF RunsQuiet
<1> QED
  BY <1>1, <1>2, QuietStep DEF IInv, Safe

LEMMA PublishSafe ==
    ASSUME IInv, NEW w \in Watch, NEW o \in Outcome, Publish(w, o)
    PROVE  Safe
<1>1. TypeOK'
  BY DEF IInv, TypeOK, Publish, switches, tables, queues
<1>2. MessagesInv'
  BY MessagesKept DEF IInv, Publish, queues, Busy
<1>3. OfferedInv'
  BY DEF IInv, OfferedInv, Offered, Publish, tables, queues
<1> QED
  BY <1>1, <1>2, <1>3, QueueStep DEF Publish, tables, switches

LEMMA IngestSafe ==
    ASSUME IInv, NEW w \in Watch, NEW o \in Outcome, Ingest(w, o) \/ LoseChange(w, o)
    PROVE  Safe
<1>1. TypeOK'
  <2>1. changes' \subseteq Watch \X Outcome
    BY DEF IInv, TypeOK, Ingest, LoseChange
  <2>2. evidence' \in [Watch -> Outcome] /\ published' \in [Watch -> Outcome]
    BY DEF IInv, TypeOK, Ingest, LoseChange, signal
  <2>3. recorded' \in [Watch -> SUBSET Outcome]
    <3>1. \/ recorded' = recorded
          \/ recorded' = [recorded EXCEPT ![w] = recorded[w] \cup {o}]
      BY DEF Ingest, LoseChange, signal
    <3>2. recorded \in [Watch -> SUBSET Outcome]
      BY DEF IInv, TypeOK
    <3> QED
      BY <3>1, <3>2
  <2> QED
    BY <2>1, <2>2, <2>3 DEF IInv, TypeOK, Ingest, LoseChange, switches, tables, signal
<1>2. MessagesInv'
  BY MessagesKept DEF IInv, Ingest, LoseChange, Busy
<1>3. OfferedInv'
  BY DEF IInv, TypeOK, OfferedInv, Offered, Ingest, LoseChange, tables, signal
<1> QED
  BY <1>1, <1>2, <1>3, QueueStep DEF Ingest, LoseChange, tables, switches

LEMMA LoseResultSafe ==
    ASSUME IInv, NEW m, LoseResult(m)
    PROVE  Safe
<1>1. TypeOK'
  BY DEF IInv, TypeOK, LoseResult, switches, tables, signal
<1>2. MessagesInv'
  BY MessagesKept DEF IInv, LoseResult, Busy
<1>3. OfferedInv'
  BY DEF IInv, OfferedInv, Offered, LoseResult, tables, signal
<1> QED
  BY <1>1, <1>2, <1>3, QueueStep DEF LoseResult, tables, switches

LEMMA LoseJobSafe ==
    ASSUME IInv, NEW r \in Run, LoseJob(r)
    PROVE  Safe
<1>1. TypeOK'
  BY DEF IInv, TypeOK, LoseJob, switches, tables, signal
<1>2. MessagesInv'
  BY DEF IInv, TypeOK, MessagesInv, LoseJob, Busy
<1>3. OfferedInv'
  BY DEF IInv, TypeOK, OfferedInv, Offered, LoseJob, tables, signal
<1> QED
  BY <1>1, <1>2, <1>3, QueueStep DEF LoseJob, tables, switches
------------------------------------------------------------------------------
(* Results *)

LEMMA CheckedTyped ==
    ASSUME TypeOK, NEW w \in Watch, NEW m \in results
    PROVE  /\ Checked(w, m) \in WatchRow
           /\ Checked(w, m).snapshot =
                 IF m.snapshot = None THEN watches[w].snapshot ELSE m.snapshot
<1>1. watches[w] \in WatchRow /\ m.snapshot \in Outcome \cup {None}
  BY DEF TypeOK, Result
<1> DEFINE next == IF m.snapshot = None THEN watches[w].snapshot ELSE m.snapshot
           on == watches[w].enabled /\ m.snapshot \notin Decided
<1>2. next \in Outcome /\ on \in BOOLEAN /\ watches[w].enrolled \in BOOLEAN
  BY <1>1 DEF WatchRow
<1>3. Checked(w, m) = [enrolled |-> watches[w].enrolled, enabled |-> on, due |-> FALSE,
                       snapshot |-> next]
  BY DEF Checked
<1> HIDE DEF next, on
<1>4. Checked(w, m) \in WatchRow /\ Checked(w, m).snapshot = next
  BY <1>2, <1>3 DEF WatchRow
<1> QED
  BY <1>4 DEF next

LEMMA RecordResultSafe ==
    ASSUME IInv, NEW m \in results, TakeResult(m) \/ TakeResultAgain(m)
    PROVE  Safe
<1> DEFINE w == WatchOf[m.run]
<1>1. /\ RecordResult(m) /\ results' \subseteq results
      /\ m \in Result /\ m.run \in Run /\ w \in Watch
  BY ConstantsAssumption DEF IInv, TypeOK, TakeResult, TakeResultAgain, Result
<1>2. CASE ~AwaitsResult(m.run)
  <2>1. tables' = tables
    BY <1>1, <1>2 DEF RecordResult, tables
  <2>2. TypeOK'
    BY <1>1, <2>1 DEF IInv, TypeOK, RecordResult, switches, tables, signal
  <2>3. MessagesInv'
    BY <1>1, MessagesKept DEF IInv, RecordResult, Busy
  <2>4. OfferedInv'
    BY <1>1, <2>1 DEF IInv, OfferedInv, Offered, RecordResult, tables, signal
  <2> QED
    BY <1>1, <2>1, <2>2, <2>3, <2>4, QueueStep DEF RecordResult, tables, switches
<1>3. CASE AwaitsResult(m.run)
  <2>1. /\ runs' = [runs EXCEPT ![m.run] = SettledAs(m.status)]
        /\ watches' = [watches EXCEPT ![w] = Checked(w, m)]
        /\ used' = Charge(m.run, m.requests)
        /\ m.run \notin UncommittedSweep
    BY <1>1, <1>3 DEF RecordResult
  <2>2. runs' \in [Run -> RunRow] /\ SettledAs(m.status).status \in Settled
    <3>1. m.status \in Settled
      BY <1>1 DEF Result, Settled, Failures
    <3>2. SettledAs(m.status) \in RunRow /\ SettledAs(m.status).status = m.status
      BY <3>1 DEF SettledAs, RunRow
    <3> QED
      BY <2>1, <3>1, <3>2 DEF IInv, TypeOK
  <2>3. watches' \in [Watch -> WatchRow]
    BY <1>1, <2>1, CheckedTyped DEF IInv, TypeOK
  <2>4. used' \in [Period -> Nat]
    BY <1>1, <2>1, ConstantsAssumption DEF IInv, TypeOK, Charge, Result
  <2>5. TypeOK'
    BY <1>1, <2>2, <2>3, <2>4 DEF IInv, TypeOK, RecordResult, switches, signal
  <2>6. MessagesInv'
    BY <1>1, MessagesKept DEF IInv, RecordResult, Busy
  <2>7. \A v \in Watch : watches'[v].snapshot \in offered[v]
    <3>1. watches'[w].snapshot \in offered[w]
      <4>1. watches'[w].snapshot = IF m.snapshot = None THEN watches[w].snapshot ELSE m.snapshot
        BY <1>1, <2>1, CheckedTyped DEF IInv, TypeOK
      <4> QED
        BY <1>1, <4>1 DEF IInv, OfferedInv, Offered
    <3>2. \A v \in Watch : v # w => watches'[v] = watches[v]
      BY <2>1 DEF IInv, TypeOK
    <3> QED
      BY <3>1, <3>2 DEF IInv, OfferedInv, Offered
  <2>8. OfferedInv'
    BY <1>1, <2>7 DEF IInv, OfferedInv, Offered, RecordResult, signal
  <2>9. RunsQuiet
    BY <1>1, <1>3, <2>1, <2>2 DEF IInv, TypeOK, RunsQuiet, AwaitsResult
  <2>10. SelectionKept
    BY <1>1 DEF IInv, LockInv, SelectionKept, Selecting, RecordResult, switches
  <2> QED
    BY <2>5, <2>6, <2>8, <2>9, <2>10, QuietStep DEF IInv, Safe
<1> QED
  BY <1>2, <1>3
------------------------------------------------------------------------------
(* Collectors *)

\* A collector that goes on with its run, and leaves the messages alone.
LEMMA CollectorGoesOn ==
    ASSUME IInv, NEW c \in Collector, Busy(c), NEW v \in Polling,
           v.step # "idle", v.run = collector[c].run,
           collector' = [collector EXCEPT ![c] = v], jobs' = jobs, coordinator' = coordinator
    PROVE  MessagesInv' /\ collector' \in [Collector -> Polling]
<1>1. collector \in [Collector -> Polling]
  BY DEF IInv, TypeOK
<1>2. \A d \in Collector : collector'[d] = IF d = c THEN v ELSE collector[d]
  BY <1>1
<1>3. MessagesInv'
  BY <1>2, MessagesKept DEF IInv, Busy
<1> QED
  BY <1>1, <1>3

LEMMA BusyRun ==
    ASSUME IInv, NEW c \in Collector, Busy(c)
    PROVE  /\ collector[c].run \in Run /\ WatchOf[collector[c].run] \in Watch
           /\ jobs[collector[c].run] \in Job
           /\ collector[c] \in Polling
BY ConstantsAssumption DEF IInv, TypeOK, MessagesInv

LEMMA IdleTyped == CollectorIdle \in Polling /\ CollectorIdle.step = "idle"
BY ConstantsAssumption DEF CollectorIdle, Polling

\* What PollFinds, PollFails, OfferChange and OfferFails make of a collector.
LEMMA GoOnChanges ==
    ASSUME IInv, NEW c \in Collector, Busy(c), NEW step \in {"offer", "report"},
           NEW status \in {"UNCHANGED", "CHANGED", "FAILED"},
           NEW n \in 0..MaxRequests, NEW o \in Outcome \cup {None},
           GoOn(c, step, status, n, o), jobs' = jobs, coordinator' = coordinator
    PROVE  /\ MessagesInv'
           /\ collector' \in [Collector -> Polling]
           /\ collector'[c].step = step /\ collector'[c].snapshot = o
           /\ collector'[c].run = collector[c].run
           /\ \A d \in Collector : d # c => collector'[d] = collector[d]
<1> DEFINE v == [step |-> step, run |-> collector[c].run, snapshot |-> o,
                 status |-> status, requests |-> n]
<1>1. /\ v \in Polling /\ v.step = step /\ v.step # "idle" /\ v.run = collector[c].run
      /\ v.snapshot = o
  BY BusyRun DEF Polling
<1>2. collector' = [collector EXCEPT ![c] = v]
  BY DEF GoOn
<1> HIDE DEF v
<1>3. MessagesInv' /\ collector' \in [Collector -> Polling]
  BY <1>1, <1>2, CollectorGoesOn
<1> QED
  BY <1>1, <1>2, <1>3 DEF IInv, TypeOK

LEMMA PollFindsSafe ==
    ASSUME IInv, NEW c \in Collector, PollFinds(c)
    PROVE  Safe
<1> DEFINE shown == published[WatchOf[collector[c].run]]
<1>1. Busy(c) /\ collector[c].step = "poll"
  BY DEF PollFinds, Busy
<1>2. shown \in Outcome /\ shown # None /\ \A n \in 1..MaxRequests : n \in 0..MaxRequests
  BY <1>1, BusyRun, ConstantsAssumption DEF IInv, TypeOK
<1>3. PICK n \in 1..MaxRequests :
        IF shown = collector[c].snapshot THEN GoOn(c, "report", "UNCHANGED", n, shown)
                                         ELSE GoOn(c, "offer", "FAILED", n, shown)
  BY DEF PollFinds, Report
<1>4. shown = collector[c].snapshot => Offered(WatchOf[collector[c].run], shown)
  BY <1>1 DEF IInv, OfferedInv
<1> HIDE DEF shown
<1>5. jobs' = jobs /\ coordinator' = coordinator /\ offered' = offered
  BY DEF PollFinds, queues
<1>6. PICK step \in {"offer", "report"} :
        /\ MessagesInv' /\ collector' \in [Collector -> Polling]
        /\ step = "report" => shown = collector[c].snapshot
        /\ collector'[c].step = step /\ collector'[c].snapshot = shown
        /\ collector'[c].run = collector[c].run
        /\ \A d \in Collector : d # c => collector'[d] = collector[d]
  BY <1>1, <1>2, <1>3, <1>5, GoOnChanges
<1>7. TypeOK'
  BY <1>6 DEF IInv, TypeOK, PollFinds, switches, tables, signal, queues
<1>8. OfferedInv'
  BY <1>2, <1>4, <1>6 DEF IInv, OfferedInv, Offered, PollFinds, tables, signal, queues
<1> QED
  BY <1>6, <1>7, <1>8, QueueStep DEF PollFinds, tables, switches

LEMMA PollFailsSafe ==
    ASSUME IInv, NEW c \in Collector, PollFails(c)
    PROVE  Safe
<1>1. Busy(c)
  BY DEF PollFails, Busy
<1>2. PICK n \in 0..MaxRequests : GoOn(c, "report", "FAILED", n, None)
  BY DEF PollFails, Report
<1>3. jobs' = jobs /\ coordinator' = coordinator /\ offered' = offered
  BY DEF PollFails, queues
<1>4. /\ MessagesInv' /\ collector' \in [Collector -> Polling]
      /\ collector'[c].step = "report" /\ collector'[c].snapshot = None
      /\ \A d \in Collector : d # c => collector'[d] = collector[d]
  BY <1>1, <1>2, <1>3, GoOnChanges
<1>5. TypeOK'
  BY <1>4 DEF IInv, TypeOK, PollFails, switches, tables, signal, queues
<1>6. OfferedInv'
  BY <1>4 DEF IInv, OfferedInv, Offered, PollFails, tables, signal, queues
<1> QED
  BY <1>4, <1>5, <1>6, QueueStep DEF PollFails, tables, switches

LEMMA OfferSafe ==
    ASSUME IInv, NEW c \in Collector, OfferChange(c) \/ OfferFails(c)
    PROVE  Safe
<1> DEFINE w == WatchOf[collector[c].run]
           o == collector[c].snapshot
<1>1. /\ Busy(c) /\ w \in Watch /\ o \in Outcome
      /\ collector[c].requests \in 0..MaxRequests
  <2>1. Busy(c) /\ collector[c].step = "offer"
    BY DEF OfferChange, OfferFails, Busy
  <2> QED
    BY <2>1, BusyRun DEF Polling, IInv, OfferedInv
<1>2. Offer(w, o) \/ (UNCHANGED <<changes, offered>> /\ ~OfferChange(c))
  BY DEF OfferChange, OfferFails
<1>3. /\ changes' \subseteq Watch \X Outcome
      /\ offered' \in [Watch -> SUBSET Outcome]
      /\ \A v \in Watch : offered[v] \subseteq offered'[v]
      /\ \A v \in Watch, p \in Outcome : <<v, p>> \in changes' => p \in offered'[v]
      /\ OfferChange(c) => o \in offered'[w]
  <2>1. /\ changes \subseteq Watch \X Outcome /\ offered \in [Watch -> SUBSET Outcome]
        /\ \A v \in Watch, p \in Outcome : <<v, p>> \in changes => p \in offered[v]
    BY DEF IInv, TypeOK, OfferedInv, Offered
  <2>2. CASE UNCHANGED <<changes, offered>> /\ ~OfferChange(c)
    BY <2>1, <2>2
  <2>3. CASE Offer(w, o)
    <3>1. /\ changes' = changes \cup {<<w, o>>}
          /\ offered' = [offered EXCEPT ![w] = offered[w] \cup {o}]
      BY <2>3 DEF Offer
    <3> HIDE DEF w, o
    <3> QED
      BY <1>1, <2>1, <3>1
  <2> QED
    BY <1>2, <2>2, <2>3
<1>4. jobs' = jobs /\ coordinator' = coordinator
  BY DEF OfferChange, OfferFails
<1>5. \/ GoOn(c, "report", "CHANGED", collector[c].requests, o) /\ OfferChange(c)
      \/ GoOn(c, "report", "FAILED", collector[c].requests, None)
  BY DEF OfferChange, OfferFails, Report
<1> HIDE DEF o
<1>6. /\ MessagesInv' /\ collector' \in [Collector -> Polling]
      /\ collector'[c].step = "report" /\ collector'[c].run = collector[c].run
      /\ collector'[c].snapshot = None \/ (collector'[c].snapshot = o /\ OfferChange(c))
      /\ \A d \in Collector : d # c => collector'[d] = collector[d]
  BY <1>1, <1>4, <1>5, GoOnChanges
<1>7. /\ executionEnabled' = executionEnabled /\ blocked' = blocked /\ stopped' = stopped
      /\ stateLock' = stateLock /\ watches' = watches /\ runs' = runs /\ used' = used
      /\ published' = published /\ evidence' = evidence /\ recorded' = recorded
      /\ results' = results
  BY DEF OfferChange, OfferFails, switches, tables, signal
<1>8. TypeOK'
  BY <1>3, <1>4, <1>6, <1>7 DEF IInv, TypeOK
<1>9. OfferedInv'
  <2>1. \A v \in Watch : offered[v] \subseteq offered'[v]
    BY <1>3
  <2>2. \A v \in Watch : watches'[v].snapshot \in offered'[v] /\ evidence'[v] \in offered'[v]
    BY <1>7, <2>1 DEF IInv, OfferedInv, Offered
  <2>3. \A k \in Coordinator :
          /\ \A v \in Watch : coordinator'[k].plan[v].do \in {"insert", "update"} =>
                coordinator'[k].plan[v].snapshot \in offered'[v]
          /\ \A i \in coordinator'[k].items : i.snapshot \in offered'[WatchOf[i.run]]
    BY <1>4, <2>1, ConstantsAssumption DEF IInv, TypeOK, Queueing, Item, OfferedInv, Offered
  <2>4. \A r \in Run : jobs'[r] # None => jobs'[r].snapshot \in offered'[WatchOf[r]]
    BY <1>4, <2>1, ConstantsAssumption DEF IInv, OfferedInv, Offered
  <2>5. \A m \in results' : m.snapshot = None \/ m.snapshot \in offered'[WatchOf[m.run]]
    BY <1>7, <2>1, ConstantsAssumption DEF IInv, TypeOK, Result, OfferedInv, Offered
  <2>6. ASSUME NEW d \in Collector
        PROVE  /\ collector'[d].step = "poll" =>
                     collector'[d].snapshot \in offered'[WatchOf[collector'[d].run]]
               /\ collector'[d].step = "offer" => collector'[d].snapshot # None
               /\ collector'[d].step = "report" =>
                     \/ collector'[d].snapshot = None
                     \/ collector'[d].snapshot \in offered'[WatchOf[collector'[d].run]]
    <3>1. CASE d = c
      BY <1>3, <1>6, <3>1
    <3>2. CASE d # c
      <4>1. Busy(d) => WatchOf[collector[d].run] \in Watch
        BY BusyRun
      <4>2. collector'[d] = collector[d]
        BY <1>6, <3>2
      <4> QED
        BY <2>1, <4>1, <4>2 DEF Busy, IInv, OfferedInv, Offered
    <3> QED
      BY <3>1, <3>2
  <2> QED
    BY <1>3, <2>2, <2>3, <2>4, <2>5, <2>6 DEF OfferedInv, Offered
<1> QED
  BY <1>4, <1>6, <1>7, <1>8, <1>9, QueueStep

LEMMA ReceiveJobSafe ==
    ASSUME IInv, NEW c \in Collector, ReceiveJob(c)
    PROVE  Safe
<1>1. PICK r \in Run :
        /\ jobs[r] # None /\ ~jobs[r].held
        /\ jobs' = [jobs EXCEPT ![r] =
              [snapshot |-> jobs[r].snapshot, receives |-> jobs[r].receives + 1, held |-> TRUE]]
        /\ collector' = [collector EXCEPT ![c] =
              [CollectorIdle EXCEPT !.step = "poll", !.run = r, !.snapshot = jobs[r].snapshot]]
  BY DEF ReceiveJob
<1> DEFINE j == [snapshot |-> jobs[r].snapshot, receives |-> jobs[r].receives + 1, held |-> TRUE]
           v == [CollectorIdle EXCEPT !.step = "poll", !.run = r, !.snapshot = jobs[r].snapshot]
<1>2. jobs[r] \in Job /\ jobs[r].receives < MaxReceive
  BY <1>1 DEF IInv, TypeOK, MessagesInv
<1>3. /\ j \in Job /\ j.held = TRUE /\ j.snapshot = jobs[r].snapshot
  BY <1>2, ConstantsAssumption DEF Job
<1>4. v \in Polling /\ v.step = "poll" /\ v.run = r /\ v.snapshot = jobs[r].snapshot
  <2>1. jobs[r].snapshot \in Outcome
    BY <1>2 DEF Job
  <2> QED
    BY <2>1, IdleTyped DEF Polling
<1>5. jobs' = [jobs EXCEPT ![r] = j] /\ collector' = [collector EXCEPT ![c] = v]
  BY <1>1
<1>6. j # None
  BY <1>3, MessagesAssumption
<1> HIDE DEF j, v
<1>7. /\ jobs' \in [Run -> Job \cup {None}] /\ jobs'[r] = j
      /\ \A q \in Run : q # r => jobs'[q] = jobs[q]
      /\ collector' \in [Collector -> Polling] /\ collector'[c] = v
      /\ \A d \in Collector : d # c => collector'[d] = collector[d]
  BY <1>3, <1>4, <1>5 DEF IInv, TypeOK
<1>8. TypeOK'
  BY <1>7 DEF IInv, TypeOK, ReceiveJob, switches, tables, signal
<1>9. MessagesInv'
  <2>1. \A d \in Collector : Busy(d) => collector[d].run # r
    BY <1>1 DEF IInv, MessagesInv
  <2>2. \A k \in Coordinator : \A i \in coordinator[k].items : i.run # r
    BY <1>1 DEF IInv, MessagesInv
  <2>3. coordinator' = coordinator
    BY DEF ReceiveJob
  <2> QED
    <3>1. ASSUME NEW k \in Coordinator, NEW i \in coordinator'[k].items
          PROVE  /\ jobs'[i.run] = None
                 /\ \A l \in coordinator'[k].items : i.run = l.run => i = l
                 /\ \A h \in Coordinator : \A l \in coordinator'[h].items :
                       i.run = l.run => h = k
      BY <1>7, <2>2, <2>3 DEF IInv, TypeOK, Queueing, Item, MessagesInv
    <3>2. ASSUME NEW d \in Collector, Busy(d)'
          PROVE  /\ collector'[d].run \in Run
                 /\ jobs'[collector'[d].run] # None
                 /\ jobs'[collector'[d].run].held
                 /\ \A b \in Collector :
                       Busy(b)' /\ collector'[b].run = collector'[d].run => b = d
      BY <1>3, <1>4, <1>6, <1>7, <2>1, <3>2 DEF IInv, MessagesInv, Busy
    <3>3. \A q \in Run : jobs'[q] # None /\ ~jobs'[q].held => jobs'[q].receives < MaxReceive
      BY <1>3, <1>7 DEF IInv, MessagesInv
    <3> QED
      BY <3>1, <3>2, <3>3 DEF MessagesInv
<1>10. OfferedInv'
  <2>1. Offered(WatchOf[r], jobs[r].snapshot)
    BY <1>1 DEF IInv, OfferedInv
  <2> QED
    BY <1>3, <1>4, <1>7, <2>1 DEF IInv, OfferedInv, Offered, ReceiveJob, tables, signal
<1> QED
  BY <1>8, <1>9, <1>10, QueueStep DEF ReceiveJob, tables, switches

LEMMA SendResultSafe ==
    ASSUME IInv, NEW c \in Collector, SendResult(c)
    PROVE  Safe
<1> DEFINE me == collector[c]
           m == [run |-> me.run, status |-> me.status, requests |-> me.requests,
                 snapshot |-> me.snapshot]
           v == [CollectorIdle EXCEPT !.step = "acknowledge", !.run = me.run]
<1>1. Busy(c) /\ me.step = "report"
  BY DEF SendResult, Busy
<1>2. me \in Polling /\ me.run \in Run
  BY <1>1, BusyRun
<1>3. m \in Result /\ m.run = me.run /\ m.snapshot = me.snapshot
  BY <1>2 DEF Polling, Result
<1>4. v \in Polling /\ v.step = "acknowledge" /\ v.run = me.run
  BY <1>2, IdleTyped DEF Polling
<1>5. /\ results' = results \cup {m} /\ collector' = [collector EXCEPT ![c] = v]
      /\ jobs' = jobs /\ coordinator' = coordinator
  BY DEF SendResult
<1> HIDE DEF m, v
<1>6. MessagesInv' /\ collector' \in [Collector -> Polling]
  BY <1>1, <1>4, <1>5, CollectorGoesOn
<1>7. TypeOK'
  BY <1>3, <1>5, <1>6 DEF IInv, TypeOK, SendResult, switches, tables, signal
<1>8. OfferedInv'
  <2>1. \A d \in Collector : collector'[d] = IF d = c THEN v ELSE collector[d]
    BY <1>5 DEF IInv, TypeOK
  <2>2. me.snapshot = None \/ Offered(WatchOf[me.run], me.snapshot)
    BY <1>1 DEF IInv, OfferedInv
  <2> QED
    BY <1>3, <1>4, <1>5, <2>1, <2>2
       DEF IInv, OfferedInv, Offered, SendResult, tables, signal
<1> QED
  BY <1>5, <1>6, <1>7, <1>8, QueueStep DEF SendResult, tables, switches

\* A collector lets go of its message, which is deleted or may be received
\* once more.
LEMMA CollectorEnds ==
    ASSUME IInv, NEW c \in Collector, AcknowledgeJob(c) \/ CollectorStops(c)
    PROVE  Safe
<1> DEFINE r == collector[c].run
<1>1. Busy(c)
  BY DEF AcknowledgeJob, CollectorStops, Busy
<1>2. r \in Run /\ jobs[r] \in Job /\ jobs[r] # None
  BY <1>1, BusyRun DEF IInv, MessagesInv
<1>3. PICK j \in Job \cup {None} :
        /\ jobs' = [jobs EXCEPT ![r] = j]
        /\ j # None => /\ ~j.held /\ j.snapshot = jobs[r].snapshot
                       /\ j.receives < MaxReceive
  <2>1. CASE jobs' = [jobs EXCEPT ![r] = None]
    BY <2>1
  <2>2. CASE jobs' = [jobs EXCEPT ![r] = [jobs[r] EXCEPT !.held = FALSE]]
             /\ jobs[r].receives < MaxReceive
    <3> DEFINE j == [jobs[r] EXCEPT !.held = FALSE]
    <3>1. j \in Job /\ j.held = FALSE /\ j.snapshot = jobs[r].snapshot
          /\ j.receives = jobs[r].receives
      BY <1>2 DEF Job
    <3> HIDE DEF j
    <3>2. jobs' = [jobs EXCEPT ![r] = j]
      BY <2>2 DEF j
    <3> QED
      BY <2>2, <3>1, <3>2
  <2> QED
    BY <2>1, <2>2 DEF AcknowledgeJob, CollectorStops
<1>4. CollectorIdle \in Polling /\ CollectorIdle.step = "idle"
  BY IdleTyped
<1>5. /\ collector' = [collector EXCEPT ![c] = CollectorIdle] /\ coordinator' = coordinator
      /\ executionEnabled' = executionEnabled /\ blocked' = blocked /\ stopped' = stopped
      /\ stateLock' = stateLock /\ watches' = watches /\ runs' = runs /\ used' = used
      /\ published' = published /\ evidence' = evidence /\ recorded' = recorded
      /\ offered' = offered /\ changes' = changes /\ results' = results
  BY DEF AcknowledgeJob, CollectorStops, switches, tables, signal
<1>6. /\ jobs' \in [Run -> Job \cup {None}] /\ jobs'[r] = j
      /\ \A q \in Run : q # r => jobs'[q] = jobs[q]
      /\ collector' \in [Collector -> Polling]
      /\ \A d \in Collector : collector'[d] = IF d = c THEN CollectorIdle ELSE collector[d]
  BY <1>2, <1>3, <1>4, <1>5 DEF IInv, TypeOK
<1>7. TypeOK'
  BY <1>5, <1>6 DEF IInv, TypeOK
<1>8. MessagesInv'
  <2>1. \A k \in Coordinator : \A i \in coordinator[k].items : i.run \in Run /\ i.run # r
    BY <1>2 DEF IInv, TypeOK, Queueing, Item, MessagesInv
  <2>2. \A d \in Collector : d # c /\ Busy(d) => collector[d].run # r /\ collector[d].run \in Run
    BY <1>1 DEF IInv, MessagesInv
  <2> HIDE DEF r
  <2>3. ASSUME NEW k \in Coordinator, NEW i \in coordinator'[k].items
        PROVE  /\ jobs'[i.run] = None
               /\ \A l \in coordinator'[k].items : i.run = l.run => i = l
               /\ \A h \in Coordinator : \A l \in coordinator'[h].items :
                     i.run = l.run => h = k
    BY <1>5, <1>6, <2>1 DEF IInv, MessagesInv
  <2>4. ASSUME NEW d \in Collector, Busy(d)'
        PROVE  /\ collector'[d].run \in Run
               /\ jobs'[collector'[d].run] # None
               /\ jobs'[collector'[d].run].held
               /\ \A b \in Collector :
                     Busy(b)' /\ collector'[b].run = collector'[d].run => b = d
    BY <1>4, <1>6, <2>2, <2>4 DEF IInv, MessagesInv, Busy
  <2>5. \A q \in Run : jobs'[q] # None /\ ~jobs'[q].held => jobs'[q].receives < MaxReceive
    BY <1>3, <1>6 DEF IInv, MessagesInv
  <2> QED
    BY <2>3, <2>4, <2>5 DEF MessagesInv
<1>9. OfferedInv'
  BY <1>2, <1>3, <1>4, <1>5, <1>6 DEF IInv, OfferedInv, Offered
<1> QED
  BY <1>5, <1>7, <1>8, <1>9, QueueStep

------------------------------------------------------------------------------
(* Coordinators that queue no runs *)

LEMMA CoordinatorIdleTyped ==
    /\ CoordinatorIdle \in Queueing /\ CoordinatorIdle.step = "idle"
    /\ CoordinatorIdle.items = {} /\ CoordinatorIdle.swept = {}
    /\ \A w \in Watch : CoordinatorIdle.plan[w].do = "leave"
<1>1. Leave \in Plan /\ Leave.do = "leave"
  BY DEF Leave, Plan
<1> QED
  BY <1>1 DEF CoordinatorIdle, Queueing

LEMMA CoordinatorMoves ==
    ASSUME IInv, NEW k \in Coordinator, NEW v \in Queueing,
           coordinator' = [coordinator EXCEPT ![k] = v]
    PROVE  /\ coordinator' \in [Coordinator -> Queueing] /\ coordinator'[k] = v
           /\ \A h \in Coordinator : h # k => coordinator'[h] = coordinator[h]
BY DEF IInv, TypeOK

\* A step of a coordinator that does not select after it.
LEMMA CoordinatorStep ==
    ASSUME IInv, TypeOK', MessagesInv', OfferedInv', RunsQuiet, NEW k \in Coordinator,
           ~Selecting(k)', \A h \in Coordinator : h # k => coordinator'[h] = coordinator[h],
           stateLock' = stateLock \/ stateLock = k, executionEnabled' = executionEnabled
    PROVE  Safe
<1>1. SelectionKept
  BY DEF IInv, LockInv, SelectionKept, Selecting
<1> QED
  BY <1>1, QuietStep DEF IInv, Safe

\* It becomes idle, or plans an enrolment: the queues are left alone.
LEMMA CoordinatorRests ==
    ASSUME IInv, NEW k \in Coordinator, NEW v \in Queueing,
           v.step # "selecting", v.items = {},
           \A w \in Watch : v.plan[w].do \in {"insert", "update"} => v.plan[w].snapshot \in offered[w],
           coordinator' = [coordinator EXCEPT ![k] = v],
           switches' = switches, stateLock' \in {stateLock, None},
           stateLock' = stateLock \/ stateLock = k,
           watches' \in [Watch -> WatchRow], \A w \in Watch : watches'[w].snapshot \in offered[w],
           runs' = runs, used' = used, signal' = signal, queues' = queues, collector' = collector
    PROVE  Safe
<1>1. /\ coordinator' \in [Coordinator -> Queueing] /\ coordinator'[k] = v
      /\ \A h \in Coordinator : h # k => coordinator'[h] = coordinator[h]
  BY CoordinatorMoves
<1>2. TypeOK'
  BY <1>1 DEF IInv, TypeOK, switches, signal, queues
<1>3. MessagesInv'
  BY <1>1, MessagesKept DEF IInv, queues, Busy
<1>4. OfferedInv'
  BY <1>1 DEF IInv, OfferedInv, Offered, signal, queues
<1>5. RunsQuiet
  BY DEF RunsQuiet
<1>6. ~Selecting(k)' /\ executionEnabled' = executionEnabled
  BY <1>1 DEF Selecting, switches
<1> QED
  BY <1>1, <1>2, <1>3, <1>4, <1>5, <1>6, CoordinatorStep

LEMMA ReadCohortSafe ==
    ASSUME IInv, NEW k \in Coordinator, ReadCohort(k)
    PROVE  Safe
<1> DEFINE plan == [w \in Watch |-> Decision(w)]
           v == [CoordinatorIdle EXCEPT !.step = "enrolling", !.plan = plan]
<1>1. ASSUME NEW w \in Watch
      PROVE  /\ Decision(w) \in Plan
             /\ Decision(w).do \in {"insert", "update"} => Decision(w).snapshot \in offered[w]
  <2>1. evidence[w] \in Outcome /\ evidence[w] \in offered[w]
    BY DEF IInv, TypeOK, OfferedInv, Offered
  <2>2. CASE Eligible(w)
    <3> DEFINE do == IF watches[w].enrolled THEN "update" ELSE "insert"
               next == NextPoll(w)
    <3>1. do \in {"insert", "update"} /\ next \in {"staggered", "future", "due"}
      BY DEF NextPoll
    <3>2. Decision(w) = [do |-> do, next |-> next, snapshot |-> evidence[w]]
      BY <2>2 DEF Decision
    <3> HIDE DEF do, next
    <3> QED
      BY <2>1, <3>1, <3>2 DEF Plan
  <2>3. CASE ~Eligible(w) /\ watches[w].enabled
    <3>1. Decision(w) = [do |-> "disable"]
      BY <2>3 DEF Decision
    <3> QED
      BY <3>1 DEF Plan
  <2>4. CASE ~Eligible(w) /\ ~watches[w].enabled
    <3>1. Decision(w) = [do |-> "leave"]
      BY <2>4 DEF Decision, Leave
    <3> QED
      BY <3>1 DEF Plan
  <2> QED
    BY <2>2, <2>3, <2>4
<1>2. /\ plan \in [Watch -> Plan]
      /\ \A w \in Watch : plan[w].do \in {"insert", "update"} => plan[w].snapshot \in offered[w]
  BY <1>1
<1> HIDE DEF plan
<1>3. v \in Queueing /\ v.step = "enrolling" /\ v.items = {} /\ v.plan = plan
  BY <1>2, CoordinatorIdleTyped DEF Queueing
<1>4. coordinator' = [coordinator EXCEPT ![k] = v]
  BY DEF ReadCohort, plan
<1> HIDE DEF v
<1>5. /\ watches \in [Watch -> WatchRow] /\ \A w \in Watch : watches[w].snapshot \in offered[w]
      /\ switches' = switches /\ stateLock' = stateLock /\ watches' = watches /\ runs' = runs
      /\ used' = used /\ signal' = signal /\ queues' = queues /\ collector' = collector
  BY DEF IInv, TypeOK, OfferedInv, Offered, ReadCohort, tables
<1> QED
  BY <1>2, <1>3, <1>4, <1>5, CoordinatorRests

LEMMA EnrolSafe ==
    ASSUME IInv, NEW k \in Coordinator, Enrol(k)
    PROVE  Safe
<1>1. ASSUME NEW w \in Watch
      PROVE  watches'[w] \in WatchRow /\ watches'[w].snapshot \in offered[w]
  <2> DEFINE plan == coordinator[k].plan[w]
  <2>1. /\ plan \in Plan /\ watches[w] \in WatchRow /\ watches[w].snapshot \in offered[w]
        /\ plan.do \in {"insert", "update"} => plan.snapshot \in offered[w]
        /\ watches'[w] = Enrolled(w, plan)
    BY DEF IInv, TypeOK, Queueing, OfferedInv, Offered, Enrol
  <2> HIDE DEF plan
  <2>2. CASE plan.do = "leave"
    BY <2>1, <2>2 DEF Enrolled
  <2>3. CASE plan.do = "disable"
    <3>1. Enrolled(w, plan) = [watches[w] EXCEPT !.enabled = FALSE]
      BY <2>3 DEF Enrolled
    <3> QED
      BY <2>1, <3>1, WatchRowChanges
  <2>4. CASE plan.do \notin {"leave", "disable"}
    <3> DEFINE due == plan.next = "due" \/ (plan.next = "future" /\ watches[w].due)
    <3>1. Enrolled(w, plan) = [enrolled |-> TRUE, enabled |-> TRUE, due |-> due,
                               snapshot |-> plan.snapshot]
      BY <2>4 DEF Enrolled
    <3>2. plan.do \in {"insert", "update"} /\ plan.snapshot \in Outcome
      BY <2>1, <2>4 DEF Plan
    <3>3. due \in BOOLEAN
      OBVIOUS
    <3> HIDE DEF due
    <3> QED
      BY <2>1, <3>1, <3>2, <3>3 DEF WatchRow
  <2> QED
    BY <2>2, <2>3, <2>4
<1>2. watches' \in [Watch -> WatchRow]
  BY <1>1 DEF Enrol
<1> QED
  BY <1>1, <1>2, CoordinatorIdleTyped, CoordinatorRests DEF Enrol

LEMMA CoordinatorEnds ==
    ASSUME IInv, NEW k \in Coordinator, QueueingEnds(k) \/ CoordinatorStops(k)
    PROVE  Safe
<1>1. /\ watches \in [Watch -> WatchRow] /\ \A w \in Watch : watches[w].snapshot \in offered[w]
      /\ switches' = switches /\ watches' = watches /\ runs' = runs
      /\ used' = used /\ signal' = signal /\ queues' = queues /\ collector' = collector
      /\ coordinator' = [coordinator EXCEPT ![k] = CoordinatorIdle]
  BY DEF IInv, TypeOK, OfferedInv, Offered, QueueingEnds, CoordinatorStops, tables
<1>2. stateLock' \in {stateLock, None} /\ (stateLock' = stateLock \/ stateLock = k)
  BY DEF QueueingEnds, CoordinatorStops
<1> QED
  BY <1>1, <1>2, CoordinatorIdleTyped, CoordinatorRests

LEMMA SentRow ==
    ASSUME NEW row \in Queueing, NEW i, NEW v, v = [row EXCEPT !.items = row.items \ {i}]
    PROVE  /\ v \in Queueing /\ v.items = row.items \ {i}
           /\ v.step = row.step /\ v.plan = row.plan
BY DEF Queueing

LEMMA FailedRow ==
    ASSUME NEW row \in Queueing, NEW i, NEW run \in Run, NEW v,
           v = [row EXCEPT !.step = "failing", !.items = row.items \ {i}, !.failing = run]
    PROVE  /\ v \in Queueing /\ v.items = row.items \ {i}
           /\ v.step = "failing" /\ v.plan = row.plan
BY DEF Queueing

LEMMA MarkedRow ==
    ASSUME NEW row \in Queueing, NEW v, v = [row EXCEPT !.step = "sending", !.failing = None]
    PROVE  /\ v \in Queueing /\ v.items = row.items /\ v.step = "sending" /\ v.plan = row.plan
BY DEF Queueing

LEMMA SendSafe ==
    ASSUME IInv, NEW k \in Coordinator, SendJob(k) \/ SendJobFails(k)
    PROVE  Safe
<1> DEFINE me == coordinator[k]
           job(i) == [snapshot |-> i.snapshot, receives |-> 0, held |-> FALSE]
           sent(i) == [me EXCEPT !.items = me.items \ {i}]
           failed(i) == [me EXCEPT !.step = "failing", !.items = me.items \ {i}, !.failing = i.run]
<1>1. me \in Queueing /\ me.step = "sending"
  BY DEF IInv, TypeOK, SendJob, SendJobFails
<1>2. PICK i \in me.items :
        /\ jobs' = jobs \/ jobs' = [jobs EXCEPT ![i.run] = job(i)]
        /\ \/ coordinator' = [coordinator EXCEPT ![k] = sent(i)]
           \/ coordinator' = [coordinator EXCEPT ![k] = failed(i)]
  <2>1. CASE SendJob(k)
    BY <2>1 DEF SendJob
  <2>2. CASE SendJobFails(k)
    BY <2>2 DEF SendJobFails
  <2> QED
    BY <2>1, <2>2
<1>3. /\ i \in Item /\ i.run \in Run /\ i.snapshot \in Outcome /\ jobs[i.run] = None
      /\ i.snapshot \in offered[WatchOf[i.run]]
  BY <1>1, <1>2 DEF Queueing, Item, IInv, MessagesInv, OfferedInv, Offered
<1>4. /\ job(i) \in Job /\ job(i) # None /\ job(i).held = FALSE /\ job(i).receives = 0
      /\ job(i).snapshot = i.snapshot
  <2>1. 0 \in 0..MaxReceive
    BY ConstantsAssumption
  <2>2. job(i) \in Job
    BY <1>3, <2>1 DEF Job
  <2> QED
    BY <2>2, MessagesAssumption
<1>5. PICK v \in Queueing :
        /\ v.step # "selecting" /\ v.items = me.items \ {i} /\ v.plan = me.plan
        /\ coordinator' = [coordinator EXCEPT ![k] = v]
  <2>1. CASE coordinator' = [coordinator EXCEPT ![k] = sent(i)]
    <3> DEFINE v == sent(i)
    <3>1. v \in Queueing /\ v.items = me.items \ {i} /\ v.step = "sending" /\ v.plan = me.plan
      BY <1>1, SentRow
    <3>2. coordinator' = [coordinator EXCEPT ![k] = v]
      BY <2>1
    <3> HIDE DEF v
    <3> QED
      BY <3>1, <3>2
  <2>2. CASE coordinator' = [coordinator EXCEPT ![k] = failed(i)]
    <3> DEFINE v == failed(i)
    <3>1. v \in Queueing /\ v.items = me.items \ {i} /\ v.step = "failing" /\ v.plan = me.plan
      <4> DEFINE run == i.run
      <4>1. run \in Run
        BY <1>3
      <4>2. v = [me EXCEPT !.step = "failing", !.items = me.items \ {i}, !.failing = run]
        OBVIOUS
      <4> HIDE DEF v, me, run
      <4> QED
        BY <1>1, <4>1, <4>2, FailedRow DEF Queueing
    <3>2. coordinator' = [coordinator EXCEPT ![k] = v]
      BY <2>2
    <3> HIDE DEF v
    <3> QED
      BY <3>1, <3>2
  <2> QED
    BY <1>2, <2>1, <2>2
<1> DEFINE j == job(i)
<1>6. jobs' = jobs \/ jobs' = [jobs EXCEPT ![i.run] = j]
  BY <1>2
<1>7. /\ j \in Job /\ j # None /\ j.held = FALSE /\ j.receives = 0 /\ j.snapshot = i.snapshot
  BY <1>4
<1> HIDE DEF j, job, sent, failed
<1>8. /\ jobs' \in [Run -> Job \cup {None}] /\ jobs'[i.run] \in {None, j}
      /\ \A q \in Run : q # i.run => jobs'[q] = jobs[q]
      /\ coordinator' \in [Coordinator -> Queueing] /\ coordinator'[k] = v
      /\ \A h \in Coordinator : h # k => coordinator'[h] = coordinator[h]
  BY <1>3, <1>5, <1>6, <1>7, CoordinatorMoves DEF IInv, TypeOK
<1>9. /\ executionEnabled' = executionEnabled /\ blocked' = blocked /\ stopped' = stopped
      /\ stateLock' = stateLock /\ watches' = watches /\ runs' = runs /\ used' = used
      /\ published' = published /\ evidence' = evidence /\ recorded' = recorded
      /\ offered' = offered /\ changes' = changes /\ results' = results /\ collector' = collector
  BY DEF SendJob, SendJobFails, switches, tables, signal
<1>10. TypeOK'
  BY <1>8, <1>9 DEF IInv, TypeOK
<1>11. MessagesInv'
  <2>1. \A h \in Coordinator : \A l \in coordinator'[h].items :
          l \in coordinator[h].items /\ l.run \in Run /\ l.run # i.run
    <3>1. \A h \in Coordinator : coordinator'[h].items \subseteq coordinator[h].items
      BY <1>5, <1>8
    <3>2. \A h \in Coordinator : \A l \in coordinator[h].items :
            l.run \in Run /\ (l.run = i.run => h = k /\ l = i)
      BY <1>2 DEF IInv, TypeOK, Queueing, Item, MessagesInv
    <3> QED
      BY <1>5, <1>8, <3>1, <3>2
  <2>2. \A c \in Collector : Busy(c) => collector[c].run \in Run /\ collector[c].run # i.run
    BY <1>3 DEF IInv, MessagesInv
  <2>3. ASSUME NEW h \in Coordinator, NEW l \in coordinator'[h].items
        PROVE  /\ jobs'[l.run] = None
               /\ \A b \in coordinator'[h].items : l.run = b.run => l = b
               /\ \A g \in Coordinator : \A b \in coordinator'[g].items :
                     l.run = b.run => g = h
    BY <1>8, <2>1 DEF IInv, MessagesInv
  <2>4. ASSUME NEW c \in Collector, Busy(c)'
        PROVE  /\ collector'[c].run \in Run
               /\ jobs'[collector'[c].run] # None
               /\ jobs'[collector'[c].run].held
               /\ \A b \in Collector :
                     Busy(b)' /\ collector'[b].run = collector'[c].run => b = c
    BY <1>8, <1>9, <2>2, <2>4 DEF IInv, MessagesInv, Busy
  <2>5. \A q \in Run : jobs'[q] # None /\ ~jobs'[q].held => jobs'[q].receives < MaxReceive
    BY <1>7, <1>8, ConstantsAssumption DEF IInv, MessagesInv
  <2> QED
    BY <2>3, <2>4, <2>5 DEF MessagesInv
<1>12. OfferedInv'
  BY <1>3, <1>5, <1>7, <1>8, <1>9 DEF IInv, OfferedInv, Offered
<1>13. RunsQuiet /\ ~Selecting(k)'
  BY <1>5, <1>8, <1>9 DEF RunsQuiet, Selecting
<1> QED
  BY <1>8, <1>9, <1>10, <1>11, <1>12, <1>13, CoordinatorStep

LEMMA MarkQueueFailedSafe ==
    ASSUME IInv, NEW k \in Coordinator, MarkQueueFailed(k)
    PROVE  Safe
<1> DEFINE me == coordinator[k]
           r == me.failing
           v == [me EXCEPT !.step = "sending", !.failing = None]
           failed == SettledAs("QUEUE_FAILED")
<1>1. me \in Queueing
  BY DEF IInv, TypeOK
<1>2. v \in Queueing /\ v.items = me.items /\ v.step = "sending" /\ v.plan = me.plan
  BY <1>1, MarkedRow
<1>3. /\ coordinator' = [coordinator EXCEPT ![k] = v]
      /\ r \notin UncommittedSweep
      /\ runs' = runs \/ (runs[r].status = "QUEUED" /\ runs' = [runs EXCEPT ![r] = failed])
      /\ executionEnabled' = executionEnabled /\ blocked' = blocked /\ stopped' = stopped
      /\ stateLock' = stateLock /\ watches' = watches /\ used' = used
      /\ signal' = signal /\ queues' = queues /\ collector' = collector
  BY DEF MarkQueueFailed, StillQueued, switches
<1>4. failed \in RunRow /\ failed.status = "QUEUE_FAILED"
  BY DEF SettledAs, RunRow, Settled, Failures
<1> HIDE DEF v, failed
<1>5. /\ coordinator' \in [Coordinator -> Queueing] /\ coordinator'[k] = v
      /\ \A h \in Coordinator : h # k => coordinator'[h] = coordinator[h]
  BY <1>2, <1>3, CoordinatorMoves
<1>6. /\ runs' \in [Run -> RunRow]
      /\ \A q \in Run : \/ runs'[q] = runs[q]
                        \/ q = r /\ runs[q].status = "QUEUED" /\ runs'[q].status = "QUEUE_FAILED"
  BY <1>3, <1>4 DEF IInv, TypeOK
<1>7. TypeOK'
  BY <1>3, <1>5, <1>6 DEF IInv, TypeOK, signal, queues
<1>8. MessagesInv'
  BY <1>2, <1>3, <1>5, MessagesKept DEF IInv, queues, Busy
<1>9. OfferedInv'
  BY <1>2, <1>3, <1>5 DEF IInv, OfferedInv, Offered, signal, queues
<1>10. RunsQuiet /\ ~Selecting(k)'
  BY <1>2, <1>3, <1>5, <1>6 DEF RunsQuiet, Settled, Failures, Selecting
<1> QED
  BY <1>3, <1>5, <1>7, <1>8, <1>9, <1>10, CoordinatorStep

------------------------------------------------------------------------------
(* Queueing: the sweep, the budget and the runs inserted *)

\* Of three integers, or fewer.
LEMMA MinIsLeast ==
    ASSUME NEW a \in Int, NEW b \in Int, NEW c \in Int, NEW S \in SUBSET {a, b, c}, S # {}
    PROVE  Min(S) \in S /\ \A x \in S : Min(S) <= x
<1>1. \E x \in S : \A y \in S : x <= y
  <2>1. CASE a \in S /\ (b \in S => a <= b) /\ (c \in S => a <= c)
    BY <2>1
  <2>2. CASE b \in S /\ (a \in S => b <= a) /\ (c \in S => b <= c)
    BY <2>2
  <2>3. CASE c \in S /\ (a \in S => c <= a) /\ (b \in S => c <= b)
    BY <2>3
  <2>4. a \in S \/ b \in S \/ c \in S
    OBVIOUS
  <2> QED
    BY <2>1, <2>2, <2>3, <2>4
<1> QED
  BY <1>1 DEF Min

LEMMA BudgetFits ==
    ASSUME TypeOK
    PROVE  /\ Budget > 0 => Budget \in Nat
           /\ \A p \in Period : Budget + Cardinality(ActiveRuns \ OldRuns) <= Limit[p]
<1> DEFINE waiting == Cardinality(ActiveRuns \ OldRuns)
           S == {MaxPolls} \cup {Available(p) : p \in Period}
           month == IF "month" \in Period THEN Available("month") ELSE MaxPolls
<1>1. waiting \in Nat
  BY ActiveFinite DEF ActiveRuns
<1>2. \A p \in Period : /\ Limit[p] \in Nat /\ used[p] \in Nat
                        /\ Available(p) = Limit[p] - used[p] - waiting
  BY ConstantsAssumption DEF TypeOK, Available
<1>3. \A p \in Period : Available(p) \in Int /\ Available(p) + waiting <= Limit[p]
  <2> HIDE DEF waiting
  <2> QED
    BY <1>1, <1>2
<1>4. /\ MaxPolls \in Int /\ Available("day") \in Int /\ month \in Int
      /\ S \in SUBSET {MaxPolls, Available("day"), month} /\ S # {}
  BY <1>3, ConstantsAssumption
<1>5. Min(S) \in S /\ \A x \in S : Min(S) <= x
  <2> HIDE DEF S, month
  <2> QED
    BY <1>4, MinIsLeast
<1>6. Budget = Min(S)
  BY DEF Budget
<1>7. Budget \in Int /\ \A p \in Period : Budget <= Available(p)
  BY <1>3, <1>4, <1>5, <1>6
<1> HIDE DEF waiting, S
<1>8. \A p \in Period : Budget + waiting <= Limit[p]
  BY <1>1, <1>2, <1>3, <1>7
<1> QED
  BY <1>7, <1>8 DEF waiting

LEMMA SendingRow ==
    ASSUME NEW items \in SUBSET Item, NEW v,
           v = [CoordinatorIdle EXCEPT !.step = "sending", !.items = items]
    PROVE  /\ v \in Queueing /\ v.step = "sending" /\ v.items = items
           /\ v.plan = CoordinatorIdle.plan
BY CoordinatorIdleTyped DEF Queueing

LEMMA LockStateSafe ==
    ASSUME IInv, NEW k \in Coordinator, LockState(k)
    PROVE  Safe
<1> DEFINE v == [CoordinatorIdle EXCEPT !.step = "selecting", !.swept = OldRuns, !.budget = Budget]
<1>1. /\ stateLock = None /\ executionEnabled /\ Budget > 0 /\ stateLock' = k
      /\ coordinator' = [coordinator EXCEPT ![k] = v]
      /\ executionEnabled' = executionEnabled /\ blocked' = blocked /\ stopped' = stopped
      /\ watches' = watches /\ runs' = runs /\ used' = used
      /\ signal' = signal /\ queues' = queues /\ collector' = collector
  BY DEF LockState, StateFree, switches, tables
<1>2. /\ OldRuns \subseteq ActiveRuns /\ ActiveRuns \subseteq Run /\ Budget \in Nat
      /\ \A p \in Period : Budget + Cardinality(ActiveRuns \ OldRuns) <= Limit[p]
  BY <1>1, BudgetFits DEF IInv, OldRuns, ActiveRuns
<1>3. /\ v \in Queueing /\ v.step = "selecting" /\ v.swept = OldRuns /\ v.budget = Budget
      /\ v.items = {} /\ v.plan = CoordinatorIdle.plan
  <2> DEFINE budget == Budget
             swept == OldRuns
  <2>1. swept \in SUBSET Run /\ budget \in Nat
    BY <1>2
  <2>2. v = [CoordinatorIdle EXCEPT !.step = "selecting", !.swept = swept, !.budget = budget]
    OBVIOUS
  <2> HIDE DEF v, budget, swept
  <2>3. /\ v \in Queueing /\ v.step = "selecting" /\ v.swept = swept /\ v.budget = budget
        /\ v.items = {} /\ v.plan = CoordinatorIdle.plan
    BY <2>1, <2>2, CoordinatorIdleTyped DEF Queueing
  <2> QED
    BY <2>3 DEF budget, swept
<1> HIDE DEF v
<1>4. /\ coordinator' \in [Coordinator -> Queueing] /\ coordinator'[k] = v
      /\ \A h \in Coordinator : h # k => coordinator'[h] = coordinator[h]
  BY <1>1, <1>3, CoordinatorMoves
<1>5. TypeOK'
  BY <1>1, <1>4 DEF IInv, TypeOK, signal, queues
<1>6. LockInv'
  <2>1. ActiveRuns' = ActiveRuns
    BY <1>1 DEF ActiveRuns
  <2>2. ASSUME NEW h \in Coordinator, Selecting(h)'
        PROVE  h = k
    <3>1. h # k => Selecting(h) /\ stateLock = h
      BY <1>4, <2>2 DEF Selecting, IInv, LockInv
    <3> QED
      BY <1>1, <3>1, ConstantsAssumption
  <2> QED
    BY <1>1, <1>2, <1>3, <1>4, <2>1, <2>2 DEF LockInv
<1>7. QuotaInv' /\ RunsFine
  BY <1>1 DEF IInv, QuotaInv, OneActiveRun, ActiveWithinQuota, RunsFine
<1>8. MessagesInv'
  BY <1>1, <1>3, <1>4, MessagesKept DEF IInv, queues, Busy
<1>9. OfferedInv'
  BY <1>1, <1>3, <1>4, CoordinatorIdleTyped DEF IInv, OfferedInv, Offered, signal, queues
<1> QED
  BY <1>5, <1>6, <1>7, <1>8, <1>9 DEF IInv, Safe

LEMMA SelectSafe ==
    ASSUME IInv, NEW k \in Coordinator, NEW candidates, SelectAndQueue(k, candidates)
    PROVE  Safe
<1> DEFINE swept == coordinator[k].swept
           budget == coordinator[k].budget
<1>1. PICK new \in SUBSET Run :
        /\ \A r \in new : Free(r) /\ Pollable(WatchOf[r], swept)
        /\ \E n \in Nat : Cardinality(new) = Min({budget, n})
        /\ \A r, q \in new : WatchOf[r] = WatchOf[q] => r = q
        /\ runs' = [r \in Run |-> IF r \in new THEN NewRun ELSE Fail(swept)[r]]
        /\ coordinator' = [coordinator EXCEPT ![k] =
              [CoordinatorIdle EXCEPT !.step = "sending",
                 !.items = {[run |-> r, snapshot |-> watches[WatchOf[r]].snapshot] : r \in new}]]
  <2> DEFINE free == {r \in Run : Free(r) /\ WatchOf[r] \in candidates
                                      /\ Pollable(WatchOf[r], swept)}
             selectable == {WatchOf[r] : r \in free}
  <2>1. Cardinality(selectable) \in Nat
    <3>1. IsFiniteSet(free)
      BY ActiveFinite
    <3>2. IsFiniteSet(selectable)
      <4> DEFINE f == [r \in free |-> WatchOf[r]]
      <4>1. f \in Surjection(free, selectable)
        BY DEF Surjection
      <4> HIDE DEF f, free, selectable
      <4> QED
        BY <3>1, <4>1, FS_Surjection
    <3> QED
      BY <3>2, FS_CardinalityType
  <2> QED
    BY <2>1 DEF SelectAndQueue
<1>2. /\ Selecting(k) /\ stateLock' = None
      /\ executionEnabled' = executionEnabled /\ blocked' = blocked /\ stopped' = stopped
      /\ watches' = watches /\ used' = used
      /\ signal' = signal /\ queues' = queues /\ collector' = collector
  BY DEF SelectAndQueue, Selecting, switches
<1>3. /\ stateLock = k /\ executionEnabled /\ swept \subseteq ActiveRuns
      /\ ActiveRuns \subseteq Run /\ budget \in Nat
      /\ \A p \in Period : budget + Cardinality(ActiveRuns \ swept) <= Limit[p]
  BY <1>2 DEF IInv, LockInv, TypeOK, Queueing, ActiveRuns
<1>4. Cardinality(new) <= budget /\ Cardinality(new) \in Nat
  <2>1. PICK n \in Nat : Cardinality(new) = Min({budget, n})
    BY <1>1
  <2>2. Min({budget, n}) <= budget
    <3> PICK some : some = {budget, n}
      OBVIOUS
    <3>1. \E x \in some : \A y \in some : x <= y
      BY <1>3
    <3>2. Min(some) <= budget
      BY <3>1 DEF Min
    <3> QED
      BY <3>2
  <2> QED
    BY <2>1, <2>2, ActiveFinite
<1>5. /\ NewRun \in RunRow /\ NewRun.status = "QUEUED"
      /\ SettledAs("FAILED") \in RunRow /\ SettledAs("FAILED").status = "FAILED"
  BY DEF NewRun, SettledAs, RunRow, Settled, Failures
<1>6. \A r \in Run : runs'[r] = IF r \in new THEN NewRun
                               ELSE IF r \in swept THEN SettledAs("FAILED") ELSE runs[r]
  BY <1>1 DEF Fail
<1>7. \A r \in new : /\ runs[r].status # "QUEUED" /\ jobs[r] = None
                     /\ \A h \in Coordinator : \A i \in coordinator[h].items : i.run # r
                     /\ watches[WatchOf[r]].snapshot \in Outcome
                     /\ watches[WatchOf[r]].snapshot \in offered[WatchOf[r]]
                     /\ Unblocked(WatchOf[r]) /\ Polled(WatchOf[r]) \subseteq swept
  BY <1>1, ConstantsAssumption DEF Free, Pollable, IInv, TypeOK, WatchRow, OfferedInv, Offered
<1> DEFINE items == {[run |-> r, snapshot |-> watches[WatchOf[r]].snapshot] : r \in new}
           v == [CoordinatorIdle EXCEPT !.step = "sending", !.items = items]
<1>8. items \in SUBSET Item
      /\ \A i \in items : /\ i.run \in new /\ i.snapshot \in offered[WatchOf[i.run]]
                          /\ \A l \in items : i.run = l.run => i = l
  BY <1>7 DEF Item
<1>9. coordinator' = [coordinator EXCEPT ![k] = v]
  BY <1>1
<1> HIDE DEF items
<1>10. /\ v \in Queueing /\ v.step = "sending" /\ v.items = items
       /\ v.plan = CoordinatorIdle.plan
  BY <1>8, SendingRow
<1> HIDE DEF v
<1>11. /\ coordinator' \in [Coordinator -> Queueing] /\ coordinator'[k] = v
       /\ \A h \in Coordinator : h # k => coordinator'[h] = coordinator[h]
  BY <1>9, <1>10, CoordinatorMoves
<1>12. ActiveRuns' = (ActiveRuns \ swept) \cup new
  BY <1>3, <1>5, <1>6 DEF ActiveRuns
<1>13. TypeOK'
  <2>1. runs' \in [Run -> RunRow]
    BY <1>1, <1>5, <1>6 DEF IInv, TypeOK
  <2> QED
    BY <1>2, <1>11, <2>1 DEF IInv, TypeOK, signal, queues
<1>14. LockInv'
  <2>1. ASSUME NEW h \in Coordinator
        PROVE  ~Selecting(h)'
    <3>1. Selecting(h)' => h # k /\ Selecting(h)
      BY <1>10, <1>11 DEF Selecting
    <3>2. Selecting(h) => h = k
      BY <1>3 DEF IInv, LockInv
    <3> QED
      BY <3>1, <3>2
  <2> QED
    BY <2>1 DEF LockInv
<1>15. OneActiveRun'
  <2> SUFFICES ASSUME NEW r \in ActiveRuns', NEW q \in ActiveRuns', WatchOf[r] = WatchOf[q]
               PROVE  r = q
    BY DEF OneActiveRun, ActiveRuns
  <2>1. ASSUME NEW x \in new, NEW y \in ActiveRuns \ swept
        PROVE  WatchOf[x] # WatchOf[y]
    BY <1>7 DEF Polled
  <2>2. ASSUME NEW x \in ActiveRuns, NEW y \in ActiveRuns, WatchOf[x] = WatchOf[y]
        PROVE  x = y
    BY <2>2 DEF IInv, QuotaInv, OneActiveRun, ActiveRuns
  <2> QED
    BY <1>1, <1>12, <2>1, <2>2
<1>16. ActiveWithinQuota'
  <2> DEFINE before == ActiveRuns \ swept
  <2>1. /\ IsFiniteSet(before) /\ IsFiniteSet(new) /\ Cardinality(before) \in Nat
    BY <1>3, ActiveFinite
  <2>2. Cardinality(before \cup new) <= Cardinality(before) + Cardinality(new)
    <3>1. /\ Cardinality(before \cup new)
               = Cardinality(before) + Cardinality(new) - Cardinality(before \cap new)
      BY <2>1, FS_Union
    <3>2. before \cap new \subseteq Run
      BY <1>3
    <3>3. Cardinality(before \cap new) \in Nat
      BY <3>2, ActiveFinite
    <3> QED
      BY <1>4, <2>1, <3>1, <3>3
  <2>3. Cardinality(before \cup new) \in Nat
    <3>1. before \cup new \subseteq Run
      BY <1>3
    <3> QED
      BY <3>1, ActiveFinite
  <2>4. \A p \in Period : Limit[p] \in Nat /\ budget + Cardinality(before) <= Limit[p]
    BY <1>3, ConstantsAssumption
  <2>5. ActiveRuns' = before \cup new
    BY <1>12
  <2> HIDE DEF before, budget
  <2>6. \A p \in Period : Cardinality(before \cup new) <= Limit[p]
    BY <1>3, <1>4, <2>1, <2>2, <2>3, <2>4
  <2>7. \A p \in Period : Cardinality(ActiveRuns') <= Limit[p]
    BY <2>5, <2>6
  <2> QED
    BY <2>7 DEF ActiveWithinQuota, ActiveRuns
<1>17. RunsFine
  <2>1. \A r \in swept : runs[r].status = "QUEUED"
    BY <1>3 DEF ActiveRuns
  <2> QED
    BY <1>3, <1>5, <1>6, <1>7, <2>1 DEF RunsFine, Settled, Failures
<1>18. MessagesInv'
  <2>1. jobs' = jobs
    BY <1>2 DEF queues
  <2>2. \A h \in Coordinator : \A i \in coordinator[h].items : i.run \notin new
    BY <1>7
  <2>3. ASSUME NEW h \in Coordinator, NEW i \in coordinator'[h].items
        PROVE  /\ jobs'[i.run] = None
               /\ \A l \in coordinator'[h].items : i.run = l.run => i = l
               /\ \A g \in Coordinator : \A l \in coordinator'[g].items :
                     i.run = l.run => g = h
    <3>1. CASE h = k
      BY <1>7, <1>8, <1>10, <1>11, <2>1, <2>2, <3>1
    <3>2. CASE h # k
      BY <1>8, <1>10, <1>11, <2>1, <2>2, <3>2 DEF IInv, MessagesInv
    <3> QED
      BY <3>1, <3>2
  <2>4. ASSUME NEW c \in Collector, Busy(c)'
        PROVE  /\ collector'[c].run \in Run
               /\ jobs'[collector'[c].run] # None
               /\ jobs'[collector'[c].run].held
               /\ \A d \in Collector : Busy(d)' /\ collector'[d].run = collector'[c].run => d = c
    BY <1>2, <2>1, <2>4 DEF IInv, MessagesInv, Busy
  <2>5. \A r \in Run : jobs'[r] # None /\ ~jobs'[r].held => jobs'[r].receives < MaxReceive
    BY <2>1 DEF IInv, MessagesInv
  <2> QED
    BY <2>3, <2>4, <2>5 DEF MessagesInv
<1>19. OfferedInv'
  BY <1>2, <1>8, <1>10, <1>11, CoordinatorIdleTyped DEF IInv, OfferedInv, Offered, signal, queues
<1> QED
  BY <1>13, <1>14, <1>15, <1>16, <1>17, <1>18, <1>19 DEF IInv, QuotaInv, Safe

LEMMA QueueRunsSafe ==
    ASSUME IInv, NEW k \in Coordinator, QueueDue(k) \/ RetryFailed(k)
    PROVE  Safe
<1>1. \E candidates : SelectAndQueue(k, candidates)
  BY DEF QueueDue, RetryFailed
<1> QED
  BY <1>1, SelectSafe
------------------------------------------------------------------------------
(* Initial states, every step, and the theorems *)

LEMMA InitInv == Init => IInv
<1> SUFFICES ASSUME Init
             PROVE  IInv
  OBVIOUS
<1>1. TypeOK
  <2>1. First \in Outcome /\ 0 \in Nat
    BY ConstantsAssumption
  <2>2. watches \in [Watch -> WatchRow]
    BY <2>1 DEF Init, WatchRow
  <2>3. runs \in [Run -> RunRow]
    BY DEF Init, RunRow
  <2>4. /\ coordinator \in [Coordinator -> Queueing] /\ collector \in [Collector -> Polling]
    BY CoordinatorIdleTyped, IdleTyped DEF Init
  <2>5. used \in [Period -> Nat] /\ jobs \in [Run -> Job \cup {None}]
    BY DEF Init
  <2> QED
    BY <2>1, <2>2, <2>3, <2>4, <2>5 DEF Init, TypeOK
<1>2. LockInv
  BY CoordinatorIdleTyped DEF Init, LockInv, Selecting
<1>3. QuotaInv
  <2>1. {r \in Run : runs[r].status = "QUEUED"} = {}
    BY DEF Init
  <2>2. Cardinality({}) = 0
    BY FS_EmptySet
  <2>3. \A p \in Period : 0 <= Limit[p]
    BY ConstantsAssumption
  <2> QED
    BY <2>1, <2>2, <2>3 DEF QuotaInv, OneActiveRun, ActiveWithinQuota
<1>4. MessagesInv
  BY CoordinatorIdleTyped, IdleTyped DEF Init, MessagesInv, Busy
<1>5. OfferedInv
  BY CoordinatorIdleTyped, IdleTyped DEF Init, OfferedInv, Offered
<1> QED
  BY <1>1, <1>2, <1>3, <1>4, <1>5 DEF IInv

LEMMA NextSafe ==
    ASSUME IInv, Next
    PROVE  Safe
<1>1. ASSUME NEW k \in Coordinator,
             Coordinate(k) \/ SendJobFails(k) \/ CoordinatorStops(k)
      PROVE  Safe
  BY <1>1, ReadCohortSafe, EnrolSafe, LockStateSafe, QueueRunsSafe, SendSafe,
     MarkQueueFailedSafe, CoordinatorEnds DEF Coordinate
<1>2. ASSUME NEW c \in Collector,
             Collect(c) \/ PollFails(c) \/ OfferFails(c) \/ CollectorStops(c)
      PROVE  Safe
  BY <1>2, ReceiveJobSafe, PollFindsSafe, PollFailsSafe, OfferSafe, SendResultSafe,
     CollectorEnds DEF Collect
<1>3. ASSUME NEW m \in results, TakeResult(m) \/ TakeResultAgain(m) \/ LoseResult(m)
      PROVE  Safe
  BY <1>3, RecordResultSafe, LoseResultSafe
<1>4. ASSUME NEW w \in Watch, NEW o \in Outcome,
             Ingest(w, o) \/ Publish(w, o) \/ LoseChange(w, o)
      PROVE  Safe
  BY <1>4, IngestSafe, PublishSafe
<1>5. CASE Administer
  BY <1>5, SetExecutionSafe, BlockSafe, RecomputeSafe DEF Administer
<1>6. CASE TimePasses
  BY <1>6, ComesDueSafe, GrowsOldSafe, EndsSafe DEF TimePasses
<1>7. ASSUME NEW r \in Run, LoseJob(r)
      PROVE  Safe
  BY <1>7, LoseJobSafe
<1> QED
  BY <1>1, <1>2, <1>3, <1>4, <1>5, <1>6, <1>7 DEF Next, Works, Fails

LEMMA Stutter ==
    ASSUME IInv, UNCHANGED vars
    PROVE  Safe
<1>1. TypeOK' /\ QuotaInv' /\ LockInv'
  BY DEF IInv, TypeOK, QuotaInv, OneActiveRun, ActiveWithinQuota, LockInv, Selecting, ActiveRuns,
         vars, switches, tables, signal, queues
<1>2. MessagesInv' /\ OfferedInv'
  BY DEF IInv, MessagesInv, Busy, OfferedInv, Offered, vars, switches, tables, signal, queues
<1>3. RunsFine
  BY DEF RunsFine, vars, tables
<1> QED
  BY <1>1, <1>2, <1>3 DEF IInv, Safe

LEMMA Steps == IInv /\ [Next]_vars => Safe
BY NextSafe, Stutter

\* The inductive invariant, of every reachable state.
THEOREM Invariance == Spec => []IInv
<1>1. IInv /\ [Next]_vars => IInv'
  BY Steps DEF Safe
<1> QED
  BY InitInv, <1>1, PTL DEF Spec

\* Every variable keeps its type: no message is received more often than the
\* queue allows, no result names a run or a snapshot that is none.
THEOREM TypeCorrect == Spec => []TypeOK
<1>1. IInv => TypeOK
  BY DEF IInv
<1> QED
  BY Invariance, <1>1, PTL

\* No two runs of a watch wait for a result, however many coordinators queue,
\* sweep and retry at once: the unique index never refuses an insert.
THEOREM OneRunActive == Spec => []OneActiveRun
<1>1. IInv => OneActiveRun
  BY DEF IInv, QuotaInv
<1> QED
  BY Invariance, <1>1, PTL

\* The runs that wait are never more than the day's or the month's quota: the
\* row lock makes the budget that was read hold until the runs are inserted.
THEOREM QuotaKept == Spec => []ActiveWithinQuota
<1>1. IInv => ActiveWithinQuota
  BY DEF IInv, QuotaInv
<1> QED
  BY Invariance, <1>1, PTL

\* The snapshot later polls are compared with was offered to ingestion, along
\* every way it takes: enrolment, job, poll, result.
THEOREM SnapshotsOffered == Spec => []SnapshotWasOffered
<1>1. IInv => SnapshotWasOffered
  BY DEF IInv, OfferedInv, Offered, SnapshotWasOffered
<1> QED
  BY Invariance, <1>1, PTL

\* A run that has a result, or was given up, keeps it, whatever late or
\* repeated message arrives, until its row is a new run.
THEOREM ResultsAreFinal == Spec => ResultIsFinal
<1>1. IInv /\ [Next]_vars =>
        [\A r \in Run : runs[r].status \in Settled =>
            runs'[r].status \in {runs[r].status, "QUEUED"}]_vars
  BY Steps DEF Safe, RunsFine
<1> QED
  BY Invariance, <1>1, PTL DEF Spec, ResultIsFinal

\* A run is queued only while execution is enabled, for an opportunity nobody
\* has blocked: the switch waits for the lock, the block is read again.
THEOREM QueueingAllowed == Spec => QueuesOnlyWhenAllowed
<1>1. IInv /\ [Next]_vars =>
        [\A r \in Run : runs[r].status # "QUEUED" /\ runs'[r].status = "QUEUED" =>
            executionEnabled /\ Unblocked(WatchOf[r])]_vars
  BY Steps DEF Safe, RunsFine
<1> QED
  BY Invariance, <1>1, PTL DEF Spec, QueuesOnlyWhenAllowed
=============================================================================
