---------------------------- MODULE PlanningBackfill ----------------------------
(***************************************************************************)
(* The historical backfill of planning applications: a chain of chunks,    *)
(* each a message on the collector's queue that the chunk before it sends  *)
(* (app/planning_backfill.py, app/collector.py, app/handler.py), and the   *)
(* run rows that say how far it is (app/source_runs.py).                   *)
(*                                                                         *)
(* A run row is an observation: any write of one may be lost, and the      *)
(* program goes on.  One backfill is modelled, of days 1 to its last.      *)
(***************************************************************************)
EXTENDS Naturals, Sequences

CONSTANTS
    Scope,          \* the last day and the chunk size of the backfills asked for
    Worker,         \* concurrent executions of the collector
    None            \* no row

VARIABLES
    scope,          \* the bounds of this backfill
    request,        \* the administrator's request that starts it
    parent,         \* status of the row planning_backfill
    chunk,          \* status of the row planning of each chunk
    final,          \* status of the row planning_backfill_finalization
    messages,       \* chunks on the queue: a message stays until it is deleted
    collector,      \* what each execution is at
    queried         \* days for which the provider has answered every query

vars == <<scope, request, parent, chunk, final, messages, collector, queried>>

RunStatus == {"RUNNING", "SUCCESS", "FAILED"}

\* What an instance gives the constants satisfies (see Services).
BackfillAssumption ==
    Scope \subseteq [last: Nat \ {0}, size: Nat \ {0}] /\ None \notin RunStatus

Idle == [step |-> "idle", message |-> None]
------------------------------------------------------------------------------
\* The period cut into pieces of a size, the last one as long as is left.
ChunksOf == [bounds \in Scope |->
    LET end(from) == IF from + bounds.size - 1 < bounds.last THEN from + bounds.size - 1
                     ELSE bounds.last
        cut[from \in 1..bounds.last + 1] ==
            IF from > bounds.last THEN <<>>
            ELSE <<[from |-> from, to |-> end(from)]>> \o cut[end(from) + 1]
    IN cut[1]]
Chunks == ChunksOf[scope]

\* The command that asks for one chunk.
ChunkPayload(index) == [index |-> index, from |-> Chunks[index].from, to |-> Chunks[index].to]

\* start_run, finish_run and update_run_progress swallow every exception.
Written(row, status) == {row, status}

Init ==
    /\ scope \in Scope
    /\ request = "none"
    /\ parent = None /\ final = None
    /\ chunk = [index \in DOMAIN Chunks |-> None]
    /\ messages = {} /\ queried = {}
    /\ collector = [w \in Worker |-> Idle]

At(w, step) == collector[w].step = step
Message(w) == collector[w].message
Goes(w, step) == collector' = [collector EXCEPT ![w].step = step]
------------------------------------------------------------------------------
(* The administrator's requests. *)

StartBackfill ==
    /\ request = "none"
    /\ request' = "started"
    /\ parent' \in Written(parent, "RUNNING")
    /\ UNCHANGED <<scope, chunk, final, messages, collector, queried>>

SendFirstChunk ==
    /\ request = "started"
    /\ request' = "done"
    /\ messages' = messages \cup {ChunkPayload(1)}
    /\ UNCHANGED <<scope, parent, chunk, final, collector, queried>>

\* The send fails, or seems to: the queue may have taken the message.
FirstChunkFails ==
    /\ request = "started"
    /\ request' = "done"
    /\ messages' \in {messages, messages \cup {ChunkPayload(1)}}
    /\ parent' \in Written(parent, "FAILED")
    /\ UNCHANGED <<scope, chunk, final, collector, queried>>

\* Recalculation asks for a completed backfill that it has not been run for.
\* Its row is RUNNING at first and for good when the request is cut off; one
\* request at a time.
Recalculate ==
    /\ parent = "SUCCESS" /\ final # "SUCCESS"
    /\ \E status \in RunStatus : final' \in Written(final, status)
    /\ UNCHANGED <<scope, request, parent, chunk, messages, collector, queried>>
------------------------------------------------------------------------------
(* The collector. *)

\* A chunk that succeeded before is not collected again.
AlreadyCollectedBug(index) == chunk[index] # None   \* (Bug: whatever became of it.)
AlreadyCollected(index) == chunk[index] = "SUCCESS"

Receive(w, m) ==
    /\ At(w, "idle") /\ m \in messages
    /\ collector' = [collector EXCEPT ![w] =
           [step |-> IF AlreadyCollected(m.index) THEN "progress" ELSE "collect", message |-> m]]
    /\ UNCHANGED <<scope, request, parent, chunk, final, messages, queried>>

\* collect_planning: its row is RUNNING again whoever else has it.
CollectStarts(w) ==
    /\ At(w, "collect")
    /\ chunk' \in {chunk, [chunk EXCEPT ![Message(w).index] = "RUNNING"]}
    /\ Goes(w, "query")
    /\ UNCHANGED <<scope, request, parent, final, messages, queried>>

CollectSucceeds(w) ==
    LET m == Message(w) IN
    /\ At(w, "query")
    /\ queried' = queried \cup (m.from .. m.to)
    /\ chunk' \in {chunk, [chunk EXCEPT ![m.index] = "SUCCESS"]}
    /\ Goes(w, "progress")
    /\ UNCHANGED <<scope, request, parent, final, messages>>

\* The provider limits the rate, or anything else is raised.
CollectFails(w, why) ==
    /\ At(w, "query")
    /\ chunk' \in {chunk, [chunk EXCEPT ![Message(w).index] = "FAILED"]}
    /\ Goes(w, why)
    /\ UNCHANGED <<scope, request, parent, final, messages, queried>>

UpdateRunProgress(w) ==
    /\ At(w, "progress")
    /\ parent' \in Written(parent, "RUNNING")
    /\ Goes(w, "next")
    /\ UNCHANGED <<scope, request, chunk, final, messages, queried>>

\* The chunk after this one is sent, or the backfill is complete.
IsLast(index) == index >= Len(Chunks)

SendNext(w) ==
    LET next == ChunkPayload(Message(w).index + 1) IN
    /\ At(w, "next") /\ ~IsLast(Message(w).index)
    /\ messages' = messages \cup {next}
    /\ Goes(w, "ends")
    /\ UNCHANGED <<scope, request, parent, chunk, final, queried>>

SendNextFails(w) ==
    LET next == ChunkPayload(Message(w).index + 1) IN
    /\ At(w, "next") /\ ~IsLast(Message(w).index)
    /\ messages' \in {messages, messages \cup {next}}
    /\ Goes(w, "failed")
    /\ UNCHANGED <<scope, request, parent, chunk, final, queried>>

FinishBackfill(w) ==
    /\ At(w, "next") /\ IsLast(Message(w).index)
    /\ parent' \in Written(parent, "SUCCESS")
    /\ Goes(w, "ends")
    /\ UNCHANGED <<scope, request, chunk, final, messages, queried>>

\* A rate limit ends the chain; any other failure leaves the message.
FinishFailed(w) ==
    /\ At(w, "limited") \/ At(w, "failed")
    /\ parent' \in Written(parent, "FAILED")
    /\ IF At(w, "limited") THEN Goes(w, "ends")
       ELSE collector' = [collector EXCEPT ![w] = Idle]
    /\ UNCHANGED <<scope, request, chunk, final, messages, queried>>

\* The message is deleted; a standard queue may deliver it once more.
Ends(w) ==
    /\ At(w, "ends")
    /\ messages' \in {messages, messages \ {Message(w)}}
    /\ collector' = [collector EXCEPT ![w] = Idle]
    /\ UNCHANGED <<scope, request, parent, chunk, final, queried>>

\* The execution is cut off, and the message becomes visible again.
Stops(w) ==
    /\ ~At(w, "idle")
    /\ collector' = [collector EXCEPT ![w] = Idle]
    /\ UNCHANGED <<scope, request, parent, chunk, final, messages, queried>>

\* A message that failed three times goes to the dead-letter queue.
GivesUp(m) ==
    /\ m \in messages
    /\ messages' = messages \ {m}
    /\ UNCHANGED <<scope, request, parent, chunk, final, collector, queried>>
------------------------------------------------------------------------------
Next ==
    \/ StartBackfill
    \/ SendFirstChunk
    \/ FirstChunkFails
    \/ Recalculate
    \/ \E w \in Worker :
          \/ \E m \in messages : Receive(w, m)
          \/ CollectStarts(w)
          \/ CollectSucceeds(w)
          \/ \E why \in {"limited", "failed"} : CollectFails(w, why)
          \/ UpdateRunProgress(w)
          \/ SendNext(w)
          \/ SendNextFails(w)
          \/ FinishBackfill(w)
          \/ FinishFailed(w)
          \/ Ends(w)
          \/ Stops(w)
    \/ \E m \in messages : GivesUp(m)

Spec == Init /\ [][Next]_vars
------------------------------------------------------------------------------
\* The rows, messages and executions have their types.
TypeOK ==
    /\ scope \in Scope
    /\ {parent, final} \subseteq RunStatus \cup {None}
    /\ chunk \in [DOMAIN Chunks -> RunStatus \cup {None}]
    /\ messages \subseteq {ChunkPayload(index) : index \in DOMAIN Chunks}
    /\ \A w \in Worker : ~At(w, "idle") => Message(w) \in {ChunkPayload(i) : i \in DOMAIN Chunks}
    /\ queried \subseteq 1..scope.last

\* A backfill says SUCCESS, and opportunities are recalculated from it, only
\* when the provider has answered for every day of the period, however chunks
\* were cut, retried, delivered again, overtaken or left by a lost write.
CompleteIsCovered ==
    parent = "SUCCESS" \/ final # None => 1..scope.last \subseteq queried
==============================================================================
