---------------------------- MODULE LockedDispatch ----------------------------
(***************************************************************************)
(* What sending under a row lock promises, whoever sends: a recorded item  *)
(* is locked by one transaction at a time, which sends the item's message, *)
(* then marks the item and ends.  A transaction that is rolled back leaves *)
(* no mark, so the message may be sent again; never after the mark.        *)
(***************************************************************************)
EXTENDS Naturals

CONSTANT Item

VARIABLES
    recorded,       \* items there are
    marked,         \* those whose message needs no sending
    phase,          \* what the transaction that has locked an item has done
    sends           \* messages sent, per item

vars == <<recorded, marked, phase, sends>>

Init ==
    /\ recorded = {} /\ marked = {}
    /\ phase = [i \in Item |-> "unlocked"]
    /\ sends = [i \in Item |-> 0]

Record(i) ==
    /\ i \notin recorded /\ phase[i] = "unlocked"
    /\ recorded' = recorded \cup {i}
    /\ UNCHANGED <<marked, phase, sends>>

Lock(i) ==
    /\ i \in recorded \ marked /\ phase[i] = "unlocked"
    /\ phase' = [phase EXCEPT ![i] = "locked"]
    /\ UNCHANGED <<recorded, marked, sends>>

Send(i) ==
    /\ phase[i] = "locked"
    /\ phase' = [phase EXCEPT ![i] = "sent"]
    /\ sends' = [sends EXCEPT ![i] = sends[i] + 1]
    /\ UNCHANGED <<recorded, marked>>

Commit(i) ==
    /\ phase[i] = "sent"
    /\ phase' = [phase EXCEPT ![i] = "unlocked"]
    /\ marked' = marked \cup {i}
    /\ UNCHANGED <<recorded, sends>>

RollBack(i) ==
    /\ phase[i] # "unlocked"
    /\ phase' = [phase EXCEPT ![i] = "unlocked"]
    /\ UNCHANGED <<recorded, marked, sends>>

Next == \E i \in Item : Record(i) \/ Lock(i) \/ Send(i) \/ Commit(i) \/ RollBack(i)

Spec == Init /\ [][Next]_vars

\* A mark says that the message was sent, and ends the sending.
MarkedWereSent == \A i \in marked : sends[i] > 0

KeepsMarked == \A i \in marked : sends'[i] = sends[i]
MarkedAreSettled == [][KeepsMarked]_vars
==============================================================================
