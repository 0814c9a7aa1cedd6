------------------------- MODULE PlanningBackfillProofs -------------------------
(***************************************************************************)
(* For any period and chunk size and any number of executions: a backfill  *)
(* that says it is complete has asked the provider for every day.          *)
(***************************************************************************)
EXTENDS PlanningBackfill, FiniteSetTheorems, SequenceTheorems, WellFoundedInduction, TLAPS

------------------------------------------------------------------------------
(* How the period is cut: planning_backfill_chunks. *)

Period(bounds) == 1..bounds.last
Piece(bounds) == [from: Period(bounds), to: Period(bounds)]

\* Where the piece ends that begins on a day, and what the recursion says.
End(bounds, from) ==
    IF from + bounds.size - 1 < bounds.last THEN from + bounds.size - 1 ELSE bounds.last
CutFrom(bounds, cut, from) ==
    IF from > bounds.last THEN <<>>
    ELSE <<[from |-> from, to |-> End(bounds, from)]>> \o cut[End(bounds, from) + 1]
IsCut(bounds, cut) == cut = [from \in 1..bounds.last + 1 |-> CutFrom(bounds, cut, from)]

\* A sequence of pieces that covers the period from a day on without a gap.
Covers(bounds, pieces, from) ==
    /\ pieces \in Seq(Piece(bounds)) /\ pieces # <<>>
    /\ pieces[1].from = from
    /\ pieces[Len(pieces)].to = bounds.last
    /\ \A i \in 1..Len(pieces) - 1 : pieces[i + 1].from = pieces[i].to + 1

LEMMA NatMin ==
    ASSUME NEW some \in SUBSET Nat, some # {}
    PROVE  \E m \in some : \A n \in some : m <= n
<1> DEFINE below == {1..n : n \in some}
<1>1. below \subseteq FiniteSubsetsOf(Nat) /\ below # {}
  <2>1. \A n \in some : 1..n \in SUBSET Nat
    OBVIOUS
  <2>2. \A n \in some : IsFiniteSet(1..n)
    BY FS_Interval
  <2> QED
    BY <2>1, <2>2 DEF FiniteSubsetsOf
<1>2. PICK x \in below : \A y \in below : <<y, x>> \notin StrictSubsetOrdering(Nat)
  <2> HIDE DEF below
  <2>1. IsWellFoundedOn(StrictSubsetOrdering(Nat), FiniteSubsetsOf(Nat))
    BY FS_StrictSubsetOrderingWellFounded
  <2> QED
    BY <1>1, <2>1, WFMin
<1>3. PICK m \in some : x = 1..m
  BY <1>2
<1>4. ASSUME NEW n \in some, n < m
      PROVE  FALSE
  <2>1. <<1..n, 1..m>> \notin StrictSubsetOrdering(Nat)
    BY <1>2, <1>3
  <2>2. 1..n \subseteq 1..m /\ m \in 1..m /\ m \notin 1..n
    BY <1>4
  <2>3. 1..n \in SUBSET Nat /\ 1..m \in SUBSET Nat
    OBVIOUS
  <2> QED
    BY <2>1, <2>2, <2>3 DEF StrictSubsetOrdering
<1> QED
  BY <1>3, <1>4

LEMMA EndTyped ==
    ASSUME BackfillAssumption, NEW bounds \in Scope, NEW from \in Period(bounds)
    PROVE  /\ bounds.last \in Nat /\ bounds.last > 0
           /\ End(bounds, from) \in Period(bounds) /\ from <= End(bounds, from)
<1>1. bounds.last \in Nat \ {0} /\ bounds.size \in Nat \ {0}
  BY DEF BackfillAssumption
<1> QED
  BY <1>1 DEF End, Period

\* The recursion defines something: from the last day backwards, a function
\* that satisfies it from a day on is changed to satisfy it from the day before.
LEMMA CutExists ==
    ASSUME BackfillAssumption, NEW bounds \in Scope
    PROVE  \E cut : IsCut(bounds, cut)
<1> DEFINE Days == 1..bounds.last + 1
           From(cut, n) == /\ cut = [d \in Days |-> cut[d]]
                           /\ \A d \in n..bounds.last + 1 : cut[d] = CutFrom(bounds, cut, d)
           good == {n \in Days : \E cut : From(cut, n)}
<1>1. bounds.last \in Nat /\ bounds.last > 0
  BY DEF BackfillAssumption
<1>2. bounds.last + 1 \in good
  <2> DEFINE empty == [d \in Days |-> <<>>]
  <2>1. empty[bounds.last + 1] = CutFrom(bounds, empty, bounds.last + 1)
    BY <1>1 DEF CutFrom
  <2> QED
    BY <1>1, <2>1
<1>3. PICK n \in good : \A m \in good : n <= m
  <2>1. good \in SUBSET Nat
    BY <1>1
  <2> HIDE DEF good
  <2> QED
    BY <1>2, <2>1, NatMin
<1>4. PICK cut : From(cut, n)
  BY <1>3
<1>5. CASE n = 1
  <2>1. \A d \in Days : cut[d] = CutFrom(bounds, cut, d)
    BY <1>4, <1>5
  <2>2. cut = [d \in Days |-> cut[d]]
    BY <1>4
  <2>3. cut = [d \in Days |-> CutFrom(bounds, cut, d)]
    BY <2>1, <2>2
  <2> QED
    BY <2>3 DEF IsCut
<1>6. CASE n # 1
  <2> DEFINE p == n - 1
             more == [d \in Days |-> IF d = p THEN CutFrom(bounds, cut, p) ELSE cut[d]]
  <2>1. p \in Period(bounds) /\ p \in Days /\ n \in Days
    BY <1>1, <1>3, <1>6 DEF Period
  <2>2. ASSUME NEW d \in p..bounds.last + 1
        PROVE  more[d] = CutFrom(bounds, more, d)
    <3>1. CutFrom(bounds, more, d) = CutFrom(bounds, cut, d)
      <4>1. CASE d > bounds.last
        BY <4>1 DEF CutFrom
      <4>2. CASE ~(d > bounds.last)
        <5>1. d \in Period(bounds)
          BY <1>1, <2>1, <4>2 DEF Period
        <5>2. End(bounds, d) \in Period(bounds) /\ d <= End(bounds, d)
          BY <5>1, EndTyped
        <5>3. End(bounds, d) + 1 \in Days /\ End(bounds, d) + 1 # p
          BY <1>1, <2>1, <5>1, <5>2 DEF Period
        <5>4. more[End(bounds, d) + 1] = cut[End(bounds, d) + 1]
          BY <5>3
        <5> QED
          BY <5>4 DEF CutFrom
      <4> QED
        BY <4>1, <4>2
    <3>2. d \in Days
      BY <1>1, <2>1
    <3>3. CASE d = p
      BY <3>1, <3>2, <3>3
    <3>4. CASE d # p
      <4>1. d \in n..bounds.last + 1
        BY <1>1, <2>1, <3>4
      <4> QED
        BY <1>4, <3>1, <3>2, <3>4, <4>1
    <3> QED
      BY <3>3, <3>4
  <2>3. From(more, p)
    <3>1. more = [d \in Days |-> more[d]]
      OBVIOUS
    <3> HIDE DEF more
    <3> QED
      BY <2>2, <3>1
  <2>4. p \in good
    BY <2>1, <2>3
  <2> QED
    BY <1>3, <2>1, <2>4
<1> QED
  BY <1>5, <1>6

\* A longest period without a cover would leave, after its first piece, a
\* shorter one: there is none.
LEMMA CutCovers ==
    ASSUME BackfillAssumption, NEW bounds \in Scope, NEW cut, IsCut(bounds, cut),
           NEW from \in Period(bounds)
    PROVE  Covers(bounds, cut[from], from)
<1> DEFINE bad == {n \in Nat : \E d \in Period(bounds) :
                       n = bounds.last - d /\ ~Covers(bounds, cut[d], d)}
<1>1. bounds.last \in Nat /\ bounds.last > 0
  BY DEF BackfillAssumption
<1>2. ASSUME bad # {}
      PROVE  FALSE
  <2>1. PICK n \in bad : \A m \in bad : n <= m
    <3>1. bad \in SUBSET Nat
      OBVIOUS
    <3> HIDE DEF bad
    <3> QED
      BY <1>2, <3>1, NatMin
  <2>2. PICK d \in Period(bounds) : n = bounds.last - d /\ ~Covers(bounds, cut[d], d)
    BY <2>1
  <2> DEFINE e == End(bounds, d)
             first == [from |-> d, to |-> e]
             later == cut[e + 1]
  <2>3. e \in Period(bounds) /\ d <= e /\ d \in Nat /\ e \in Nat
    BY <2>2, EndTyped DEF Period
  <2>4. cut[d] = <<first>> \o later
    <3>1. d \in 1..bounds.last + 1 /\ ~(d > bounds.last)
      BY <1>1, <2>2 DEF Period
    <3> QED
      BY <3>1 DEF IsCut, CutFrom
  <2>5. first \in Piece(bounds)
    BY <2>2, <2>3 DEF Piece
  <2>6. CASE e = bounds.last
    <3>1. e + 1 \in 1..bounds.last + 1 /\ e + 1 > bounds.last
      BY <1>1, <2>6
    <3>2. later = <<>>
      BY <3>1 DEF IsCut, CutFrom
    <3>3. cut[d] = <<first>>
      BY <2>4, <3>2
    <3>4. Covers(bounds, <<first>>, d)
      BY <2>5, <2>6 DEF Covers
    <3> QED
      BY <2>2, <3>3, <3>4
  <2>7. CASE e # bounds.last
    <3>1. e + 1 \in Period(bounds) /\ bounds.last - (e + 1) < n /\ bounds.last - (e + 1) \in Nat
      BY <1>1, <2>2, <2>3, <2>7 DEF Period
    <3>2. Covers(bounds, later, e + 1)
      BY <2>1, <3>1
    <3> HIDE DEF later
    <3>3. later \in Seq(Piece(bounds)) /\ later # <<>> /\ Len(later) \in Nat /\ Len(later) > 0
      BY <3>2 DEF Covers
    <3>4. <<first>> \o later \in Seq(Piece(bounds)) /\ Len(<<first>> \o later) = Len(later) + 1
      BY <2>5, <3>3
    <3>5. /\ (<<first>> \o later)[1] = first
          /\ \A i \in 1..Len(later) : (<<first>> \o later)[i + 1] = later[i]
      BY <2>5, <3>3
    <3>6. ASSUME NEW i \in 1..Len(<<first>> \o later) - 1
          PROVE  (<<first>> \o later)[i + 1].from = (<<first>> \o later)[i].to + 1
      <4>1. CASE i = 1
        BY <3>2, <3>3, <3>5, <4>1 DEF Covers
      <4>2. CASE i # 1
        <5>1. i \in 1..Len(later) /\ i - 1 \in 1..Len(later) - 1 /\ i = (i - 1) + 1
          BY <3>3, <3>4, <4>2
        <5>2. /\ (<<first>> \o later)[i + 1] = later[i]
              /\ (<<first>> \o later)[i] = later[i - 1]
          BY <3>5, <5>1
        <5>3. later[i].from = later[i - 1].to + 1
          BY <3>2, <5>1 DEF Covers
        <5> QED
          BY <5>2, <5>3
      <4> QED
        BY <4>1, <4>2
    <3>7. (<<first>> \o later)[Len(<<first>> \o later)].to = bounds.last
      <4>1. (<<first>> \o later)[Len(later) + 1] = later[Len(later)]
        BY <3>3, <3>5
      <4> QED
        BY <3>2, <3>4, <4>1 DEF Covers
    <3>8. Covers(bounds, <<first>> \o later, d)
      <4>1. (<<first>> \o later)[1].from = d /\ <<first>> \o later # <<>>
        BY <3>3, <3>4, <3>5
      <4> QED
        BY <3>4, <3>6, <3>7, <4>1 DEF Covers
    <3> QED
      BY <2>2, <2>4, <3>8 DEF later
  <2> QED
    BY <2>6, <2>7
<1>3. CASE ~Covers(bounds, cut[from], from)
  <2>1. bounds.last - from \in bad
    BY <1>1, <1>3 DEF Period
  <2> QED
    BY <1>2, <2>1
<1> QED
  BY <1>3

\* The chunks of the program cover the period from its first day.
LEMMA ChunksCover ==
    ASSUME BackfillAssumption, NEW bounds \in Scope
    PROVE  Covers(bounds, ChunksOf[bounds], 1)
<1> DEFINE cut == CHOOSE f : IsCut(bounds, f)
<1>1. IsCut(bounds, cut)
  BY CutExists
<1>2. ChunksOf[bounds] = cut[1]
  BY DEF ChunksOf, IsCut, CutFrom, End
<1>3. 1 \in Period(bounds)
  BY DEF BackfillAssumption, Period
<1> QED
  BY <1>1, <1>2, <1>3, CutCovers
------------------------------------------------------------------------------
(* The invariant: a chunk is asked for only when every day before it has     *)
(* been answered.                                                            *)

Commands == {ChunkPayload(index) : index \in DOMAIN Chunks}
Step == {"idle", "collect", "query", "progress", "next", "ends", "limited", "failed"}

Before(m, days) == 1..m.from - 1 \subseteq days
During(m, days) == m.from..m.to \subseteq days

RowsInv ==
    /\ parent \in RunStatus \cup {None} /\ final \in RunStatus \cup {None}
    /\ CompleteIsCovered

ChunkInv ==
    /\ chunk \in [DOMAIN Chunks -> RunStatus \cup {None}]
    /\ \A i \in DOMAIN Chunks : chunk[i] = "SUCCESS" => During(ChunkPayload(i), queried)

MessagesInv == messages \subseteq Commands /\ \A m \in messages : Before(m, queried)

\* An execution has a chunk whose turn it is, and reports it and sends the next
\* when the days of its own are answered.
ExecutionOK(c, commands, days) ==
    c.step # "idle" =>
        /\ c.message \in commands /\ Before(c.message, days)
        /\ c.step \in {"progress", "next"} => During(c.message, days)

ExecutionsInv ==
    /\ collector \in [Worker -> [step: Step, message: Commands \cup {None}]]
    /\ \A w \in Worker : ExecutionOK(collector[w], Commands, queried)

IInv ==
    /\ scope \in Scope /\ queried \subseteq 1..scope.last
    /\ RowsInv /\ ChunkInv /\ MessagesInv /\ ExecutionsInv

LEMMA ChunkFacts ==
    ASSUME BackfillAssumption, scope \in Scope
    PROVE  /\ \A i \in DOMAIN Chunks :
                 /\ ChunkPayload(i).index = i
                 /\ ChunkPayload(i).from \in 1..scope.last
                 /\ ChunkPayload(i).to \in 1..scope.last
                 /\ IsLast(i) => ChunkPayload(i).to = scope.last
                 /\ ~IsLast(i) => /\ i + 1 \in DOMAIN Chunks
                                  /\ ChunkPayload(i + 1).from = ChunkPayload(i).to + 1
           /\ 1 \in DOMAIN Chunks /\ ChunkPayload(1).from = 1
           /\ scope.last \in Nat
<1>1. Covers(scope, Chunks, 1)
  BY ChunksCover DEF Chunks
<1>2. /\ Chunks \in Seq(Piece(scope)) /\ Len(Chunks) \in Nat /\ Len(Chunks) > 0
      /\ DOMAIN Chunks = 1..Len(Chunks)
      /\ \A i \in DOMAIN Chunks : Chunks[i] \in Piece(scope)
  BY <1>1 DEF Covers
<1>3. ASSUME NEW i \in DOMAIN Chunks
      PROVE  /\ ChunkPayload(i).index = i
             /\ ChunkPayload(i).from \in 1..scope.last
             /\ ChunkPayload(i).to \in 1..scope.last
  BY <1>2 DEF ChunkPayload, Piece, Period
<1>4. ASSUME NEW i \in DOMAIN Chunks, IsLast(i)
      PROVE  ChunkPayload(i).to = scope.last
  <2>1. i = Len(Chunks)
    BY <1>2, <1>4 DEF IsLast
  <2> QED
    BY <1>1, <2>1 DEF Covers, ChunkPayload
<1>5. ASSUME NEW i \in DOMAIN Chunks, ~IsLast(i)
      PROVE  i + 1 \in DOMAIN Chunks /\ ChunkPayload(i + 1).from = ChunkPayload(i).to + 1
  <2>1. i \in 1..Len(Chunks) - 1 /\ i + 1 \in DOMAIN Chunks
    BY <1>2, <1>5 DEF IsLast
  <2> QED
    BY <1>1, <2>1 DEF Covers, ChunkPayload
<1>6. 1 \in DOMAIN Chunks /\ ChunkPayload(1).from = 1
  BY <1>1, <1>2 DEF Covers, ChunkPayload
<1> QED
  BY <1>3, <1>4, <1>5, <1>6 DEF BackfillAssumption

\* What an answer for more days, and steps elsewhere, leave true.
LEMMA Frames ==
    ASSUME IInv, scope' = scope, queried \subseteq queried'
    PROVE  /\ Chunks' = Chunks /\ Commands' = Commands
           /\ \A i : ChunkPayload(i)' = ChunkPayload(i)
           /\ parent' = parent /\ final' = final => RowsInv'
           /\ chunk' = chunk => ChunkInv'
           /\ messages' \subseteq messages => MessagesInv'
           /\ collector' = collector => ExecutionsInv'
           /\ \A w \in Worker : \A c \in [step: Step, message: Commands \cup {None}] :
                 /\ collector' = [collector EXCEPT ![w] = c]
                 /\ ExecutionOK(c, Commands, queried')
                 => ExecutionsInv'
<1>1. Chunks' = Chunks /\ \A i : ChunkPayload(i)' = ChunkPayload(i)
  BY DEF Chunks, ChunkPayload
<1>2. Commands' = Commands
  BY <1>1 DEF Commands
<1>3. \A c : ExecutionOK(c, Commands, queried) => ExecutionOK(c, Commands, queried')
  BY DEF ExecutionOK, Before, During
<1>4. parent' = parent /\ final' = final => RowsInv'
  BY DEF IInv, RowsInv, CompleteIsCovered
<1>5. chunk' = chunk => ChunkInv'
  BY <1>1 DEF IInv, ChunkInv, During
<1>6. messages' \subseteq messages => MessagesInv'
  BY <1>2 DEF IInv, MessagesInv, Before
<1>7. collector' = collector => ExecutionsInv'
  BY <1>2, <1>3 DEF IInv, ExecutionsInv
<1>8. ASSUME NEW w \in Worker, NEW c \in [step: Step, message: Commands \cup {None}],
             collector' = [collector EXCEPT ![w] = c], ExecutionOK(c, Commands, queried')
      PROVE  ExecutionsInv'
  <2>1. collector' \in [Worker -> [step: Step, message: Commands \cup {None}]]
    BY <1>8 DEF IInv, ExecutionsInv
  <2>2. \A v \in Worker : collector'[v] = IF v = w THEN c ELSE collector[v]
    BY <1>8 DEF IInv, ExecutionsInv
  <2> QED
    BY <1>2, <1>3, <1>8, <2>1, <2>2 DEF IInv, ExecutionsInv
<1> QED
  BY <1>1, <1>2, <1>4, <1>5, <1>6, <1>7, <1>8

LEMMA Holds ==
    ASSUME IInv, NEW w \in Worker, ~At(w, "idle")
    PROVE  /\ Message(w) \in Commands /\ Before(Message(w), queried)
           /\ At(w, "progress") \/ At(w, "next") => During(Message(w), queried)
           /\ \E i \in DOMAIN Chunks : Message(w) = ChunkPayload(i)
BY DEF IInv, ExecutionsInv, ExecutionOK, At, Message, Commands

LEMMA GoesOn ==
    ASSUME IInv, scope' = scope, queried \subseteq queried', NEW w \in Worker, ~At(w, "idle"),
           NEW step \in Step, Goes(w, step),
           step \in {"progress", "next"} => During(Message(w), queried')
    PROVE  ExecutionsInv'
<1> DEFINE c == [step |-> step, message |-> Message(w)]
<1>1. collector[w] \in [step: Step, message: Commands \cup {None}] /\ Message(w) \in Commands
  BY Holds DEF IInv, ExecutionsInv
<1>2. collector' = [collector EXCEPT ![w] = c]
  <2>1. [collector[w] EXCEPT !.step = step] = c
    BY <1>1 DEF Message
  <2> QED
    BY <2>1 DEF Goes
<1>3. c \in [step: Step, message: Commands \cup {None}]
  BY <1>1
<1>4. ExecutionOK(c, Commands, queried')
  BY <1>1, Holds DEF ExecutionOK, Before
<1> HIDE DEF c
<1> QED
  BY <1>2, <1>3, <1>4, Frames

LEMMA GoesIdle ==
    ASSUME IInv, scope' = scope, queried' = queried, NEW w \in Worker,
           collector' = [collector EXCEPT ![w] = Idle]
    PROVE  ExecutionsInv'
<1>1. Idle \in [step: Step, message: Commands \cup {None}] /\ ExecutionOK(Idle, Commands, queried')
  BY DEF Idle, Step, ExecutionOK
<1> QED
  BY <1>1, Frames

\* A run row that is written, or not, with anything but SUCCESS.
LEMMA ParentWritten ==
    ASSUME IInv, scope' = scope, queried' = queried, final' = final,
           NEW status \in RunStatus, parent' \in Written(parent, status),
           status = "SUCCESS" => 1..scope.last \subseteq queried
    PROVE  RowsInv'
BY DEF IInv, RowsInv, CompleteIsCovered, Written

LEMMA ChunkWritten ==
    ASSUME BackfillAssumption, IInv, scope' = scope, queried \subseteq queried', NEW w \in Worker,
           ~At(w, "idle"), NEW status \in RunStatus,
           chunk' \in {chunk, [chunk EXCEPT ![Message(w).index] = status]},
           status = "SUCCESS" => During(Message(w), queried')
    PROVE  ChunkInv'
<1>1. PICK k \in DOMAIN Chunks : Message(w) = ChunkPayload(k)
  BY Holds
<1>2. Message(w).index = k
  BY <1>1, ChunkFacts DEF IInv
<1>3. CASE chunk' = chunk
  BY <1>3, Frames
<1>4. CASE chunk' = [chunk EXCEPT ![k] = status]
  <2>1. chunk' \in [DOMAIN Chunks -> RunStatus \cup {None}]
    BY <1>4 DEF IInv, ChunkInv
  <2>2. ASSUME NEW i \in DOMAIN Chunks, chunk'[i] = "SUCCESS"
        PROVE  During(ChunkPayload(i), queried')
    <3>1. CASE i = k
      BY <1>1, <1>4, <2>2, <3>1 DEF IInv, ChunkInv
    <3>2. CASE i # k
      <4>1. chunk[i] = "SUCCESS"
        BY <1>4, <2>2, <3>2 DEF IInv, ChunkInv
      <4> QED
        BY <4>1 DEF IInv, ChunkInv, During
    <3> QED
      BY <3>1, <3>2
  <2> QED
    BY <2>1, <2>2, Frames DEF ChunkInv
<1> QED
  BY <1>2, <1>3, <1>4

\* A chunk is sent when every day before it is answered.
LEMMA ChunkSent ==
    ASSUME IInv, scope' = scope, queried' = queried, NEW i \in DOMAIN Chunks,
           Before(ChunkPayload(i), queried), messages' \subseteq messages \cup {ChunkPayload(i)}
    PROVE  MessagesInv'
<1>1. ChunkPayload(i) \in Commands
  BY DEF Commands
<1> QED
  BY <1>1, Frames DEF IInv, MessagesInv
------------------------------------------------------------------------------
(* One lemma for the requests, and one for what an execution does. *)

LEMMA RequestsKeep ==
    ASSUME BackfillAssumption, IInv, StartBackfill \/ SendFirstChunk \/ FirstChunkFails \/ Recalculate
    PROVE  IInv'
<1> USE DEF RunStatus
<1>1. 1 \in DOMAIN Chunks /\ Before(ChunkPayload(1), queried)
  BY ChunkFacts DEF IInv, Before
<1>2. CASE StartBackfill
  BY <1>2, Frames, ParentWritten DEF IInv, StartBackfill
<1>3. CASE SendFirstChunk
  BY <1>1, <1>3, Frames, ChunkSent DEF IInv, SendFirstChunk
<1>4. CASE FirstChunkFails
  <2>1. messages' \subseteq messages \cup {ChunkPayload(1)}
    BY <1>4 DEF FirstChunkFails
  <2> QED
    BY <1>1, <1>4, <2>1, Frames, ChunkSent, ParentWritten DEF IInv, FirstChunkFails
<1>5. CASE Recalculate
  <2>1. RowsInv'
    BY <1>5 DEF Recalculate, IInv, RowsInv, CompleteIsCovered, Written
  <2> QED
    BY <1>5, <2>1, Frames DEF IInv, Recalculate
<1> QED
  BY <1>2, <1>3, <1>4, <1>5

LEMMA ReceiveKeeps ==
    ASSUME BackfillAssumption, IInv, NEW w \in Worker, NEW m \in messages, Receive(w, m)
    PROVE  IInv'
<1> DEFINE c == [step |-> IF AlreadyCollected(m.index) THEN "progress" ELSE "collect", message |-> m]
<1>1. m \in Commands /\ Before(m, queried)
  BY DEF IInv, MessagesInv
<1>2. PICK i \in DOMAIN Chunks : m = ChunkPayload(i)
  BY <1>1 DEF Commands
<1>3. m.index = i
  BY <1>2, ChunkFacts DEF IInv
<1>4. AlreadyCollected(m.index) => During(m, queried)
  BY <1>2, <1>3 DEF IInv, ChunkInv, AlreadyCollected
<1>5. c \in [step: Step, message: Commands \cup {None}]
  BY <1>1 DEF Step
<1>6. ExecutionOK(c, Commands, queried)
  BY <1>1, <1>4 DEF ExecutionOK
<1>7. collector' = [collector EXCEPT ![w] = c] /\ UNCHANGED <<scope, parent, chunk, final, messages, queried>>
  BY DEF Receive
<1> HIDE DEF c
<1> QED
  BY <1>5, <1>6, <1>7, Frames DEF IInv

LEMMA CollectKeeps ==
    ASSUME BackfillAssumption, IInv, NEW w \in Worker,
           \/ CollectStarts(w) \/ CollectSucceeds(w)
           \/ \E why \in {"limited", "failed"} : CollectFails(w, why)
    PROVE  IInv'
<1> USE DEF RunStatus, Step
<1>1. CASE CollectStarts(w)
  <2>1. ~At(w, "idle") /\ Goes(w, "query") /\ UNCHANGED <<scope, parent, final, messages, queried>>
        /\ chunk' \in {chunk, [chunk EXCEPT ![Message(w).index] = "RUNNING"]}
    BY <1>1 DEF CollectStarts, At
  <2> QED
    BY <2>1, GoesOn, ChunkWritten, Frames DEF IInv
<1>2. CASE CollectSucceeds(w)
  <2>1. ~At(w, "idle") /\ Goes(w, "progress") /\ UNCHANGED <<scope, parent, final, messages>>
        /\ chunk' \in {chunk, [chunk EXCEPT ![Message(w).index] = "SUCCESS"]}
        /\ queried' = queried \cup (Message(w).from .. Message(w).to)
    BY <1>2 DEF CollectSucceeds, At
  <2>2. queried \subseteq queried' /\ During(Message(w), queried')
    BY <2>1 DEF During
  <2>3. queried' \subseteq 1..scope'.last
    <3>1. PICK i \in DOMAIN Chunks : Message(w) = ChunkPayload(i)
      BY <2>1, Holds
    <3>2. /\ Message(w).from \in 1..scope.last /\ Message(w).to \in 1..scope.last
          /\ scope.last \in Nat
      BY <3>1, ChunkFacts DEF IInv
    <3>3. Message(w).from .. Message(w).to \subseteq 1..scope.last
      BY <3>2
    <3>4. queried \subseteq 1..scope.last /\ scope' = scope
      BY <2>1 DEF IInv
    <3> QED
      BY <2>1, <3>3, <3>4
  <2>4. ExecutionsInv'
    BY <2>1, <2>2, GoesOn
  <2>5. ChunkInv'
    BY <2>1, <2>2, ChunkWritten
  <2> QED
    BY <2>1, <2>2, <2>3, <2>4, <2>5, Frames DEF IInv
<1>3. CASE \E why \in {"limited", "failed"} : CollectFails(w, why)
  <2>1. PICK why \in {"limited", "failed"} : CollectFails(w, why)
    BY <1>3
  <2>2. ~At(w, "idle") /\ Goes(w, why) /\ UNCHANGED <<scope, parent, final, messages, queried>>
        /\ chunk' \in {chunk, [chunk EXCEPT ![Message(w).index] = "FAILED"]}
    BY <2>1 DEF CollectFails, At
  <2>3. ExecutionsInv'
    BY <2>2, GoesOn
  <2> QED
    BY <2>2, <2>3, ChunkWritten, Frames DEF IInv
<1> QED
  BY <1>1, <1>2, <1>3

LEMMA ProgressKeeps ==
    ASSUME BackfillAssumption, IInv, NEW w \in Worker,
           UpdateRunProgress(w) \/ SendNext(w) \/ SendNextFails(w) \/ FinishBackfill(w)
    PROVE  IInv'
<1> USE DEF RunStatus, Step
<1>1. ~At(w, "idle") /\ During(Message(w), queried) /\ Before(Message(w), queried)
  <2>1. At(w, "progress") \/ At(w, "next")
    BY DEF UpdateRunProgress, SendNext, SendNextFails, FinishBackfill
  <2> QED
    BY <2>1, Holds DEF At
<1>2. PICK i \in DOMAIN Chunks : Message(w) = ChunkPayload(i)
  BY <1>1, Holds
<1>3. /\ Message(w).index = i /\ scope.last \in Nat
      /\ Message(w).from \in 1..scope.last /\ Message(w).to \in 1..scope.last
      /\ IsLast(i) => Message(w).to = scope.last
      /\ ~IsLast(i) => /\ i + 1 \in DOMAIN Chunks
                       /\ ChunkPayload(i + 1).from = Message(w).to + 1
  BY <1>2, ChunkFacts DEF IInv
<1>4. 1..Message(w).to \subseteq queried
  <2>1. ASSUME NEW d \in 1..Message(w).to
        PROVE  d \in queried
    <3>1. CASE d < Message(w).from
      <4>1. d \in 1..Message(w).from - 1
        BY <1>3, <2>1, <3>1
      <4> QED
        BY <1>1, <4>1 DEF Before
    <3>2. CASE ~(d < Message(w).from)
      <4>1. d \in Message(w).from..Message(w).to
        BY <1>3, <2>1, <3>2
      <4> QED
        BY <1>1, <4>1 DEF During
    <3> QED
      BY <3>1, <3>2
  <2> QED
    BY <2>1
<1>5. CASE UpdateRunProgress(w)
  <2>1. ExecutionsInv'
    BY <1>1, <1>5, GoesOn DEF UpdateRunProgress
  <2> QED
    BY <1>5, <2>1, ParentWritten, Frames DEF IInv, UpdateRunProgress
<1>6. CASE SendNext(w) \/ SendNextFails(w)
  <2>1. ~IsLast(i) /\ messages' \subseteq messages \cup {ChunkPayload(i + 1)}
    BY <1>3, <1>6 DEF SendNext, SendNextFails
  <2>2. Before(ChunkPayload(i + 1), queried)
    <3>1. ChunkPayload(i + 1).from - 1 = Message(w).to
      BY <1>3, <2>1
    <3> QED
      BY <1>4, <3>1 DEF Before
  <2>3. UNCHANGED <<scope, parent, chunk, final, queried>>
    BY <1>6 DEF SendNext, SendNextFails
  <2>4. MessagesInv'
    BY <1>3, <2>1, <2>2, <2>3, ChunkSent
  <2>5. ExecutionsInv'
    BY <1>1, <1>6, <2>3, GoesOn DEF SendNext, SendNextFails
  <2> QED
    BY <2>3, <2>4, <2>5, Frames DEF IInv
<1>7. CASE FinishBackfill(w)
  <2>1. Message(w).to = scope.last
    BY <1>3, <1>7 DEF FinishBackfill
  <2>2. RowsInv'
    BY <1>4, <1>7, <2>1, ParentWritten DEF FinishBackfill
  <2>3. ExecutionsInv'
    BY <1>1, <1>7, GoesOn DEF FinishBackfill
  <2> QED
    BY <1>7, <2>2, <2>3, Frames DEF IInv, FinishBackfill
<1> QED
  BY <1>5, <1>6, <1>7

LEMMA EndsKeep ==
    ASSUME IInv, NEW w \in Worker, FinishFailed(w) \/ Ends(w) \/ Stops(w)
    PROVE  IInv'
<1> USE DEF RunStatus, Step
<1>1. CASE FinishFailed(w)
  <2>1. ~At(w, "idle") /\ UNCHANGED <<scope, chunk, final, messages, queried>>
    BY <1>1 DEF FinishFailed, At
  <2>2. ExecutionsInv'
    BY <1>1, <2>1, GoesOn, GoesIdle DEF FinishFailed
  <2> QED
    BY <1>1, <2>1, <2>2, ParentWritten, Frames DEF IInv, FinishFailed
<1>2. CASE Ends(w)
  <2>1. messages' \subseteq messages
    BY <1>2 DEF Ends
  <2> QED
    BY <1>2, <2>1, GoesIdle, Frames DEF IInv, Ends
<1>3. CASE Stops(w)
  BY <1>3, GoesIdle, Frames DEF IInv, Stops
<1> QED
  BY <1>1, <1>2, <1>3

LEMMA GivesUpKeeps ==
    ASSUME IInv, NEW m \in messages, GivesUp(m)
    PROVE  IInv'
<1>1. messages' \subseteq messages
  BY DEF GivesUp
<1> QED
  BY <1>1, Frames DEF IInv, GivesUp
------------------------------------------------------------------------------
LEMMA InitInv ==
    ASSUME BackfillAssumption, Init
    PROVE  IInv
<1> USE DEF Init
<1>1. None # "SUCCESS"
  BY DEF BackfillAssumption, RunStatus
<1>2. RowsInv
  BY <1>1 DEF RowsInv, CompleteIsCovered
<1>3. ChunkInv
  BY <1>1 DEF ChunkInv
<1>4. ExecutionsInv
  BY DEF ExecutionsInv, Idle, ExecutionOK, Step
<1> QED
  BY <1>2, <1>3, <1>4 DEF IInv, MessagesInv

LEMMA NextInv ==
    ASSUME BackfillAssumption, IInv, [Next]_vars
    PROVE  IInv'
<1>1. CASE UNCHANGED vars
  BY <1>1, Frames DEF IInv, vars
<1>2. CASE StartBackfill \/ SendFirstChunk \/ FirstChunkFails \/ Recalculate
  BY <1>2, RequestsKeep
<1>3. CASE \E m \in messages : GivesUp(m)
  BY <1>3, GivesUpKeeps
<1>4. ASSUME NEW w \in Worker,
             \/ \E m \in messages : Receive(w, m)
             \/ CollectStarts(w) \/ CollectSucceeds(w)
             \/ \E why \in {"limited", "failed"} : CollectFails(w, why)
             \/ UpdateRunProgress(w) \/ SendNext(w) \/ SendNextFails(w) \/ FinishBackfill(w)
             \/ FinishFailed(w) \/ Ends(w) \/ Stops(w)
      PROVE  IInv'
  BY <1>4, ReceiveKeeps, CollectKeeps, ProgressKeeps, EndsKeep
<1> QED
  BY <1>1, <1>2, <1>3, <1>4 DEF Next

\* A chunk is asked for, and its SUCCESS written, only when every day before it
\* has been answered.
THEOREM Invariance ==
    ASSUME BackfillAssumption
    PROVE  Spec => []IInv
<1>1. Init => IInv
  BY InitInv
<1>2. IInv /\ [Next]_vars => IInv'
  BY NextInv
<1> QED
  BY <1>1, <1>2, PTL DEF Spec

\* The run rows, chunks and executions have their types.
THEOREM TypeCorrect ==
    ASSUME BackfillAssumption
    PROVE  Spec => []TypeOK
<1>1. IInv => TypeOK
  <2> SUFFICES ASSUME IInv
               PROVE  TypeOK
    OBVIOUS
  <2>1. \A w \in Worker : ~At(w, "idle") => Message(w) \in Commands
    BY Holds
  <2> QED
    BY <2>1 DEF IInv, TypeOK, RowsInv, ChunkInv, MessagesInv, Commands
<1> QED
  BY <1>1, Invariance, PTL

\* The chunks cover the period without a gap and each is sent by the one before
\* it, so that the row planning_backfill, and what is recalculated from it, says
\* SUCCESS only when the provider has answered for every day.
THEOREM CompleteCovers ==
    ASSUME BackfillAssumption
    PROVE  Spec => []CompleteIsCovered
<1>1. IInv => CompleteIsCovered
  BY DEF IInv, RowsInv
<1> QED
  BY <1>1, Invariance, PTL
================================================================================
