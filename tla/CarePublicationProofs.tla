------------------------ MODULE CarePublicationProofs ------------------------
(***************************************************************************)
(* The safety properties of CarePublication, for any number of             *)
(* opportunities, executions, failures, changes and any batch limit.       *)
(***************************************************************************)
EXTENDS CarePublication, FiniteSetTheorems, WellFoundedInduction, TLAPS

\* What is always true of one execution: a batch in progress has no items yet,
\* but for the opportunity whose COMMIT was taken for a failure, and the items
\* say what was changed.
Sound(j) ==
    /\ j.step \in {"idle", "selecting"} =>
          j.batch = {} /\ j.changed = {} /\ j.items = NoItems
    /\ j.step \in {"updating", "failing"} => j.batch # {}
    /\ \A o \in j.batch :
          j.items[o] = "none" \/ (j.step = "failing" /\ o = Min(j.batch))
    /\ \A o \in Opportunity : o \in j.changed <=> j.items[o] \in Done

\* Executions that may still fail o.
Holding(k, o) == {r \in Runner : TaskOf(r) = k /\ o \in runner[r].batch}

\* What the executions that hold o may add to its failures is accounted for.
Bounded ==
    \A k \in Task, o \in Opportunity :
        failures[k][o] + Cardinality(Holding(k, o))
            <= FailureLimit - 1 + Cardinality(Runner)

\* The inductive invariant.
IInv ==
    /\ TypeOK
    /\ \A r \in Runner : Sound(runner[r])
    /\ Bounded
-----------------------------------------------------------------------------
Less == {ss \in Nat \X Nat : ss[1] < ss[2]}

\* The loop has a current opportunity while its batch is not empty: the
\* natural numbers are well founded.
LEMMA MinFacts ==
    ASSUME NEW S \in SUBSET Nat, S # {}
    PROVE  Min(S) \in S
<1>1. IsWellFoundedOn(Less, Nat)
  BY NatLessThanWellFounded DEF OpToRel, Less
<1>2. PICK m \in S : \A y \in S : <<y, m>> \notin Less
  BY <1>1, WFMin
<1>3. \A y \in Nat : <<y, m>> \in Less <=> y < m
  BY DEF Less
<1>4. ASSUME NEW y \in S PROVE m <= y
  <2>1. y \in Nat /\ m \in Nat
    OBVIOUS
  <2>2. ~(y < m)
    BY <1>2, <1>3, <2>1
  <2> QED
    BY <2>1, <2>2
<1> QED
  BY <1>4 DEF Min

\* One execution that stays sound keeps all sound, and the failures within
\* their bound when it holds nothing that it did not hold before.
LEMMA RunnerKeeps ==
    ASSUME IInv, NEW r \in Runner, NEW j \in Execution, Sound(j),
           runner' = [runner EXCEPT ![r] = j]
    PROVE  /\ runner' \in [Runner -> Execution]
           /\ (\A q \in Runner : Sound(runner[q]))'
<1>1. \A q \in Runner : runner'[q] = IF q = r THEN j ELSE runner[q]
  BY DEF IInv, TypeOK
<1> QED
  BY <1>1 DEF IInv, TypeOK

\* No more hold an opportunity than there are executions.
LEMMA HoldingFinite ==
    ASSUME NEW k, NEW o
    PROVE  /\ IsFiniteSet(Holding(k, o))
           /\ Cardinality(Holding(k, o)) \in Nat
           /\ Cardinality(Runner) \in Nat
           /\ Cardinality(Holding(k, o)) <= Cardinality(Runner)
BY ConstantsAssumption, FS_Subset, FS_CardinalityType DEF Holding

\* Fewer holders and the same failures.
LEMMA BoundKept ==
    ASSUME IInv, failures' = failures,
           \A k \in Task, o \in Opportunity : Holding(k, o)' \subseteq Holding(k, o)
    PROVE  Bounded'
<1> SUFFICES ASSUME NEW k \in Task, NEW o \in Opportunity
             PROVE  failures[k][o] + Cardinality(Holding(k, o)')
                        <= FailureLimit - 1 + Cardinality(Runner)
  BY DEF Bounded
<1>1. Cardinality(Holding(k, o)') \in Nat
      /\ Cardinality(Holding(k, o)') <= Cardinality(Holding(k, o))
  BY HoldingFinite, FS_Subset, FS_CardinalityType
<1>2. failures[k][o] \in Nat
  BY DEF IInv, TypeOK
<1> QED
  BY <1>1, <1>2, HoldingFinite, ConstantsAssumption DEF IInv, Bounded

\* A batch that shrinks or is dropped keeps the bound.
LEMMA SmallerBatch ==
    ASSUME IInv, failures' = failures, NEW r \in Runner, NEW j \in Execution,
           runner' = [runner EXCEPT ![r] = j],
           j.batch = {} \/ (j.task = runner[r].task /\ j.batch \subseteq runner[r].batch)
    PROVE  Bounded'
<1>1. \A q \in Runner : runner'[q] = IF q = r THEN j ELSE runner[q]
  BY DEF IInv, TypeOK
<1>2. \A k \in Task, o \in Opportunity : Holding(k, o)' \subseteq Holding(k, o)
  BY <1>1 DEF Holding, TaskOf
<1> QED
  BY <1>2, BoundKept

-----------------------------------------------------------------------------
\* Execution r becomes j, sound, and holds nothing it did not hold before.
Moves(r, j) ==
    /\ j \in Execution /\ Sound(j)
    /\ runner' = [runner EXCEPT ![r] = j]
    /\ j.batch = {} \/ (j.task = runner[r].task /\ j.batch \subseteq runner[r].batch)

\* A move keeps the invariant but for what else the step changes.
LEMMA MovesKeeps ==
    ASSUME IInv, NEW r \in Runner, \E j : Moves(r, j)
    PROVE  /\ runner' \in [Runner -> Execution]
           /\ (\A q \in Runner : Sound(runner[q]))'
           /\ failures' = failures => Bounded'
<1>1. PICK j : Moves(r, j)
  OBVIOUS
<1> QED
  BY <1>1, RunnerKeeps, SmallerBatch DEF Moves

\* What is current is in the batch, and has no item unless its COMMIT was
\* taken for a failure.
LEMMA CurrentFacts ==
    ASSUME IInv, NEW r \in Runner, runner[r].batch # {}
    PROVE  /\ Current(r) \in runner[r].batch
           /\ Current(r) \in Opportunity
           /\ ~At(r, "failing") => runner[r].items[Current(r)] = "none"
<1>1. runner[r].batch \in SUBSET Opportunity /\ Opportunity \subseteq Nat
  BY ConstantsAssumption DEF IInv, TypeOK, Execution
<1>2. Current(r) \in runner[r].batch
  BY <1>1, MinFacts DEF Current
<1> QED
  BY <1>1, <1>2 DEF IInv, Sound, At, Current

\* An item is written for the current opportunity and no other.
LEMMA ItemsFacts ==
    ASSUME IInv, NEW r \in Runner, runner[r].batch # {}, NEW i \in Item
    PROVE  /\ ItemsWith(r, i) \in [Opportunity -> Item]
           /\ \A o \in Opportunity \ {Current(r)} :
                 ItemsWith(r, i)[o] = runner[r].items[o]
           /\ ItemsWith(r, i)[Current(r)] =
                 IF runner[r].items[Current(r)] = "none" THEN i
                 ELSE runner[r].items[Current(r)]
<1>1. runner[r].items \in [Opportunity -> Item]
  BY DEF IInv, TypeOK, Execution
<1> QED
  BY <1>1, CurrentFacts DEF ItemsWith

\* Taking the next of the batch is a move.
LEMMA ProceedMoves ==
    ASSUME IInv, NEW r \in Runner, runner[r].batch # {},
           NEW i \in {"SKIPPED", "FAILED"}, Proceed(r, i)
    PROVE  \E j : Moves(r, j)
<1> DEFINE j == [runner[r] EXCEPT !.step = "looping",
                                  !.batch = @ \ {Current(r)},
                                  !.items = ItemsWith(r, i)]
<1>1. runner[r] \in Execution /\ Sound(runner[r])
  BY DEF IInv, TypeOK
<1>2. runner' = [runner EXCEPT ![r] = j]
  BY DEF Proceed
<1>3. i \in Item /\ i \notin Done
  BY DEF Item, Done
<1>4. ItemsWith(r, i) \in [Opportunity -> Item]
  BY <1>3, ItemsFacts
<1>5. /\ j.step = "looping" /\ j.task = runner[r].task
      /\ j.batch = runner[r].batch \ {Current(r)}
      /\ j.items = ItemsWith(r, i) /\ j.changed = runner[r].changed
  BY <1>1 DEF Execution
<1>6. j \in Execution
  BY <1>1, <1>4 DEF Execution
<1>7. \A o \in j.batch : j.items[o] = "none"
  BY <1>1, <1>3, <1>5, ItemsFacts DEF Sound, Current, Execution
<1>8. \A o \in Opportunity : o \in j.changed <=> j.items[o] \in Done
  <2> SUFFICES ASSUME NEW o \in Opportunity
               PROVE  o \in runner[r].changed <=> ItemsWith(r, i)[o] \in Done
    BY <1>5
  <2>1. o \in runner[r].changed <=> runner[r].items[o] \in Done
    BY <1>1 DEF Sound
  <2>2. "none" \notin Done
    BY DEF Done
  <2> QED
    BY <1>3, <2>1, <2>2, ItemsFacts
<1>9. Sound(j)
  BY <1>5, <1>7, <1>8 DEF Sound
<1> HIDE DEF j
<1> QED
  BY <1>2, <1>5, <1>6, <1>9 DEF Moves

\* The execution's side of an UPDATE that took effect, known or not.
LEMMA UpdateMoves ==
    ASSUME IInv, NEW r \in Runner, At(r, "updating"), NEW to \in {"looping", "failing"},
           NEW j,
           j = [runner[r] EXCEPT
                  !.step = to,
                  !.batch = IF to = "looping" THEN @ \ {Current(r)} ELSE @,
                  !.items = ItemsWith(r, ChangedItem(r)),
                  !.changed = @ \cup {Current(r)}],
           runner' = [runner EXCEPT ![r] = j]
    PROVE  Moves(r, j)
<1>1. runner[r] \in Execution /\ Sound(runner[r]) /\ runner[r].step = "updating"
  BY DEF IInv, TypeOK, At
<1>2. runner[r].batch # {} /\ ~At(r, "failing")
  BY <1>1 DEF Sound, At
<1>3. ChangedItem(r) \in Item /\ ChangedItem(r) \in Done /\ "none" \notin Done
  BY DEF ChangedItem, Item, Done
<1>4. ItemsWith(r, ChangedItem(r)) \in [Opportunity -> Item]
  BY <1>2, <1>3, ItemsFacts
<1>5. /\ j.step = to /\ j.task = runner[r].task
      /\ j.batch = IF to = "looping" THEN runner[r].batch \ {Current(r)}
                   ELSE runner[r].batch
      /\ j.items = ItemsWith(r, ChangedItem(r))
      /\ j.changed = runner[r].changed \cup {Current(r)}
  BY <1>1 DEF Execution
<1>6. j \in Execution
  BY <1>1, <1>2, <1>4, CurrentFacts DEF Execution
<1>7. \A o \in j.batch :
          j.items[o] = "none" \/ (j.step = "failing" /\ o = Min(j.batch))
  BY <1>1, <1>2, <1>3, <1>5, ItemsFacts DEF Sound, Current, Execution
<1>8. \A o \in Opportunity : o \in j.changed <=> j.items[o] \in Done
  <2> SUFFICES ASSUME NEW o \in Opportunity
               PROVE  o \in runner[r].changed \cup {Current(r)}
                        <=> ItemsWith(r, ChangedItem(r))[o] \in Done
    BY <1>5
  <2>1. o \in runner[r].changed <=> runner[r].items[o] \in Done
    BY <1>1 DEF Sound
  <2> QED
    BY <1>2, <1>3, <2>1, ItemsFacts, CurrentFacts
<1>9. Sound(j)
  BY <1>1, <1>2, <1>5, <1>7, <1>8 DEF Sound
<1> QED
  BY <1>5, <1>6, <1>9 DEF Moves

\* Beginning and ending drop the batch.
LEMMA IdleMoves ==
    ASSUME IInv, NEW r \in Runner, NEW j,
           j = Idle \/ \E k \in Task : j = [Idle EXCEPT !.step = "selecting", !.task = k],
           runner' = [runner EXCEPT ![r] = j]
    PROVE  Moves(r, j)
<1>1. /\ Idle.step = "idle" /\ Idle.batch = {}
      /\ Idle.items = NoItems /\ Idle.changed = {}
  BY DEF Idle
<1>2. Idle \in Execution
  BY DEF Idle, Execution, NoItems, Item, Task
<1>3. /\ j.step \in {"idle", "selecting"} /\ j.batch = {}
      /\ j.items = NoItems /\ j.changed = {} /\ j \in Execution
  <2>1. CASE j = Idle
    BY <1>1, <1>2, <2>1
  <2>2. ASSUME NEW k \in Task, j = [Idle EXCEPT !.step = "selecting", !.task = k]
        PROVE  /\ j.step = "selecting" /\ j.batch = {}
               /\ j.items = NoItems /\ j.changed = {} /\ j \in Execution
    BY <1>1, <1>2, <2>2 DEF Execution
  <2> QED
    BY <2>1, <2>2
<1>4. Sound(j)
  BY <1>3 DEF Sound, NoItems, Done
<1> QED
  BY <1>3, <1>4 DEF Moves

\* The step alone changes, to one that has a current opportunity.
LEMMA StepMoves ==
    ASSUME IInv, NEW r \in Runner, NEW step \in {"updating", "failing"},
           runner[r].batch # {}, At(r, "looping") \/ At(r, "updating"),
           runner' = [runner EXCEPT ![r].step = step]
    PROVE  \E j : Moves(r, j)
<1> DEFINE j == [runner[r] EXCEPT !.step = step]
<1>1. runner[r] \in Execution /\ Sound(runner[r])
  BY DEF IInv, TypeOK
<1>2. runner' = [runner EXCEPT ![r] = j]
  OBVIOUS
<1>3. /\ j.step = step /\ j.task = runner[r].task /\ j.batch = runner[r].batch
      /\ j.items = runner[r].items /\ j.changed = runner[r].changed
  BY <1>1 DEF Execution
<1>4. j \in Execution
  BY <1>1 DEF Execution
<1>5. Sound(j)
  BY <1>1, <1>3 DEF Sound, At
<1> HIDE DEF j
<1> QED
  BY <1>2, <1>3, <1>4, <1>5 DEF Moves
-----------------------------------------------------------------------------
\* Every step of an execution, but for selecting a batch, is such a move.
LEMMA ExecutionMoves ==
    ASSUME IInv, NEW r \in Runner,
           \/ \E k \in Task, scheduled \in BOOLEAN : Begin(r, k, scheduled)
           \/ Recheck(r) \/ Update(r) \/ UpdateUnclear(r) \/ ItemFails(r)
           \/ RecordFailed(r) \/ Finish(r) \/ Crash(r)
    PROVE  \E j : Moves(r, j)
<1>1. At(r, "updating") \/ At(r, "failing") => runner[r].batch # {}
  BY DEF IInv, Sound, At
<1>2. CASE \E k \in Task, scheduled \in BOOLEAN : Begin(r, k, scheduled)
  BY <1>2, IdleMoves DEF Begin
<1>3. CASE Recheck(r)
  <2>1. CASE Allows(TaskOf(r), Current(r))
    BY <1>3, <2>1, StepMoves DEF Recheck
  <2>2. CASE ~Allows(TaskOf(r), Current(r))
    BY <1>3, <2>2, ProceedMoves DEF Recheck
  <2> QED
    BY <2>1, <2>2
<1>4. CASE Update(r)
  <2>1. CASE Guard(TaskOf(r), Current(r))
    <3> DEFINE j == [runner[r] EXCEPT
                       !.step = "looping",
                       !.batch = IF "looping" = "looping" THEN @ \ {Current(r)} ELSE @,
                       !.items = ItemsWith(r, ChangedItem(r)),
                       !.changed = @ \cup {Current(r)}]
    <3>1. runner' = [runner EXCEPT ![r] = j]
      BY <1>4, <2>1 DEF Update
    <3>2. At(r, "updating")
      BY <1>4 DEF Update
    <3> QED
      BY <3>1, <3>2, UpdateMoves
  <2>2. CASE ~Guard(TaskOf(r), Current(r))
    BY <1>1, <1>4, <2>2, ProceedMoves DEF Update
  <2> QED
    BY <2>1, <2>2
<1>5. CASE UpdateUnclear(r)
  <2> DEFINE j == [runner[r] EXCEPT
                     !.step = "failing",
                     !.batch = IF "failing" = "looping" THEN @ \ {Current(r)} ELSE @,
                     !.items = ItemsWith(r, ChangedItem(r)),
                     !.changed = @ \cup {Current(r)}]
  <2>1. runner' = [runner EXCEPT ![r] = j]
    BY <1>5 DEF UpdateUnclear, IInv, TypeOK, Execution
  <2>2. At(r, "updating")
    BY <1>5 DEF UpdateUnclear
  <2> QED
    BY <2>1, <2>2, UpdateMoves
<1>6. CASE ItemFails(r)
  BY <1>1, <1>6, StepMoves DEF ItemFails
<1>7. CASE RecordFailed(r)
  BY <1>1, <1>7, ProceedMoves DEF RecordFailed
<1>8. CASE Finish(r) \/ Crash(r)
  BY <1>8, IdleMoves DEF Finish, Crash
<1> QED
  BY <1>2, <1>3, <1>4, <1>5, <1>6, <1>7, <1>8

\* A batch is chosen among opportunities below the failure limit.
LEMMA SelectKeeps ==
    ASSUME IInv, NEW r \in Runner, Select(r)
    PROVE  /\ runner' \in [Runner -> Execution]
           /\ (\A q \in Runner : Sound(runner[q]))'
           /\ Bounded'
<1> DEFINE chosen == FirstOf(Selectable(TaskOf(r)))
           j == [runner[r] EXCEPT !.step = "looping", !.batch = chosen]
<1>1. runner[r] \in Execution /\ Sound(runner[r]) /\ runner[r].step = "selecting"
  BY DEF IInv, TypeOK, Select, At
<1>2. chosen \subseteq Selectable(TaskOf(r)) /\ chosen \subseteq Opportunity
  BY DEF FirstOf, Selectable
<1>3. runner' = [runner EXCEPT ![r] = j] /\ failures' = failures
  BY DEF Select
<1>4. /\ j.step = "looping" /\ j.task = TaskOf(r) /\ j.batch = chosen
      /\ j.items = runner[r].items /\ j.changed = runner[r].changed
  BY <1>1 DEF Execution, TaskOf
<1>5. j \in Execution
  BY <1>1, <1>2 DEF Execution
<1>6. Sound(j)
  BY <1>1, <1>2, <1>4 DEF Sound, NoItems
<1> HIDE DEF j
<1>7. \A q \in Runner : runner'[q] = IF q = r THEN j ELSE runner[q]
  BY <1>3 DEF IInv, TypeOK
<1>8. Bounded'
  <2> SUFFICES ASSUME NEW k \in Task, NEW o \in Opportunity
               PROVE  failures[k][o] + Cardinality(Holding(k, o)')
                          <= FailureLimit - 1 + Cardinality(Runner)
    BY <1>3 DEF Bounded
  <2>1. failures[k][o] \in Nat /\ FailureLimit \in Nat
    BY ConstantsAssumption DEF IInv, TypeOK
  <2>2. /\ IsFiniteSet(Holding(k, o)) /\ Cardinality(Holding(k, o)) \in Nat
        /\ Cardinality(Runner) \in Nat
    BY HoldingFinite
  <2>3. CASE k = TaskOf(r) /\ o \in chosen
    <3>1. failures[k][o] < FailureLimit
      <4>1. ~Deferred(k, o)
        BY <1>2, <2>3 DEF Selectable
      <4> QED
        BY <2>1, <4>1 DEF Deferred
    <3>2. Holding(k, o)' \subseteq Runner
      BY DEF Holding
    <3>3. /\ Cardinality(Holding(k, o)') \in Nat
          /\ Cardinality(Holding(k, o)') <= Cardinality(Runner)
      BY <3>2, ConstantsAssumption, FS_Subset, FS_CardinalityType
    <3> QED
      BY <2>1, <2>2, <3>1, <3>3
  <2>4. CASE ~(k = TaskOf(r) /\ o \in chosen)
    <3>1. Holding(k, o)' \subseteq Holding(k, o)
      BY <1>4, <1>7, <2>4 DEF Holding, TaskOf
    <3>2. /\ Cardinality(Holding(k, o)') \in Nat
          /\ Cardinality(Holding(k, o)') <= Cardinality(Holding(k, o))
      BY <2>2, <3>1, FS_Subset, FS_CardinalityType
    <3>3. failures[k][o] + Cardinality(Holding(k, o))
             <= FailureLimit - 1 + Cardinality(Runner)
      BY DEF IInv, Bounded
    <3> QED
      BY <2>1, <2>2, <3>2, <3>3
  <2> QED
    BY <2>3, <2>4
<1> QED
  BY <1>3, <1>5, <1>6, <1>8, RunnerKeeps

\* A failure more is a holder less.
LEMMA RecordFailedKeeps ==
    ASSUME IInv, NEW r \in Runner, RecordFailed(r)
    PROVE  /\ runner' \in [Runner -> Execution]
           /\ (\A q \in Runner : Sound(runner[q]))'
           /\ failures' \in [Task -> [Opportunity -> Nat]]
           /\ recent' \subseteq Task \X Opportunity
           /\ Bounded'
<1>1. PICK j : Moves(r, j)
  BY ExecutionMoves
<1>2. runner' \in [Runner -> Execution] /\ (\A q \in Runner : Sound(runner[q]))'
  BY <1>1, MovesKeeps
<1>3. runner[r] \in Execution /\ Sound(runner[r]) /\ runner[r].step = "failing"
  BY DEF IInv, TypeOK, RecordFailed, At
<1>4. runner[r].batch # {} /\ TaskOf(r) \in Task
  BY <1>3 DEF Sound, Execution, TaskOf
<1>5. Current(r) \in runner[r].batch /\ Current(r) \in Opportunity
  BY <1>4, CurrentFacts
<1>6. CASE failures' = failures /\ recent' = recent
  BY <1>1, <1>2, <1>6, MovesKeeps DEF IInv, TypeOK
<1>7. CASE ~(failures' = failures /\ recent' = recent)
  <2>1. /\ failures' = [failures EXCEPT ![TaskOf(r)][Current(r)] = @ + 1]
        /\ recent' = recent \cup {<<TaskOf(r), Current(r)>>}
    BY <1>7 DEF RecordFailed
  <2>2. /\ failures' \in [Task -> [Opportunity -> Nat]]
        /\ recent' \subseteq Task \X Opportunity
    BY <1>4, <1>5, <2>1 DEF IInv, TypeOK
  <2>3. \A q \in Runner : runner'[q] = IF q = r THEN j ELSE runner[q]
    BY <1>1 DEF IInv, TypeOK, Moves
  <2>4. runner' = [runner EXCEPT ![r].step = "looping",
                                 ![r].batch = @ \ {Current(r)},
                                 ![r].items = ItemsWith(r, "FAILED")]
    BY DEF RecordFailed, Proceed
  <2>5. runner'[r].batch = runner[r].batch \ {Current(r)}
    BY <1>3, <2>4 DEF IInv, TypeOK, Execution
  <2>6. \A k \in Task, o \in Opportunity : Holding(k, o)' \subseteq Holding(k, o)
    BY <1>1, <2>3 DEF Holding, TaskOf, Moves
  <2>7. Bounded'
    <3> SUFFICES ASSUME NEW k \in Task, NEW o \in Opportunity
                 PROVE  failures'[k][o] + Cardinality(Holding(k, o)')
                            <= FailureLimit - 1 + Cardinality(Runner)
      BY DEF Bounded
    <3>1. failures[k][o] \in Nat /\ FailureLimit \in Nat
      BY ConstantsAssumption DEF IInv, TypeOK
    <3>2. /\ IsFiniteSet(Holding(k, o)) /\ Cardinality(Holding(k, o)) \in Nat
          /\ Cardinality(Runner) \in Nat
      BY HoldingFinite
    <3>3. failures[k][o] + Cardinality(Holding(k, o))
             <= FailureLimit - 1 + Cardinality(Runner)
      BY DEF IInv, Bounded
    <3>4. CASE k = TaskOf(r) /\ o = Current(r)
      <4>1. r \in Holding(k, o) /\ r \notin Holding(k, o)'
        BY <1>5, <2>5, <3>4 DEF Holding
      <4>2. Holding(k, o)' \subseteq Holding(k, o) \ {r}
        BY <2>6, <4>1
      <4>3. /\ Cardinality(Holding(k, o)') \in Nat
            /\ Cardinality(Holding(k, o)') <= Cardinality(Holding(k, o)) - 1
        BY <3>2, <4>1, <4>2, FS_Subset, FS_CardinalityType, FS_RemoveElement
      <4>4. failures'[k][o] = failures[k][o] + 1
        BY <2>1, <3>4 DEF IInv, TypeOK
      <4> QED
        BY <3>1, <3>2, <3>3, <4>3, <4>4
    <3>5. CASE ~(k = TaskOf(r) /\ o = Current(r))
      <4>1. /\ Cardinality(Holding(k, o)') \in Nat
            /\ Cardinality(Holding(k, o)') <= Cardinality(Holding(k, o))
        BY <2>6, <3>2, FS_Subset, FS_CardinalityType
      <4>2. failures'[k][o] = failures[k][o]
        BY <1>4, <1>5, <2>1, <3>5 DEF IInv, TypeOK
      <4> QED
        BY <3>1, <3>2, <3>3, <4>1, <4>2
    <3> QED
      BY <3>4, <3>5
  <2> QED
    BY <1>2, <2>2, <2>7
<1> QED
  BY <1>6, <1>7
-----------------------------------------------------------------------------
\* What a step outside the executions may change keeps what they rely on.
LEMMA OthersKeep ==
    ASSUME IInv, UNCHANGED <<failures, runner>>
    PROVE  /\ runner' \in [Runner -> Execution]
           /\ (\A q \in Runner : Sound(runner[q]))'
           /\ Bounded'
           /\ failures' \in [Task -> [Opportunity -> Nat]]
<1>1. \A k \in Task, o \in Opportunity : Holding(k, o)' \subseteq Holding(k, o)
  BY DEF Holding, TaskOf
<1>2. Bounded'
  BY <1>1, BoundKept
<1> QED
  BY <1>2 DEF IInv, TypeOK

\* derive_care_lifecycle always finds a lifecycle.
LEMMA DerivedType == \A E : Derived(E) \in Lifecycle
BY DEF Derived, Lifecycle

\* A row whose fields are set to values of their types is a row.
LEMMA RowTypes ==
    ASSUME NEW row \in Row
    PROVE  /\ [row EXCEPT !.status = "PUBLISHED", !.automatic = TRUE,
                          !.publishedBy = "system", !.audited = TRUE] \in Row
           /\ [row EXCEPT !.status = "WITHDRAWN", !.audited = TRUE] \in Row
           /\ [row EXCEPT !.merged = TRUE] \in Row
           /\ [row EXCEPT !.audited = TRUE] \in Row
           /\ \A b \in BOOLEAN : [row EXCEPT !.blocked = b, !.audited = TRUE] \in Row
           /\ \A l \in Lifecycle : [row EXCEPT !.lifecycle = l] \in Row
           /\ \A status \in {"DRAFT", "PUBLISHED", "WITHDRAWN"},
                 by \in {"nobody", "system", "person"} :
                    [row EXCEPT !.status = status, !.audited = TRUE,
                                !.publishedBy = by] \in Row
BY DEF Row

\* The UPDATE leaves a row.
LEMMA ChangeType ==
    ASSUME IInv, NEW r \in Runner, runner[r].batch # {}, Change(r)
    PROVE  opportunity' \in [Opportunity -> Row]
<1>1. Current(r) \in Opportunity /\ opportunity[Current(r)] \in Row
  BY CurrentFacts DEF IInv, TypeOK
<1>2. PICK row \in Row : opportunity' = [opportunity EXCEPT ![Current(r)] = row]
  BY <1>1, RowTypes DEF Change
<1> QED
  BY <1>1, <1>2 DEF IInv, TypeOK

\* Every step of an execution keeps the invariant.
LEMMA ExecutionKeeps ==
    ASSUME IInv, NEW r \in Runner,
           \/ \E k \in Task, scheduled \in BOOLEAN : Begin(r, k, scheduled)
           \/ Select(r) \/ Recheck(r) \/ Update(r) \/ UpdateUnclear(r) \/ ItemFails(r)
           \/ RecordFailed(r) \/ Finish(r) \/ Crash(r)
    PROVE  IInv'
<1>1. UNCHANGED <<people, recomputed, changes>>
  BY DEF Begin, Select, Recheck, Update, UpdateUnclear, ItemFails, RecordFailed,
         Finish, Crash
<1>2. opportunity' \in [Opportunity -> Row]
  <2>1. At(r, "updating") => runner[r].batch # {}
    BY DEF IInv, Sound, At
  <2>2. CASE Update(r) \/ UpdateUnclear(r)
    <3>1. runner[r].batch # {}
      BY <2>1, <2>2 DEF Update, UpdateUnclear
    <3>2. CASE Change(r)
      BY <3>1, <3>2, ChangeType
    <3>3. CASE ~Change(r)
      BY <2>2, <3>3 DEF Update, UpdateUnclear, IInv, TypeOK
    <3> QED
      BY <3>2, <3>3
  <2>3. CASE ~(Update(r) \/ UpdateUnclear(r))
    BY <2>3 DEF Begin, Select, Recheck, ItemFails, RecordFailed, Finish, Crash,
                IInv, TypeOK
  <2> QED
    BY <2>2, <2>3
<1>3. /\ runner' \in [Runner -> Execution]
      /\ (\A q \in Runner : Sound(runner[q]))'
      /\ failures' \in [Task -> [Opportunity -> Nat]]
      /\ recent' \subseteq Task \X Opportunity
      /\ Bounded'
  <2>1. CASE RecordFailed(r)
    BY <2>1, RecordFailedKeeps
  <2>2. CASE Select(r)
    BY <2>2, SelectKeeps DEF Select, IInv, TypeOK
  <2>3. CASE ~(RecordFailed(r) \/ Select(r))
    <3>1. failures' = failures /\ recent' = recent
      BY <2>3 DEF Begin, Recheck, Update, UpdateUnclear, ItemFails, Finish, Crash
    <3> QED
      BY <2>3, <3>1, ExecutionMoves, MovesKeeps DEF IInv, TypeOK
  <2> QED
    BY <2>1, <2>2, <2>3
<1> QED
  BY <1>1, <1>2, <1>3 DEF IInv, TypeOK, people

\* One row that changes to a row leaves the table typed.
LEMMA RowChanges ==
    ASSUME IInv, NEW o \in Opportunity, NEW row \in Row,
           opportunity' = [opportunity EXCEPT ![o] = row]
    PROVE  opportunity' \in [Opportunity -> Row]
BY DEF IInv, TypeOK

\* What people, merges and evidence do to an opportunity.
LEMMA OpportunityKeeps ==
    ASSUME IInv, NEW o \in Opportunity,
           \/ \E status \in {"DRAFT", "PUBLISHED", "WITHDRAWN"} : SetPublication(o, status)
           \/ \E blocked \in BOOLEAN : SetBlock(o, blocked)
           \/ \E p \in Opportunity : Merge(o, p) \/ BecomeAlike(o, p)
           \/ AuditMerge(o)
           \/ \E E \in SUBSET Evidence : EvidenceChanges(o, E)
           \/ Recompute(o)
    PROVE  IInv'
<1>1. UNCHANGED <<failures, runner, recent>>
  BY DEF SetPublication, SetBlock, Merge, BecomeAlike, AuditMerge, EvidenceChanges,
         Recompute, ReadRelationships, WriteLifecycle
<1>2. opportunity[o] \in Row
  BY DEF IInv, TypeOK
<1>3. CASE \E status \in {"DRAFT", "PUBLISHED", "WITHDRAWN"} : SetPublication(o, status)
  <2>1. PICK status \in {"DRAFT", "PUBLISHED", "WITHDRAWN"} : SetPublication(o, status)
    BY <1>3
  <2>2. opportunity[o].publishedBy \in {"nobody", "system", "person"}
    BY <1>2 DEF Row
  <2>3. PICK by \in {"nobody", "system", "person"} :
            by = IF status = "PUBLISHED" THEN "person" ELSE opportunity[o].publishedBy
    BY <2>2
  <2>4. opportunity' = [opportunity EXCEPT
            ![o] = [opportunity[o] EXCEPT !.status = status, !.audited = TRUE,
                                          !.publishedBy = by]]
    BY <1>2, <2>1, <2>3 DEF SetPublication, IInv, TypeOK, Row
  <2>5. PICK row \in Row : opportunity' = [opportunity EXCEPT ![o] = row]
    BY <1>2, <2>4, RowTypes
  <2>6. opportunity' \in [Opportunity -> Row]
    BY <2>5, RowChanges
  <2> QED
    BY <1>1, <2>1, <2>6, OthersKeep
       DEF SetPublication, Changes, IInv, TypeOK, people
<1>4. CASE \E blocked \in BOOLEAN : SetBlock(o, blocked)
  <2>1. PICK blocked \in BOOLEAN : SetBlock(o, blocked)
    BY <1>4
  <2>2. opportunity' = [opportunity EXCEPT
            ![o] = [opportunity[o] EXCEPT !.blocked = blocked, !.audited = TRUE]]
    BY <1>2, <2>1 DEF SetBlock, IInv, TypeOK, Row
  <2>3. PICK row \in Row : opportunity' = [opportunity EXCEPT ![o] = row]
    BY <1>2, <2>2, RowTypes
  <2>4. opportunity' \in [Opportunity -> Row]
    BY <2>3, RowChanges
  <2>5. UNCHANGED <<people, recomputed>> /\ (changes \in Nat => changes' \in Nat)
    BY <2>1 DEF SetBlock, Changes
  <2> QED
    BY <1>1, <2>4, <2>5, OthersKeep DEF IInv, TypeOK, people
<1>5. CASE \E p \in Opportunity : Merge(o, p)
  <2>1. PICK p \in Opportunity : Merge(o, p)
    BY <1>5
  <2>2. PICK row \in Row : opportunity' = [opportunity EXCEPT ![o] = row]
    BY <1>2, <2>1, RowTypes DEF Merge
  <2>3. opportunity' \in [Opportunity -> Row]
    BY <2>2, RowChanges
  <2>4. evidence' \in [Opportunity -> SUBSET Evidence]
    BY <2>1 DEF Merge, IInv, TypeOK
  <2> QED
    BY <1>1, <2>1, <2>3, <2>4, OthersKeep DEF Merge, Changes, IInv, TypeOK
<1>6. CASE \E p \in Opportunity : BecomeAlike(o, p)
  BY <1>1, <1>6, OthersKeep DEF BecomeAlike, Changes, IInv, TypeOK
<1>7. CASE AuditMerge(o)
  <2>1. PICK row \in Row : opportunity' = [opportunity EXCEPT ![o] = row]
    BY <1>2, <1>7, RowTypes DEF AuditMerge
  <2>2. opportunity' \in [Opportunity -> Row]
    BY <2>1, RowChanges
  <2> QED
    BY <1>1, <1>7, <2>2, OthersKeep DEF AuditMerge, IInv, TypeOK
<1>8. CASE \E E \in SUBSET Evidence : EvidenceChanges(o, E)
  BY <1>1, <1>8, OthersKeep DEF EvidenceChanges, Changes, IInv, TypeOK
<1>9. CASE Recompute(o)
  <2>1. CASE ReadRelationships(o)
    BY <1>1, <2>1, DerivedType, OthersKeep
       DEF ReadRelationships, IInv, TypeOK, people
  <2>2. CASE \E l \in Lifecycle : WriteLifecycle(o, l)
    <3>1. PICK l \in Lifecycle : WriteLifecycle(o, l)
      BY <2>2
    <3>2. PICK row \in Row : opportunity' = [opportunity EXCEPT ![o] = row]
      BY <1>2, <3>1, RowTypes DEF WriteLifecycle
    <3>3. opportunity' \in [Opportunity -> Row]
      BY <3>2, RowChanges
    <3> QED
      BY <1>1, <3>1, <3>3, OthersKeep DEF WriteLifecycle, IInv, TypeOK, people
  <2> QED
    BY <1>9, <2>1, <2>2 DEF Recompute
<1> QED
  BY <1>3, <1>4, <1>5, <1>6, <1>7, <1>8, <1>9

\* Days, switches and stuttering.
LEMMA SurroundingsKeep ==
    ASSUME IInv,
           \/ \E k \in Task, o \in Opportunity : DayPasses(k, o)
           \/ \E k \in Task, to \in Setting : SetSwitch(k, to)
           \/ UNCHANGED vars
    PROVE  IInv'
<1>1. CASE \E k \in Task, o \in Opportunity : DayPasses(k, o)
  BY <1>1, OthersKeep DEF DayPasses, IInv, TypeOK, people
<1>2. CASE \E k \in Task, to \in Setting : SetSwitch(k, to)
  BY <1>2, OthersKeep DEF SetSwitch, Changes, IInv, TypeOK
<1>3. CASE UNCHANGED vars
  BY <1>3, OthersKeep DEF vars, people, IInv, TypeOK
<1> QED
  BY <1>1, <1>2, <1>3

\* At first every execution is idle and nothing has failed.
LEMMA InitInv == Init => IInv
<1> SUFFICES ASSUME Init PROVE IInv
  OBVIOUS
<1>1. \A r \in Runner : runner[r] = Idle
  BY DEF Init
<1>2. /\ Idle.step = "idle" /\ Idle.batch = {}
      /\ Idle.items = NoItems /\ Idle.changed = {}
  BY DEF Idle
<1>3. Idle \in Execution
  BY DEF Idle, Execution, NoItems, Item, Task
<1>4. \A r \in Runner : Sound(runner[r])
  BY <1>1, <1>2 DEF Sound, NoItems, Done
<1>5. \A o \in Opportunity : opportunity[o] \in Row
  BY DerivedType DEF Init, Row
<1>6. opportunity \in [Opportunity -> Row]
  BY <1>5 DEF Init
<1>7. TypeOK
  BY <1>3, <1>6 DEF Init, TypeOK
<1>8. Bounded
  <2> SUFFICES ASSUME NEW k \in Task, NEW o \in Opportunity
               PROVE  failures[k][o] + Cardinality(Holding(k, o))
                          <= FailureLimit - 1 + Cardinality(Runner)
    BY DEF Bounded
  <2>1. Cardinality(Holding(k, o)) \in Nat /\ Cardinality(Runner) \in Nat
        /\ Cardinality(Holding(k, o)) <= Cardinality(Runner)
    BY HoldingFinite
  <2>2. failures[k][o] = 0
    BY DEF Init
  <2> QED
    BY <2>1, <2>2, ConstantsAssumption
<1> QED
  BY <1>4, <1>7, <1>8 DEF IInv

\* The invariant is inductive: one case for each kind of action.
LEMMA NextInv == IInv /\ [Next]_vars => IInv'
<1> SUFFICES ASSUME IInv, [Next]_vars PROVE IInv'
  OBVIOUS
<1>1. CASE UNCHANGED vars
  BY <1>1, SurroundingsKeep
<1>2. CASE Works
  BY <1>2, ExecutionKeeps, OpportunityKeeps, SurroundingsKeep
     DEF Works, Schedule, Run, Days
<1>3. CASE \E r \in Runner, k \in Task : Begin(r, k, FALSE)
  BY <1>3, ExecutionKeeps
<1>4. CASE \E r \in Runner : UpdateUnclear(r) \/ ItemFails(r) \/ Crash(r)
  BY <1>4, ExecutionKeeps
<1>5. CASE \E k \in Task, to \in Setting : SetSwitch(k, to)
  BY <1>5, SurroundingsKeep
<1>6. CASE \E o \in Opportunity :
          \/ \E status \in {"DRAFT", "PUBLISHED", "WITHDRAWN"} : SetPublication(o, status)
          \/ \E blocked \in BOOLEAN : SetBlock(o, blocked)
          \/ \E p \in Opportunity : Merge(o, p) \/ BecomeAlike(o, p)
          \/ AuditMerge(o)
          \/ \E E \in SUBSET Evidence : EvidenceChanges(o, E)
  BY <1>6, OpportunityKeeps
<1> QED
  BY <1>1, <1>2, <1>3, <1>4, <1>5, <1>6 DEF Next
-----------------------------------------------------------------------------
\* The invariant holds in every state that the specification reaches.
THEOREM Invariant == Spec => []IInv
BY InitInv, NextInv, PTL DEF Spec

\* The model is typed.
THEOREM TypeCorrect == Spec => []TypeOK
<1>1. IInv => TypeOK
  BY DEF IInv
<1> QED
  BY <1>1, Invariant, PTL

\* A run of execute_care_*_batch has a PUBLISHED or WITHDRAWN item for exactly
\* the opportunities it changed, whatever failed and went on beside it.
THEOREM ItemsTruthful == Spec => []ItemsTellTheTruth
<1>1. IInv => ItemsTellTheTruth
  BY DEF IInv, Sound, ItemsTellTheTruth
<1> QED
  BY <1>1, Invariant, PTL

\* An opportunity collects fewer FAILED items than the limit and the
\* executions that overlap, together.
THEOREM FailuresStayBounded == Spec => []FailuresBounded
<1>1. IInv => FailuresBounded
  <2> SUFFICES ASSUME IInv, NEW k \in Task, NEW o \in Opportunity
               PROVE  failures[k][o] <= FailureLimit - 1 + Cardinality(Runner)
    BY DEF FailuresBounded
  <2>1. failures[k][o] \in Nat /\ FailureLimit \in Nat
    BY ConstantsAssumption DEF IInv, TypeOK
  <2>2. failures[k][o] + Cardinality(Holding(k, o))
           <= FailureLimit - 1 + Cardinality(Runner)
    BY DEF IInv, Bounded
  <2> QED
    BY <2>1, <2>2, HoldingFinite
<1> QED
  BY <1>1, Invariant, PTL
-----------------------------------------------------------------------------
\* Only an UPDATE whose WHERE clause held adds to what a run changed.
LEMMA ChangedFacts ==
    ASSUME IInv, [Next]_vars, NEW r \in Runner, NEW o \in Opportunity,
           o \in runner'[r].changed \ runner[r].changed
    PROVE  o = Current(r) /\ Guard(TaskOf(r), o)
<1>1. \A q \in Runner : runner[q] \in Execution /\ Sound(runner[q])
  BY DEF IInv, TypeOK
<1>2. ASSUME runner' = runner PROVE FALSE
  BY <1>2
<1>3. ASSUME NEW q \in Runner, Select(q) PROVE FALSE
  BY <1>1, <1>3 DEF Select, IInv, TypeOK, Execution
<1>4. ASSUME NEW q \in Runner, NEW i, Proceed(q, i)
      PROVE  FALSE
  BY <1>1, <1>4 DEF Proceed, IInv, TypeOK, Execution
<1>5. ASSUME NEW q \in Runner, \/ \E k \in Task, scheduled \in BOOLEAN : Begin(q, k, scheduled)
                               \/ Finish(q) \/ Crash(q)
      PROVE  FALSE
  <2>1. PICK j : /\ runner' = [runner EXCEPT ![q] = j]
                 /\ j = Idle \/ \E k \in Task : j = [Idle EXCEPT !.step = "selecting", !.task = k]
    BY <1>5 DEF Begin, Finish, Crash
  <2>2. j.changed = {}
    <3>1. Idle.changed = {} /\ Idle \in Execution
      BY DEF Idle, Execution, NoItems, Item, Task
    <3> QED
      BY <2>1, <3>1 DEF Execution
  <2>3. \A p \in Runner : runner'[p] = IF p = q THEN j ELSE runner[p]
    BY <2>1 DEF IInv, TypeOK
  <2> QED
    BY <2>2, <2>3
<1>6. ASSUME NEW q \in Runner, NEW step, runner' = [runner EXCEPT ![q].step = step]
      PROVE  FALSE
  BY <1>1, <1>6 DEF IInv, TypeOK, Execution
<1>7. ASSUME NEW q \in Runner, Update(q) \/ UpdateUnclear(q)
      PROVE  q = r /\ o = Current(r) /\ Guard(TaskOf(r), o)
  <2>1. Guard(TaskOf(q), Current(q))
    BY <1>4, <1>7 DEF Update, UpdateUnclear
  <2>2. \A p \in Runner : runner'[p].changed =
            IF p = q THEN runner[q].changed \cup {Current(q)} ELSE runner[p].changed
    <3>1. CASE Update(q)
      <4> DEFINE j == [runner[q] EXCEPT
                         !.step = "looping", !.batch = @ \ {Current(q)},
                         !.items = ItemsWith(q, ChangedItem(q)),
                         !.changed = @ \cup {Current(q)}]
      <4>1. runner' = [runner EXCEPT ![q] = j]
        BY <2>1, <3>1 DEF Update
      <4>2. j.changed = runner[q].changed \cup {Current(q)}
        BY <1>1 DEF Execution
      <4> HIDE DEF j
      <4> QED
        BY <4>1, <4>2 DEF IInv, TypeOK
    <3>2. CASE UpdateUnclear(q)
      BY <1>1, <2>1, <3>2 DEF UpdateUnclear, IInv, TypeOK, Execution
    <3> QED
      BY <1>7, <3>1, <3>2
  <2> QED
    BY <2>1, <2>2
<1>8. \/ \E q \in Runner, k \in Task, scheduled \in BOOLEAN : Begin(q, k, scheduled)
      \/ \E q \in Runner : \/ Run(q) \/ UpdateUnclear(q) \/ ItemFails(q) \/ Crash(q)
      \/ runner' = runner
  BY DEF Next, vars, Works, Schedule, Days, DayPasses, SetSwitch, SetPublication,
         SetBlock, Merge, BecomeAlike, AuditMerge, EvidenceChanges, Recompute,
         ReadRelationships, WriteLifecycle
<1>9. PICK q \in Runner : Update(q) \/ UpdateUnclear(q)
  <2>1. ASSUME NEW q \in Runner, Recheck(q) \/ ItemFails(q) \/ RecordFailed(q)
        PROVE  FALSE
    BY <1>4, <1>6, <2>1 DEF Recheck, ItemFails, RecordFailed
  <2> QED
    BY <1>2, <1>3, <1>5, <1>8, <2>1 DEF Run
<1> QED
  BY <1>7, <1>9

\* Automation acts as its two UPDATEs allow: on nothing blocked, publishing
\* unmerged drafts only and withdrawing only what it published.
THEOREM AutomationStaysOut == Spec => AutomationKeepsOut
<1> DEFINE Step ==
      \A o \in Opportunity, r \in Runner :
          o \in runner'[r].changed \ runner[r].changed =>
              /\ ~opportunity[o].blocked
              /\ TaskOf(r) = "publish" =>
                    /\ ~opportunity[o].merged
                    /\ opportunity[o].status = "DRAFT"
              /\ TaskOf(r) = "withdraw" =>
                    opportunity[o].status = "PUBLISHED" /\ opportunity[o].automatic
<1>1. IInv /\ [Next]_vars => Step
  BY ChangedFacts DEF Guard
<1>2. IInv /\ [Next]_vars => [Step]_vars
  BY <1>1
<1>3. AutomationKeepsOut <=> [][Step]_vars
  BY DEF AutomationKeepsOut
<1> HIDE DEF Step
<1> QED
  BY <1>2, <1>3, Invariant, PTL DEF Spec
=============================================================================
