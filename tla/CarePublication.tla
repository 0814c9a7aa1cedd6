--------------------------- MODULE CarePublication ---------------------------
(***************************************************************************)
(* Automatic publication and withdrawal of CareProspect opportunities:     *)
(* execute_care_publication_batch and execute_care_withdrawal_batch of     *)
(* app/repository.py with the policies of app/care_lifecycle.py and        *)
(* app/opportunity_hygiene.py, among what people, merges and new evidence  *)
(* do to the same opportunities.                                           *)
(*                                                                         *)
(* A run selects a batch from an inventory, then takes its opportunities   *)
(* one at a time: it reads the row again (Recheck), and changes it with a  *)
(* conditional UPDATE (Update), in one READ COMMITTED transaction that     *)
(* takes no lock before the UPDATE.  Several runs of either task, admin    *)
(* requests and enrichment workers go on at once.                          *)
(***************************************************************************)
EXTENDS Integers, FiniteSets, FiniteSetsExt

CONSTANTS
    Opportunity,     \* numbers, in the order of their ids
    Evidence,        \* what the policies tell apart of the linked signals
    Holdout,         \* opportunities in the stable QA holdout
    Runner,          \* executions that may go on at once
    Setting,         \* what an administrator sets the two automations to
    BatchLimit,      \* min(requested limit, max per execution)
    FailureLimit,    \* failed items after which an opportunity is left alone
    MaxChanges,      \* bound: changes by people and by new evidence
    MaxRecomputed    \* bound: lifecycles computed of an opportunity, unwritten

\* "delivery": approved recruitment or Ofsted evidence.  The others are linked
\* planning applications: approved by review and "granted" or "pending", or
\* decided against, with or without an "appeal".
ASSUME ConstantsAssumption ==
    /\ Opportunity \subseteq Nat /\ IsFiniteSet(Opportunity)
    /\ Evidence \subseteq {"delivery", "granted", "pending", "appeal", "refused"}
    /\ Holdout \subseteq Opportunity
    /\ IsFiniteSet(Runner)
    /\ Setting \subseteq {"off", "manual", "recurring"}
    /\ BatchLimit \in Nat \ {0} /\ FailureLimit \in Nat \ {0}
    /\ MaxChanges \in Nat /\ MaxRecomputed \in Nat

VARIABLES
    switch,       \* switch[k]: care_publication_ / care_withdrawal_automation_state
    opportunity,  \* table opportunities
    evidence,     \* evidence[o]: what is linked to o, ACTIVE
    alike,        \* sets of two opportunities that identify the same project
    merging,      \* merges not yet audited, as their targets
    recomputed,   \* recomputed[o]: lifecycles worked out and not yet written
    failures,     \* failures[k][o]: the FAILED items of o
    recent,       \* the <<k, o>> with one of the last 24 hours
    runner,       \* runner[r]: its place in the code and the items of its run
    changes       \* changes made so far

people == <<switch, evidence, alike, merging>>
vars == <<people, opportunity, recomputed, failures, recent, runner, changes>>
-----------------------------------------------------------------------------
Task == {"publish", "withdraw"}
Lifecycle == {"ACTIVE", "APPEAL_PENDING", "STOPPED", "NEEDS_REVIEW"}
Row == [status: {"DRAFT", "PUBLISHED", "WITHDRAWN"},
        automatic: BOOLEAN,   \* publication_automation_provenance ? policy_version
        publishedBy: {"nobody", "system", "person"},
        audited: BOOLEAN,     \* an audit event names it
        blocked: BOOLEAN, merged: BOOLEAN, lifecycle: Lifecycle]
Done == {"PUBLISHED", "WITHDRAWN"}
Item == {"none", "SKIPPED", "FAILED"} \cup Done
NoItems == [o \in Opportunity |-> "none"]
Execution ==
    [step: {"idle", "selecting", "looping", "updating", "failing"}, task: Task,
     batch: SUBSET Opportunity, items: [Opportunity -> Item],
     changed: SUBSET Opportunity]
Idle == [step |-> "idle", task |-> "publish", batch |-> {}, items |-> NoItems,
         changed |-> {}]

\* derive_care_lifecycle; the five active stages are one.
\* (Bug: what is not known is left open.)
DerivedBug(E) ==
    CASE {"delivery", "granted", "pending"} \cap E # {} -> "ACTIVE"
      [] E = {"refused"} -> "STOPPED"
      [] OTHER -> "UNKNOWN"
Derived(E) ==
    CASE {"delivery", "granted"} \cap E # {} -> "ACTIVE"
      [] {"delivery", "granted"} \cap E = {} /\ "appeal" \in E -> "APPEAL_PENDING"
      [] E \cap {"delivery", "granted", "appeal"} = {} /\ "pending" \in E -> "ACTIVE"
      [] E = {"refused"} -> "STOPPED"
      [] OTHER -> "NEEDS_REVIEW"

\* _touch_types: somebody has touched the opportunity, or published it.
Touched(o) ==
    \/ opportunity[o].audited
    \/ opportunity[o].publishedBy # "nobody"
    \/ opportunity[o].merged

\* The order _duplicate_counterparts ranks by: published first, then touched,
\* then more foundations; among equals the smaller id.
Standing(o) ==
    (IF opportunity[o].status = "PUBLISHED" THEN 8 ELSE 0)
    + (IF Touched(o) THEN 4 ELSE 0)
    + Cardinality(evidence[o] \cap {"delivery", "granted", "pending"})
Outranks(p, o) == Standing(p) > Standing(o) \/ (Standing(p) = Standing(o) /\ p < o)
Duplicate(o) ==
    \E p \in Opportunity : /\ {o, p} \in alike /\ p # o
                           /\ ~opportunity[p].merged
                           /\ Outranks(p, o)

\* evaluate_publication and evaluate_withdrawal, for the row alone.  What is
\* published is touched, so no duplicate is withdrawn for being one.
Publishable(o) ==
    /\ opportunity[o].status # "PUBLISHED"
    /\ ~opportunity[o].blocked
    /\ ~opportunity[o].merged
    /\ opportunity[o].lifecycle = "ACTIVE"
    /\ evidence[o] \cap {"granted", "pending"} # {}
    /\ ~Touched(o)
    /\ o \notin Holdout
Withdrawable(o) ==
    /\ opportunity[o].status = "PUBLISHED"
    /\ opportunity[o].automatic
    /\ ~opportunity[o].blocked
    /\ opportunity[o].merged \/ opportunity[o].lifecycle = "STOPPED"
Allows(k, o) == IF k = "publish" THEN Publishable(o) ELSE Withdrawable(o)

\* (Bug: only yesterday's failures count.)
DeferredBug(k, o) == <<k, o>> \in recent
Deferred(k, o) == failures[k][o] >= FailureLimit \/ <<k, o>> \in recent

\* The inventories: here the other opportunities are looked at too.
\* (Bug: the withdrawal inventory, too, asks for a draft.)
SelectableBug(k) ==
    {o \in Opportunity :
        Allows(k, o) /\ ~Deferred(k, o) /\ ~Duplicate(o) /\ opportunity[o].status = "DRAFT"}
Selectable(k) ==
    {o \in Opportunity :
        /\ Allows(k, o)
        /\ ~Deferred(k, o)
        /\ k = "publish" => opportunity[o].status = "DRAFT" /\ ~Duplicate(o)}

\* The WHERE clauses of the two UPDATEs.
\* (Bug: the block is looked at before, not here.)
GuardBug(k, o) ==
    \/ k = "publish" /\ opportunity[o].status = "DRAFT" /\ ~opportunity[o].merged
    \/ k = "withdraw" /\ opportunity[o].status = "PUBLISHED" /\ opportunity[o].automatic
Guard(k, o) ==
    /\ ~opportunity[o].blocked
    /\ \/ k = "publish" /\ opportunity[o].status = "DRAFT" /\ ~opportunity[o].merged
       \/ k = "withdraw" /\ opportunity[o].status = "PUBLISHED" /\ opportunity[o].automatic
-----------------------------------------------------------------------------
Init ==
    /\ switch \in [Task -> Setting]
    /\ evidence \in [Opportunity -> SUBSET Evidence]
    /\ opportunity = [o \in Opportunity |->
          [status |-> "DRAFT", automatic |-> FALSE, publishedBy |-> "nobody",
           audited |-> FALSE, blocked |-> FALSE, merged |-> FALSE,
           lifecycle |-> Derived(evidence[o])]]
    /\ alike \in SUBSET {s \in SUBSET Opportunity : Cardinality(s) = 2}
    /\ merging = {}
    /\ recomputed = [o \in Opportunity |-> {}]
    /\ failures = [k \in Task |-> [o \in Opportunity |-> 0]]
    /\ recent = {}
    /\ runner = [r \in Runner |-> Idle]
    /\ changes = 0

\* --- execute_care_publication_batch, execute_care_withdrawal_batch ---

At(r, step) == runner[r].step = step
TaskOf(r) == runner[r].task
Current(r) == Min(runner[r].batch)   \* the one the loop is at

\* The run takes the next of its batch, with item i written for this one.
\* ON CONFLICT DO NOTHING: an item that is there stays as it is.
\* (Bug: ON CONFLICT DO UPDATE.)
ItemsWithBug(r, i) == [runner[r].items EXCEPT ![Current(r)] = i]
ItemsWith(r, i) ==
    [runner[r].items EXCEPT ![Current(r)] = IF @ = "none" THEN i ELSE @]
Proceed(r, i) ==
    runner' = [runner EXCEPT ![r].step = "looping",
                             ![r].batch = @ \ {Current(r)},
                             ![r].items = ItemsWith(r, i)]

\* The state row is read FOR UPDATE and a RUNNING run inserted.  A scheduled
\* execution needs the recurring switch, a requested one only execution.
Begin(r, k, scheduled) ==
    /\ At(r, "idle")
    /\ switch[k] # "off"
    /\ scheduled => switch[k] = "recurring"
    /\ runner' = [runner EXCEPT ![r] = [Idle EXCEPT !.step = "selecting", !.task = k]]
    /\ UNCHANGED <<people, opportunity, recomputed, failures, recent, changes>>

\* The first BatchLimit selectable opportunities in the order of their ids.
FirstOf(s) == {o \in s : Cardinality({p \in s : p < o}) < BatchLimit}
\* (Bug: the limit is applied before the failures are set aside.)
SelectBug(r) ==
    LET k == TaskOf(r) IN
    /\ At(r, "selecting")
    /\ runner' = [runner EXCEPT ![r].step = "looping",
          ![r].batch = {o \in FirstOf({p \in Opportunity : Allows(k, p)}) : ~Deferred(k, o)}]
    /\ UNCHANGED <<people, opportunity, recomputed, failures, recent, changes>>
Select(r) ==
    /\ At(r, "selecting")
    /\ runner' = [runner EXCEPT ![r].step = "looping",
                                ![r].batch = FirstOf(Selectable(TaskOf(r)))]
    /\ UNCHANGED <<people, opportunity, recomputed, failures, recent, changes>>

\* The row is read again and audited on its own: no other opportunity is
\* looked at, so nothing is a duplicate here.
Recheck(r) ==
    /\ At(r, "looping") /\ runner[r].batch # {}
    /\ IF Allows(TaskOf(r), Current(r))
       THEN runner' = [runner EXCEPT ![r].step = "updating"]
       ELSE Proceed(r, "SKIPPED")
    /\ UNCHANGED <<people, opportunity, recomputed, failures, recent, changes>>

\* The UPDATE of the current opportunity, with its item and audit event.
Change(r) ==
    LET o == Current(r) IN
    opportunity' = [opportunity EXCEPT ![o] =
        IF TaskOf(r) = "publish"
        THEN [@ EXCEPT !.status = "PUBLISHED", !.automatic = TRUE,
                       !.publishedBy = "system", !.audited = TRUE]
        ELSE [@ EXCEPT !.status = "WITHDRAWN", !.audited = TRUE]]
ChangedItem(r) == IF TaskOf(r) = "publish" THEN "PUBLISHED" ELSE "WITHDRAWN"

Update(r) ==
    /\ At(r, "updating")
    /\ IF Guard(TaskOf(r), Current(r))
       THEN /\ Change(r)
            /\ runner' = [runner EXCEPT
                  ![r].step = "looping", ![r].batch = @ \ {Current(r)},
                  ![r].items = ItemsWith(r, ChangedItem(r)),
                  ![r].changed = @ \cup {Current(r)}]
       ELSE Proceed(r, "SKIPPED") /\ UNCHANGED opportunity
    /\ UNCHANGED <<people, recomputed, failures, recent, changes>>

\* The COMMIT takes effect and the connection is lost: to the run it failed.
UpdateUnclear(r) ==
    /\ At(r, "updating") /\ Guard(TaskOf(r), Current(r))
    /\ Change(r)
    /\ runner' = [runner EXCEPT
          ![r].step = "failing",
          ![r].items = ItemsWith(r, ChangedItem(r)),
          ![r].changed = @ \cup {Current(r)}]
    /\ UNCHANGED <<people, recomputed, failures, recent, changes>>

\* Anything else that raises for the current opportunity rolls back.
ItemFails(r) ==
    /\ At(r, "updating") \/ (At(r, "looping") /\ runner[r].batch # {})
    /\ runner' = [runner EXCEPT ![r].step = "failing"]
    /\ UNCHANGED <<people, opportunity, recomputed, failures, recent, changes>>

\* The FAILED item, in a transaction of its own.
RecordFailed(r) ==
    LET k == TaskOf(r)
        o == Current(r)
    IN
    /\ At(r, "failing")
    /\ Proceed(r, "FAILED")
    /\ IF runner'[r].items[o] = "FAILED"
       THEN /\ failures' = [failures EXCEPT ![k][o] = @ + 1]
            /\ recent' = recent \cup {<<k, o>>}
       ELSE UNCHANGED <<failures, recent>>
    /\ UNCHANGED <<people, opportunity, recomputed, changes>>

Finish(r) ==
    /\ At(r, "looping") /\ runner[r].batch = {}
    /\ runner' = [runner EXCEPT ![r] = Idle]
    /\ UNCHANGED <<people, opportunity, recomputed, failures, recent, changes>>

\* The Lambda ends early, or raises outside the loop's try: the run stays
\* RUNNING and nothing looks at it again.
Crash(r) ==
    /\ ~At(r, "idle")
    /\ runner' = [runner EXCEPT ![r] = Idle]
    /\ UNCHANGED <<people, opportunity, recomputed, failures, recent, changes>>

DayPasses(k, o) ==
    /\ <<k, o>> \in recent
    /\ recent' = recent \ {<<k, o>>}
    /\ UNCHANGED <<people, opportunity, recomputed, failures, runner, changes>>

\* --- people and evidence ---

Changes == changes < MaxChanges /\ changes' = changes + 1

\* set_care_*_automation_execution.  A run that has begun is not stopped.
SetSwitch(k, to) ==
    /\ Changes
    /\ switch' = [switch EXCEPT ![k] = to]
    /\ UNCHANGED <<evidence, alike, merging, opportunity, recomputed, failures, recent, runner>>

\* set_opportunity_publication: what is published needs approved evidence.
\* A person's publication leaves the provenance of an earlier automatic one.
SetPublication(o, status) ==
    /\ Changes
    /\ status = "PUBLISHED" => evidence[o] # {}
    /\ opportunity' = [opportunity EXCEPT
          ![o].status = status, ![o].audited = TRUE,
          ![o].publishedBy = IF status = "PUBLISHED" THEN "person" ELSE @]
    /\ UNCHANGED <<people, recomputed, failures, recent, runner>>

\* set_opportunity_automation_block.
SetBlock(o, blocked) ==
    /\ Changes
    /\ opportunity' = [opportunity EXCEPT ![o].blocked = blocked, ![o].audited = TRUE]
    /\ UNCHANGED <<people, recomputed, failures, recent, runner>>

\* merge_opportunities: the links move, no lifecycle is worked out.
Merge(o, p) ==
    /\ Changes
    /\ o # p /\ ~opportunity[o].merged /\ ~opportunity[p].merged
    /\ opportunity' = [opportunity EXCEPT ![o].merged = TRUE]
    /\ evidence' = [evidence EXCEPT ![o] = {}, ![p] = @ \cup evidence[o]]
    /\ alike' = {s \in alike : o \notin s}
    /\ merging' = merging \cup {p}
    /\ UNCHANGED <<switch, recomputed, failures, recent, runner>>

\* ... and its audit event, in a transaction of its own.
AuditMerge(p) ==
    /\ p \in merging
    /\ merging' = merging \ {p}
    /\ opportunity' = [opportunity EXCEPT ![p].audited = TRUE]
    /\ UNCHANGED <<switch, evidence, alike, recomputed, failures, recent, runner, changes>>

\* Ingestion, review or correlation changes what is linked to o ...
EvidenceChanges(o, E) ==
    /\ Changes
    /\ ~opportunity[o].merged /\ E # evidence[o]
    /\ evidence' = [evidence EXCEPT ![o] = E]
    /\ UNCHANGED <<switch, alike, merging, opportunity, recomputed, failures, recent, runner>>

\* ... or shows two opportunities to be one project.
BecomeAlike(o, p) ==
    /\ Changes
    /\ o < p /\ {o, p} \notin alike /\ ~opportunity[o].merged /\ ~opportunity[p].merged
    /\ alike' = alike \cup {{o, p}}
    /\ UNCHANGED <<switch, evidence, merging, opportunity, recomputed, failures, recent, runner>>

\* recompute_care_opportunity_lifecycle_for_signal reads without a lock ...
ReadRelationships(o) ==
    LET l == Derived(evidence[o]) IN
    /\ l # opportunity[o].lifecycle
    /\ Cardinality(recomputed[o] \cup {l}) <= MaxRecomputed
    /\ recomputed' = [recomputed EXCEPT ![o] = @ \cup {l}]
    /\ UNCHANGED <<people, opportunity, failures, recent, runner, changes>>

\* ... and writes what it worked out, whatever was written since.
WriteLifecycle(o, l) ==
    /\ l \in recomputed[o]
    /\ opportunity' = [opportunity EXCEPT ![o].lifecycle = l]
    /\ recomputed' = [recomputed EXCEPT ![o] = @ \ {l}]
    /\ UNCHANGED <<people, failures, recent, runner, changes>>
-----------------------------------------------------------------------------
Schedule(k) == \E r \in Runner : Begin(r, k, TRUE)
Run(r) == Select(r) \/ Recheck(r) \/ Update(r) \/ RecordFailed(r) \/ Finish(r)
Recompute(o) == ReadRelationships(o) \/ \E l \in Lifecycle : WriteLifecycle(o, l)
Days == \E k \in Task, o \in Opportunity : DayPasses(k, o)

\* What goes on without people, new evidence or failures.
Works ==
    \/ \E k \in Task : Schedule(k)
    \/ \E r \in Runner : Run(r)
    \/ \E o \in Opportunity : Recompute(o)
    \/ Days

Next ==
    \/ Works
    \/ \E r \in Runner, k \in Task : Begin(r, k, FALSE)
    \/ \E r \in Runner : UpdateUnclear(r) \/ ItemFails(r) \/ Crash(r)
    \/ \E k \in Task, to \in Setting : SetSwitch(k, to)
    \/ \E o \in Opportunity :
          \/ \E status \in {"DRAFT", "PUBLISHED", "WITHDRAWN"} : SetPublication(o, status)
          \/ \E blocked \in BOOLEAN : SetBlock(o, blocked)
          \/ \E p \in Opportunity : Merge(o, p) \/ BecomeAlike(o, p)
          \/ AuditMerge(o)
          \/ \E E \in SUBSET Evidence : EvidenceChanges(o, E)

Spec == Init /\ [][Next]_vars

\* EventBridge invokes each coordinator every six hours and a Lambda that runs
\* ends; days pass.  Requests, people and failures come to rest: what happens
\* only while they never do is not promised.
Fairness ==
    /\ \A k \in Task : SF_vars(Schedule(k))
    /\ \A r \in Runner : WF_vars(Run(r))
    /\ WF_vars(Days)
    /\ <>[][Works]_vars

FairSpec == Spec /\ Fairness
-----------------------------------------------------------------------------
TypeOK ==
    /\ switch \in [Task -> Setting]
    /\ opportunity \in [Opportunity -> Row]
    /\ evidence \in [Opportunity -> SUBSET Evidence]
    /\ alike \subseteq SUBSET Opportunity
    /\ merging \subseteq Opportunity
    /\ recomputed \in [Opportunity -> SUBSET Lifecycle]
    /\ failures \in [Task -> [Opportunity -> Nat]]
    /\ recent \subseteq Task \X Opportunity
    /\ runner \in [Runner -> Execution]
    /\ changes \in Nat

\* The items of a run say what it did: an opportunity has a PUBLISHED or
\* WITHDRAWN item when the run changed it and only then, also when the run
\* took a COMMIT that succeeded for a failure and then recorded FAILED.
ItemsTellTheTruth ==
    \A r \in Runner, o \in Opportunity :
        o \in runner[r].changed <=> runner[r].items[o] \in Done

\* Automation acts on an opportunity between the re-read of a run and its
\* UPDATE as people would have it: never while it is blocked; it publishes no
\* merged opportunity, none that is withdrawn, and none for the second time
\* unless somebody made it a draft again; it withdraws what it published.
AutomationKeepsOut ==
    [][\A o \in Opportunity, r \in Runner :
          o \in runner'[r].changed \ runner[r].changed =>
              /\ ~opportunity[o].blocked
              /\ TaskOf(r) = "publish" =>
                    /\ ~opportunity[o].merged
                    /\ opportunity[o].status = "DRAFT"
              /\ TaskOf(r) = "withdraw" =>
                    opportunity[o].status = "PUBLISHED" /\ opportunity[o].automatic]_vars

\* "24-hour/three-failure deferral" (ROADMAP.md): failures are counted before
\* a run begins to act, so executions that overlap may exceed the limit, each
\* by one at most.
FailuresBounded ==
    \A k \in Task, o \in Opportunity :
        failures[k][o] <= FailureLimit - 1 + Cardinality(Runner)

\* An opportunity that the policy allows to publish, and that is no duplicate,
\* is published in the end, whatever batch limit and failed items before it,
\* unless it stops being so, reaches the failure limit or recurring is off.
Waits(k, o) ==
    /\ Allows(k, o)
    /\ k = "publish" => opportunity[o].status = "DRAFT" /\ ~Duplicate(o)
    /\ failures[k][o] < FailureLimit
    /\ switch[k] = "recurring"
EligibleIsPublished == \A o \in Opportunity : Waits("publish", o) ~> ~Waits("publish", o)

\* So is one withdrawn that automation published and that has been stopped or
\* merged.
StoppedIsWithdrawn == \A o \in Opportunity : Waits("withdraw", o) ~> ~Waits("withdraw", o)

\* ROADMAP.md: "Only automatically published records can enter selection;
\* human publications and automation blocks remain protected."
HumanPublicationStands ==
    [][\A o \in Opportunity, r \in Runner :
          o \in runner'[r].changed \ runner[r].changed /\ TaskOf(r) = "withdraw" =>
              opportunity[o].publishedBy # "person"]_vars
=============================================================================
