# NurserySignal: specification and proofs

TLA+ modules of the NurserySignal / CareProspect platform, the TLC instances
that check them and the theorems TLAPS proves about them. Paths are relative to
the repository; `app/` stands for `backend/app/`.

## 1. The system

Collectors watch public sources (planning applications, vacancies, Ofsted
events, procurement notices, Companies House) and put what they see on a queue.
Lambdas take it from there: ingestion stores evidence and a signal, enrichment
classifies it, correlates it with others into an *opportunity* and works out the
opportunity's *lifecycle*; coordinators poll planning applications again, publish
opportunities to customers and withdraw them. Administrators review and correct
through an API, customers read a portal, an MCP server and an email digest.
Everything durable is in PostgreSQL (READ COMMITTED) and S3; everything
asynchronous is a standard SQS queue with a dead-letter queue, an EventBridge
schedule or a Lambda invocation.

### 1.1 Inventory

| Component | State | Operations | Talks to | Hard behaviour | What makes it correct |
|---|---|---|---|---|---|
| Signal ingestion (`ingestion_worker.py`, `service.py`, `storage.py`, part of `repository.py`) | `raw_signals`, `raw_signal_revisions`, `source_documents`, the evidence bucket | `ingest_signal`: find, put evidence, store or revise, dispatch | ingestion queue in, enrichment queue out | redelivery, two workers on one identity, a failure between any two of S3, database and SQS | nothing stored without its evidence, nothing acknowledged without being recorded, everything stored is offered for enrichment |
| Planning watcher (`repository.py`, `collector.py`, `worker.py`) | `planning_lifecycle_watches`, `..._watch_runs`, `..._watcher_state` | enrol, queue due watches, poll, record the result, retry, kill switch, automation block | manual-run queue, ingestion queue, enrichment queue | overlapping coordinators, lost jobs and results, results after the run was swept, quota | one active run per watch, active runs within the quota, a run settles once, a published decision is recorded in the end |
| Care publication and withdrawal (`repository.py`, `care_lifecycle.py`, `customer.py`) | the publication columns of `opportunities`, run and item tables, two switches | publication batch, withdrawal batch, manual publication, block, merge | scheduled and admin requests; the lifecycle written by enrichment | an inventory read once and acted on item by item, READ COMMITTED, ambiguous commits, deferral | automation never overrides people, items say what happened, what is eligible is acted on in the end |
| Enrichment worker and review (`worker.py`, `enrichment.py`, `review_triage.py`, `shadow_review.py`) | `signal_enrichments`, its history, AI reviews | `process_message`: read, classify, save, automatic rejection and approval, families, correlation, lifecycle, shadow review; `review_signal` | enrichment queue in | some ten transactions per message, each of which may be the last; stale content; a person reviewing meanwhile | the review of a person stands, a revision is not hidden by an older enrichment, a redelivery changes nothing twice |
| Opportunity matching (`repository.py`, `correlation.py`, `opportunity_policy.py`) | `opportunities`, `opportunity_signals` and history, match reviews | `correlate_signal`, create, link, unlink, merge, split, resolve a match review, consolidate duplicates, recalculate | called by the worker and the API | concurrent correlation of two signals of one project, merge against link | a signal supports one current opportunity, none hangs on a merged one, corrections by people are kept |
| Planning families and origin recovery (`planning_families.py`, `planning_origin.py`, `repository.py`) | family tables, recovery attempts | reconcile a signal's family, queue and record an origin recovery | collector, enrichment queue | families that meet through a late reference | an application belongs to one family; a recovery attempt ends |
| Source runs and backfill (`source_runs.py`, `planning_backfill.py`, `collector.py`) | `source_runs` and their chunks | start, run a chunk, send the next, retry | manual-run queue | redelivered chunk, failed chunk that is retried, stop | one chunk at a time, a run ends in the status of its chunks |
| Organisation enrichment and match review (`organisation_*.py`, `companies_house.py`, `repository.py`) | organisations, candidates, match reviews | propose, approve, reject, refresh | Companies House, admin API | a review decided on candidates that have changed | a decision applies to what the person saw |
| MCP server and OAuth facade (`mcp.py`) | single-use transactions in DynamoDB | authorize, callback, token, tools | Cognito, admin functions | two callbacks or token requests at once, expiry | a code is used once, by the client that began |
| Customer portal and provisioning (`customer.py`, `customer_provisioning.py`) | customers, members, saved items | invite, accept, disable, read | Cognito | two provisionings of one customer | a disabled member reads nothing |
| Customer digest (`customer_digest.py`) | `customer_digest_runs` | build, queue, send, record | SQS, SES | a send that failed after the row said it would be | one digest a period |
| Backtesting (`backtesting.py`, `backtest_repository.py`) | backtest runs and results | execute, resume | admin API | interrupted run, lost COMMIT, rows that change after an outcome | identical runs are made once, a case is judged by what was known |
| Classification policies (`classification.py`, `care.py`, `ai_shadow.py`, `evidence_support.py`, ...) | none | text and metadata to a class | called by the above | none: pure | their word tables |
| Hygiene and clean-up (`opportunity_hygiene.py`, `opportunity_orphan_cleanup.py`, ...) | none of their own | audit, preview, apply | admin API | preview older than apply | an apply spares what is in use, and corrects what evidence says, when it writes |
| Other collectors, admin API, operations reports, migrations and configuration, front end, infrastructure | none, or deployment | fetch; route; read; render | | | |

`PROJECT.json` lists each of these with the files it has, its state in this
project, and every hazard found while reading, with the property that covers it
or the reason why none does yet.

## 2. Modules

| Module | Models | Instances |
|---|---|---|
| `SignalIngestion` | signal ingestion, the ingestion queue, the enrichment messages it sends | `MCSignalIngestion` |
| `LockedDispatch` | abstract specification: sending under a row lock | (implemented by `SignalIngestion`) |
| `SignalIngestionProofs` | theorems about `SignalIngestion`, with the refinement | |
| `PlanningWatcher` | watches, runs, coordinators, collectors and results | `MCPlanningWatcher` |
| `PlanningWatcherProofs` | theorems about `PlanningWatcher` | |
| `CarePublication` | publication and withdrawal batches among people and new evidence | `MCCarePublication` |
| `CarePublicationProofs` | theorems about `CarePublication` | |
| `ReviewPolicies` | what each automatic policy says of a signal: pure operators | (used by `SignalReview`) |
| `SignalReview` | the enrichment worker, reviews by people and the batches of the policies | `MCSignalReview` |
| `SignalReviewProofs` | theorems about `SignalReview` | |
| `OpportunityMatching` | families, matching, consolidation, and administrators behind them | `MCOpportunityMatching` |
| `OpportunityMatchingProofs` | theorems about `OpportunityMatching` | |
| `HistoricalReplay` | the blind replay of one case and the aggregate of the cases: pure operators | (used by `Backtesting`) |
| `IdempotentRuns` | abstract specification: at most one attempt of a key is live, and ends once unless its maker did not hear of its success | (implemented by `Backtesting`) |
| `Backtesting` | requests for backtests, the corpora and rows they read, the ledger of runs | (part of `Services`) |
| `OpportunityCleanup` | orphan cleanup, semantic drift, lifecycle bootstrap | (part of `Services`) |
| `OriginRecovery` | the origin of a planning family: recovery attempts, results, backfill | (part of `Services`) |
| `RecoveryAndCleanupProofs` | theorems about `OriginRecovery` and `OpportunityCleanup` | |
| `PlanningBackfill` | the historical backfill: chunks, collectors, run rows | (part of `Services`) |
| `PlanningBackfillProofs` | theorems about `PlanningBackfill` | |
| `Services` | the four services above, one of which a behaviour runs | `MCServices` |
| `ServicesProofs` | theorems about `Backtesting`, with the refinement, and about `Services` | |

The modules meet at the tables and queues they share, which each keeps at the
abstraction its own properties need: `SignalIngestion` takes the collectors'
messages and leaves enrichment messages, which `SignalReview` takes, with a revision
as one action (`Revise`); `OpportunityMatching` has the same worker's family and
matching steps, for signals whose content does not change, and `OriginRecovery` the
collector and the result branch for a family whose origin is missing; in `PlanningWatcher` an ingestion is one
action (`Ingest`) and may be lost, which `SignalIngestion` opens up; the
lifecycle that `PlanningWatcher` and `CarePublication` read is written by a
recomputation both contain.

A definition whose name ends in `Bug` is its namesake with a plausible slip. No
action uses it; it is there to be put in the namesake's place, to see that a
property notices.

### 2.1 SignalIngestion

One action per S3 write, database transaction and SQS send of `ingest_signal`;
`job[w].step` is the next one and `job[w].key` the evidence key the thread holds.

| Action | Code |
|---|---|
| `Receive`, `Acknowledge`, `Abandon`, `Redeliver` | the SQS event source, `handler` and its `batchItemFailures`, timeouts and crashes |
| `FindSignal` | `find_signal` and the branch `ingest_signal` takes on its snapshot |
| `PutRaw`, `PutRevision` | `put_raw_evidence` |
| `StoreSignal` | `store_signal`: insert on conflict do nothing, read back, document, and the checks on the returned row |
| `LockForDispatch`, `SendEnrichment`, `MarkQueued` | the three parts of `dispatch_enrichment`, which sends while it holds the row lock |
| `StoreRevision`, `SendRevision` | `store_planning_revision`, `dispatch_revision_enrichment` |

Abstractions. A payload is a model value and its hash is that value. Object keys
keep what the code builds them from: identity, day and, for a revision, the hash.
A transaction that never waits for a lock another action may hold is one action.
Validation of the message body has been passed.

`SignalIngestion` implements `LockedDispatch`: an item is a signal, recorded when it
is stored, marked when `enrichment_queued_at` is set, and its phase is what the
worker that has locked its row has done (`Phase`). The steps of `dispatch_enrichment`
are its steps, a failure in between is its `RollBack`, everything else stutters. The
run checks it as `DispatchesAreLocked`.

### 2.2 PlanningWatcher

A watch row is enrolled, enabled and due, and has the snapshot its next poll is
compared with; a run row is QUEUED or settled. `coordinator[k]` holds the locals
of `enrol_care_planning_watches` (its plan, made from an unlocked read) and of
`queue_due_care_planning_watches` (what it swept, its budget, its items);
`collector[c]` those of one poll.

| Action | Code |
|---|---|
| `ReadCohort`, `Enrol` | enrolment's read and, later, its one write transaction; two inserts of a watch conflict |
| `LockState`, `SelectAndQueue` | the queueing transaction: state row FOR UPDATE, sweep of the old runs, budget, the new runs |
| `SendJob`, `SendJobFails`, `MarkQueueFailed` | the sends after the commit, and `QUEUE_FAILED` |
| `ReceiveJob`, `PollFinds`, `PollFails`, `OfferChange`, `OfferFails`, `SendResult`, `AcknowledgeJob` | `refresh_planning_lifecycle_watch` |
| `RecordResult` | `update_care_planning_watch_result` |
| `Block`, `Unblock`, `SetExecution`, `Recompute`, `RetryFailed` | the administrator's operations, the lifecycle recomputation, the MCP retry |
| `LoseJob`, `LoseResult`, `LoseChange`, `TakeResultAgain`, `CollectorStops`, `CoordinatorStops` | what SQS and Lambda may do |

Abstractions. Time is what it makes true: `ComesDue`, `GrowsOld` (a run is thirty
minutes old), `DayEnds`, `MonthEnds`. The cadence of a watch is fixed; the backoff
after an error only puts the next poll off. RATE_LIMITED is a FAILED. Identity
and staleness exclusions of `evaluate_planning_watch` are taken to pass. A row of
`runs` stands for one run after another: it is used again once no message, no
local and no table refers to it (`Free`), which keeps the model finite without
bounding the number of polls. Blocking an opportunity and the queueing SELECT are
atomic against each other because the SELECT locks the watch rows
(`FOR UPDATE OF w SKIP LOCKED`) that blocking updates.

### 2.3 CarePublication

`opportunity[o]` holds the columns the two batches and their policies look at,
`runner[r]` the locals of one execution: its task, the rest of its batch and the
items of its run.

| Action | Code |
|---|---|
| `Begin` | the state row FOR UPDATE, `require_recurring`, the RUNNING run |
| `Select` | the inventory: policy and hygiene over all opportunities, deferral, the first of the list |
| `Recheck` | the row is read again and judged alone; SKIPPED if it no longer qualifies |
| `Update`, `UpdateUnclear` | the conditional UPDATE with item and audit event; the same with the answer to COMMIT lost |
| `ItemFails`, `RecordFailed` | the `except` branch, whose insert does nothing when the item exists |
| `Finish`, `Crash` | end of the run; or a run that stays RUNNING |
| `SetPublication`, `SetBlock`, `SetSwitch`, `Merge`, `AuditMerge` | the administrator's operations |
| `EvidenceChanges`, `BecomeAlike` | ingestion, review and correlation, seen from here |
| `ReadRelationships`, `WriteLifecycle` | `recompute_care_opportunity_lifecycle_for_signal`, which reads without a lock |

`Publishable`, `Withdrawable`, `Duplicate` and `Derived` are the policies, reduced
to what they tell apart: of the linked signals, approved recruitment or Ofsted
evidence, granted, pending, appealed and refused applications; the five active
lifecycle stages are one. Generated titles, identity and redaction checks are
taken to pass. `evaluate_withdrawal` would also withdraw duplicates and superseded
records, but whatever is published counts as touched by a person, so the audit
never puts it in those categories; the branch is dead and not modelled.
REJECTED opportunities come from a clean-up by an operator and are left out.

### 2.4 SignalReview and ReviewPolicies

A signal is its kind (vertical, source, and the bucket of its identifier that the
holdouts go by) and its content: the classes of planning outcome its metadata
states and the classes of words its text has. `ReviewPolicies` translates the
decision functions of `review_triage.py`, `care_planning_review.py`,
`classification.py` and `care.py` over those classes; `PolicyOutcome` names the
outcome of each policy for a row.

| Action | Code |
|---|---|
| `Receive`, `SaveEnrichment`, `TriageOutcome`, `Assess`, `SaveAiReview`, `ApplyAiApproval`, `ApplyLawfulness`, `ApplySafeApproval` | `process_message`, one action per transaction; the worker keeps the content it read |
| `Revise`, `Duplicate`, `Fail` | a revision by ingestion, a second delivery, a record that fails at any step |
| `ReevaluateAiShadow` | the administrator's request for an assessment |
| `ReviewSignals` | `review_signal` and the bulk review, which alone is restricted to pending signals |
| `FastpathBacklog` ... `RoutineRecruitmentBacklog`, `ApplyBacklog` | the policies' backlogs: read, then one transaction per signal; four judge again under the row lock, the nursery policies write what they judged before |
| `CleanupRefused`, `CleanupWithdrawn`, `ReprocessPlanning`, `ReprocessRecruitment`, `ReclassifyPending`, `ApplyBatch` | one transaction over what was read |
| `RecalculateOpportunities`, `RecalculateFacts` | `recalculate_opportunity_creation`: read, then one transaction per signal, which merges the facts into the row whatever its review status is |

Abstractions. Words and fields are classes. One model and one prompt version, whose
answer is any of `Verdict`. A marker is the policy and its outcome. The nursery
backlogs run only when earlier human decisions agree with them; here they may.
`extracted_facts` are the facts that a policy reads (`row.facts`) and the markers
(`row.markers`); `classify_signal` always states all of the former, so that a merge
replaces them and keeps the latter. Other keys of `extracted_facts` no policy reads,
and their writers are left out: the recruiter's identity, the provenance of a planning
party and their backfills (`repository.py:6926`, `customer.py:1684`), and the
`latest_reprocess_evaluation` that reprocessing adds to decided rows.

`DecisionsStand` has two halves. The status of a decided signal and who signed it are
only replaced by a human. What the decision was based on stays too, but with two
exceptions the code makes: a message rewrites the facts of an Ofsted signal, and a
recalculation (`repository.py:7486`), which asks for no status, brings the facts, and
nothing else, to the content that it read. So the facts beside a decision need not be
those that it was made on.

### 2.5 OpportunityMatching

A signal says what its `scene` says (class, references, postcode, operator), which
never changes. Each transaction that reads and then writes is two actions, the plan
it made kept in `job[w]`, unless a lock keeps others out: the advisory lock of the
signal, the one of consolidations, the rows of the families.

| Action | Code |
|---|---|
| `TakeMessage`, `SendAgain`, `Fail` | the message, its redelivery, and a job that fails between transactions |
| `ReconcileReads`, `ReconcileWrites`, `ReconcileStored` | `reconcile_planning_family_signal` with `_attach_family_support`, before matching, after it, and for stored signals |
| `MatchReads`, `MatchEnds`, `MatchWrites`, `CorrelateApproved` | `correlate_signal` |
| `RecalculateStarts`, `ConsolidateSystemDuplicates`, `CleanupMatchReviews`, `RecalculateFacts` | `recalculate_opportunity_creation` and the consolidation it begins with |
| `CheckRequest`, `LinkSignal`, `CreateOpportunityFromSignal`, `MergeOpportunities`, `AcceptMatchReview`, `RejectMatchReview`, `UnlinkSignal`, `SplitOpportunity` | the administrator's operations; what they check is checked before they write |

Abstractions. Names and places are compared by equality and distance by postcode;
confidence scores and generated titles are left out, as is the branch that matches an
Ofsted event by its URN. `RecalculateFacts` has no facts to write, since contents do not
change here and the row says what they say; `SignalReview` has that write among changing
contents.

### 2.6 Backtesting, HistoricalReplay, IdempotentRuns

`HistoricalReplay` translates `replay_case` and `aggregate_results` over rows that
have an availability, a place and names as sets of compatible forms. `Backtesting`
keeps `runs[f]`, the statuses of the runs of fingerprint `f` in order of insertion,
and `job[j]`, the locals of one request.

| Action | Code |
|---|---|
| `StartRun`, `LookUpRun`, `LoadCases`, `LoadInputs`, `InsertRun`, `SaveRun`, `FailRun` | `execute_backtest`, one action per connection it opens |
| `CrashRun` | a request that is cut off: its run stays RUNNING |
| `SeedBenchmark`, `ImportCorpus`, `DayPasses` | what changes the inputs between those steps |

`Backtesting` implements `IdempotentRuns` under the mapping of each run to its status:
`BacktestsAreIdempotent` in the run, `RunsAreIdempotent` as a theorem. A request whose
COMMIT took effect may not hear of it (`unclear`). It then takes the run for failed, and
the `except` branch (`app/backtest_repository.py:528`) sets FAILED by the run's
identity, whatever its status: the results stay saved, and the fingerprint is free
for another run, although an identical run is called idempotent
(`docs/historical-backtesting.md:22`). `IdempotentRuns` says exactly this much: an
attempt ends once, except that a success its maker was not told of (`unanswered`) may
be revoked by that maker, once.

A source row is a version of a record: `store_planning_revision` puts a revision in
place of the version before, text, metadata and `discovered_at` included (`LiveRows`).
`HistoricalAvailability` dates an application by its publication, whichever version it
is, and `HistoricalSignalSnapshot` masks its status and decision, which the policy would
ask first (`Decision`): a row carries in `refused` whether they are negative, so that
masking matters, and its mutant is that the fields are left in.

`ORDER BY ... LIMIT n` is the set of the first `n` (`Earliest`); only the replay
itself, in which the order of the signals decides what becomes of them, is a fold
over a sequence (`InOrder`).

`BacktestsAreBlind` compares a result with the one the run would have had of what was
known on the case's day. What was known is not what the code says it was: a version is
known from the day it was observed, and the first version of a record from its
publication if that is earlier (`KnownBy`); of each record the latest known version
counts (`KnownRows`). Two kinds of inputs are excepted, and TLC violates the property
when either exception is removed (the first needs a snapshot later than its row):

* `Crowded`. Rows beyond `max_signals` crowd each other out, whenever they became
  available. And a curated snapshot takes the place of the stored row of the same
  record for all cases of a run (`app/backtest_repository.py:398`), also where it
  became available later than the row and only after a case's outcome; that case then
  loses evidence it had.
* `Rewritten`. A record was revised after the case's day, and the revision says
  something else than the version before (beyond its decision), or has no date of its
  own, or moved the record into or out of what the run queries, which goes by the last
  observation. Then what is known only later is replayed as known on the case's day, or
  what was known is missed. `ROADMAP.md:416-419` demands that only the source state of
  the time is used, and `docs/historical-backtesting.md:52` denies a destructive
  overwrite; `raw_signal_revisions` keeps the older versions, but the replay does not
  read them.

Where neither holds, a decision that comes after the case's day, on an application that
is otherwise unchanged, does not show: that is what masking is for.

### 2.7 OpportunityCleanup

A signal has the kind of evidence its facts are and its review; an opportunity has
the columns and references that make it used or touched. Each job reads in one
action and writes row by row later, under the checks the code repeats there:
`CleanupReads`/`CleanupRestores`/`CleanupResolves` (orphan cleanup),
`DriftReads`/`DriftWrites` (semantic drift, which plans again under its locks),
`BootstrapReads`/`BootstrapWrites` (lifecycle bootstrap),
`RecomputeReads`/`RecomputeWrites` (the worker's recomputation) and
`LinkReads`/`LinkWrites` (an administrator's link). The other actions are what
people, customers and evidence do. When `CleanupResolves` writes, it looks again at what
makes an opportunity used (`Unsafe`), not at its stage or its evidence, which may have
changed since the inventory. It is one step although enrolment may enable an old watch
by an UPDATE, which does not wait for the lock of the opportunity: that watch counts as
enabled after the write.

### 2.8 OriginRecovery

One planning family whose origin nobody has stored, the attempts to find it, and the
messages there and back. `QueueReads`, `QueueInserts` and the sends are
`queue_planning_origin_recovery`; `RecoverOrigin`, `RecoveryErrs` and
`RecoveryUnreported` the collector; `ApplyResult` the worker's result branch, in any
order and more than once; `StoreOrigin`, `ReconcileOrigin`, `ReconcileFollowUp` the
ingestion and reconciliation; `Revise` a revision or reclassification of a stored
application, which from then on founds something, is refused, or neither (`facts`);
`BackfillReads`, `BackfillWrites` the backfill of family metadata, which writes by the
facts of the candidates it read. `ReconcileOrigin` may act on any version since the
application was stored, as its row is read before the family is locked; a follow-up's
reconciliation reads the candidates under that lock.

`OriginsAreNotForgotten` has one exception, in the history variable `contradicted`. Two
applications of one reference that both found, or are both refused, make the family
AMBIGUOUS with its primary application kept. If one of them is then revised so that
nothing contradicts any more, nobody touches the family (`repository.py:5412-5431`
does nothing for an application that no longer founds), and a late NOT_FOUND,
AMBIGUOUS or PROVIDER_ERROR result (`repository.py:6105-6113`) leaves it MISSING or
AMBIGUOUS although its origin is stored, until the origin or a follow-up is reconciled
again. TLC finds this when the exception asks for a contradiction that still holds.

### 2.9 PlanningBackfill

A chain of chunks, each a message that the chunk before it sends, and the rows of
`source_runs` that report on it: `parent` for the backfill, `chunk` for each chunk's
collection, `final` for the recalculation afterwards. `queried` is no table: it is
what the provider has been asked, so that the rows can be compared with it.

| Action | Code |
|---|---|
| `StartBackfill`, `SendFirstChunk`, `FirstChunkFails`, `Recalculate` | the `planning-backfill-start` and `-recalculate` requests |
| `Receive`, `CollectStarts`, `CollectSucceeds`, `CollectFails` | the collector's `handler` and `collect_planning`; a chunk whose row says SUCCESS is not collected again |
| `UpdateRunProgress`, `SendNext`, `SendNextFails`, `FinishBackfill`, `FinishFailed` | what follows a chunk: progress, the next message or the end; a rate limit ends the chain, another failure leaves the message |
| `Ends`, `Stops`, `GivesUp` | a message deleted or delivered once more, an execution cut off, the dead-letter queue |

Abstractions. `start_run`, `finish_run` and `update_run_progress` swallow every
exception, so each write of a run row may be lost (`Written`). Days are numbers;
counts of records and the caps on them are left out. One recalculation request at
a time is a bound.

### 2.10 Services

`Services` composes `Backtesting`, which it extends, with `OpportunityCleanup` (`C`),
`OriginRecovery` (`O`) and `PlanningBackfill` (`H`), which it instantiates. They share
no table, so a behaviour picks one of them (`part`) and the other three stay at their
initial state, which spares TLC their product. Each component keeps a specification
of its own (`Spec`); `ServicesImplement` proves that a behaviour of `ServicesSpec` is
one of all four, three of them at rest. `ServicesAssumption` is what the components
assume of their constants; TLC evaluates it for those of `MCServices`.

## 3. Runs

| Run | Instance | Shows |
|---|---|---|
| `ingestion` | a planning record and a vacancy, two payloads, two workers, two observations, two deliveries, two days | type and the ingestion properties, safety and liveness |
| `revision_queueing` | one record | a code bug: a revision whose send failed is never enriched |
| `revision_flapping` | one record, four observations, no failure | README's "updating the existing canonical signal" fails when a record returns to an earlier revision |
| `planning_queueing` | two coordinators, no collector, two scenes: two watches of one opportunity and a quota of one; one watch with two run rows, a quota and a batch of two | one active run per watch, the quota, nothing queued that is off or blocked |
| `planning_polling` | one watch, one coordinator, one collector, every failure | snapshots, final results, every run settles, what is published is recorded |
| `planning_quota` | one watch, limit seven, six requests a poll | the requests of a day pass the documented quota |
| `publication_races` | one opportunity, two executions of either task, three changes by people or evidence | items tell the truth, automation keeps out, failures are bounded |
| `publication_batches` | two opportunities, batches of one, one execution at a time, one change | what waits is published or withdrawn in the end |
| `review` | one signal of five kinds, four contents, two workers, two events of revisions, faults, people, batches and recalculations | a decision stands, holdouts are for people, a refusal leaves the inbox, assessments are judged |
| `matching` | two scenes: a vacancy, a follow-up and its application of one site; a routine vacancy of another operator near an application; two workers, two opportunities, two events | no duplicate creation, families converge, rejected relationships stay rejected, evidence is not lost |
| `services` | two requests for two backtests; two jobs over two opportunities; one family, two applications, one of which is refused later; a backfill of one chunk or two, two collectors | replays are blind, runs are idempotent, cleanups spare what is in use and corrections are of present evidence when they write, an origin found is not forgotten, a backfill that says it is complete has covered its period |
| `human_publication` | one opportunity, one execution, two changes | automation withdraws a person's publication |

The three violated claims of the documents and the bug are described in
`PROJECT.json` under `findings`, with the lines that disagree.

### 3.1 Bounds, and why they are enough

* *Ingestion.* Two workers and two observations of the same identity give every
  race of `ingest_signal`; two payloads tell a duplicate from a revision; two days
  tell two raw keys of one identity apart; a second delivery is the retry. A
  vacancy beside the planning record covers the sources that do not revise. The
  safety properties are proved for every value of these.
* *Queueing.* Two coordinators are all the scheduled, admin and MCP callers that
  matter: the state row serialises the third as it does the second. The
  run has two scenes (`QueueingNext` of `MCPlanningWatcher`), since one small quota
  does not serve both questions: under a quota of one it alone keeps a watch to one
  run, and under a quota of two, two watches with a run each cannot pass it. In the first two watches of one
  opportunity compete for a quota of one: the row lock keeps two transactions from
  spending it twice. In the second the other watch's opportunity was blocked before
  anything else happened, and the remaining watch has two run rows, a quota of two and
  a batch of two: the quota would let it have both rows, and only the check of its own
  active runs keeps the second out. Both scenes are instances of `PlanningWatcher`'s
  `Next` that differ in constants; the theorems are for every value of these. Without
  a collector a run settles by a failed send or the sweep, which are the cases the
  queueing properties are about.
* *Polling.* One watch, because polls of different watches share nothing but the
  budget; one delivery per job, since a redelivered poll repeats a poll that a
  later run may make anyway. The month's quota is left to `planning_quota`: with
  it the day's would only be reached later.
* *Publication races.* The races are for one row, so one opportunity. Three
  changes are enough for: somebody takes a publication back while an older re-read
  of it is pending, publishes again, and its application is refused. `MaxRecomputed`
  is one lifecycle worked out and not yet written. A failure limit of two (three
  in the code) has failures below, at and, with overlapping runs, above it.
* *Publication batches.* Two opportunities and batches of one: one must wait for
  the other. One execution at a time, because overlapping ones only help progress
  and their races are in the other run.

* *Review.* Policies judge signals one by one, so one signal, which is of every kind
  that the policies tell apart (Care planning in a bucket that is held out and one
  that is not, nursery planning and recruitment, Ofsted). Its contents are each of
  the outcomes and the words that let each policy decide. Two workers are a
  redelivery that overlaps its first delivery or a revision's message that overtakes
  another; two events are a batch that reads and a person, a revision or a failure
  before it writes. A race takes one of each.
* *Matching.* A follow-up, its application and a third signal of the site are the
  smallest group with every way to match (by family, by reference, by identity);
  two opportunities are what a duplicate takes. In the first scene only
  recalculations and unlinking interfere, so that three signals are affordable; the
  second has two signals and every operation. Two jobs overlap in any way; more
  would only queue for the same locks.
* *Services.* Two requests race for a fingerprint; one of their windows ends before
  the outcome of a case and one after, and rows become available on either side of
  both; an application is refused after the outcome of the earlier case, in a revision
  that changes nothing else. Two opportunities of one project are each other's duplicate; four events
  are: a job reads, two changes, another job. In the recovery two founding applications,
  one of which is refused later, contradict each other and stop doing so; two attempts
  and one reported result, which may be applied again at any time, give the late and the
  repeated result. A backfill of two chunks has a first and a last one, the last
  shorter; two collectors are a chunk that is delivered while it is being collected.

### 3.2 Fairness

* *Ingestion*: a Lambda that holds a message goes on (weak fairness of its next
  step), SQS delivers what is visible. Observations, days, failures and
  redeliveries are never forced.
* *Watcher*: EventBridge calls the coordinator every six hours, queues deliver,
  collectors run on, time passes. Properties with "in the end" also assume that
  failures, administrators and the provider come to rest
  (`<>[][Works]_vars`): while calls fail for ever nothing can be promised. They
  may fail any number of times before.
* *Publication*: each coordinator is invoked again and again (strong fairness of
  `Schedule(k)`, since an execution of one task may be in the way of the other's
  in the bounded set of runners), a run that has begun goes on, days pass, and
  again failures and people come to rest.

* *Review* (`FairSpec`): a Lambda that holds a message runs on and the queue delivers
  (weak fairness). Nothing forces revisions, people or batches; failures are
  bounded, since SQS gives up after a few deliveries and the property is about
  messages that are still there.

The other runs check safety only.

## 4. Proofs

Every safety property that a run checks is also a theorem of TLAPS, for every value
of the constants: 15 state invariants and 11 properties of steps, the refinements of
`LockedDispatch` and `IdempotentRuns` among them, beside the type invariants. What remains with TLC
alone is listed at the end of this section.

Some things are alike in all eight modules. The inductive invariant is `IInv`, a
conjunction of named parts; there is one lemma per action (or per operator that
changes a row) and one that collects them; an action property follows from the
invariant together with what one step may do, which the same lemmas show. Where a
minimum, a fold or a recursive function occurs, the proof does not compute it, since
induction over data is out of the prover's reach. It uses what distinguishes the
value, and that such a value exists follows from a well-founded order on sets
(`WellFoundedInduction`) or by taking a smallest counterexample.

### 4.1 SignalIngestionProofs

For any signals, contents, number of workers, deliveries and days:

| Theorem | Property |
|---|---|
| `TypeCorrect` | `TypeOK` |
| `EvidenceStored` | `EvidenceIsStored` |
| `CanonicalEvidenced` | `CanonicalIsEvidenced` |
| `AcknowledgedRecorded` | `AcknowledgedIsRecorded` |
| `QueuedSent` | `QueuedMeansSent` |
| `MessagesEvidenced` | `MessagesNameEvidence` |
| `DispatchIsLocked` | `DispatchesAreLocked`: `SignalIngestion` implements `LockedDispatch` |
| `DispatchedOnce` | `NoDispatchAfterQueued`: what is marked is not sent again |
| `LockHoldersWork` | who holds a row lock is about to send or to commit, for that row |
| `LockedDispatchPromises` | `LockedDispatch` alone promises that what is marked was sent, and is not sent again |
| `NothingTakenBack` | `[][Grows]_vars`: no step removes evidence, a stored signal or a sent message |

They rest on `ConstantsAssumption` alone: source types are as listed, `None` is no
content, worker or row, and the bounds are natural numbers.

None of the properties is inductive. What a worker will do depends on what it has
seen, and other workers act in between, so the inductive invariant `IInv` says, for
every step a worker may be at, what must hold of the tables there (`WorkerInv`: at
`store` the object of its key exists; at `dispatch` and after, the signal is stored
and its key is a document of it; at `send` and `markQueued` it holds the row lock
and the row is not queued) beside what always holds of the tables (`SharedInv`).
The argument is rely-guarantee. `Grows` is what every step guarantees: nothing
stored, evidenced or sent is taken back. `WorkerKept` and `SharedKept` show that a
worker's and the tables' invariants survive any step that satisfies `Grows` and
leaves that worker alone; so the proof for an action only has to treat the worker
that moves and the tables it writes. `Moves` and `LocalStep` package that, there is
one lemma per action, and `NextInv` collects them.

The refinement needs one more fact. `WorkerInv` says that a worker at `send` holds a
lock, but the phase of a signal is read off the worker that holds its row, so a lock
must not be left behind by a worker that has gone on: `LockHolderWorks` says that
whoever holds one is at `send` or `markQueued` for that signal. Neither step waits for
a lock, so it also excludes a circle of workers that wait for one another. A step
of a worker that holds no lock changes no phase (`OthersLocks`, `PhaseKept`), and
is a stutter unless it stores a signal (`StoreDispatch`); an `Abandon` rolls back
or stutters (`AbandonDispatch`).

### 4.2 PlanningWatcherProofs

For any watches, run rows, coordinators, collectors, outcomes and limits:

| Theorem | Property |
|---|---|
| `TypeCorrect` | `TypeOK` |
| `OneRunActive` | `OneActiveRun` |
| `QuotaKept` | `ActiveWithinQuota` |
| `SnapshotsOffered` | `SnapshotWasOffered` |
| `ResultsAreFinal` | `ResultIsFinal` |
| `QueueingAllowed` | `QueuesOnlyWhenAllowed` |

They rest on `ConstantsAssumption` (run rows are finitely many, the first outcome is
undecided, every limit is a number) and `MessagesAssumption` (`None` is no message).

A coordinator computes its budget in one step and inserts runs in a later one, so
the quota alone is not inductive. `LockInv` carries the budget across: whoever
selects holds the state row, which keeps the others from selecting and execution
from being switched off; what it swept still waits for the others, since that is not
committed; and the runs that wait beside those leave room for its budget, in every
period. `MessagesInv` says that a message has one owner: a run that is still to be
sent has none and is on the list of one coordinator; a collector has the message of
its run alone. Without it a job could come back to a run whose row has been used
again, and a snapshot be recorded for the wrong watch. `OfferedInv` follows a
snapshot from the poll to the row: whatever carries one on (plans of enrolment,
items, jobs, results, the evidence of the opportunity), except the collector that is
about to offer it, carries one that was offered for that watch. Steps that leave the
tables of a part alone have frame lemmas (`QuietStep` and its like), so that each
action is proved for the parts it touches only.

### 4.3 CarePublicationProofs

For any opportunities, number of executions, batch and failure limits and any number
of changes:

| Theorem | Property |
|---|---|
| `TypeCorrect` | `TypeOK` |
| `ItemsTruthful` | `ItemsTellTheTruth` |
| `FailuresStayBounded` | `FailuresBounded` |
| `AutomationStaysOut` | `AutomationKeepsOut` |

They rest on `ConstantsAssumption`: opportunities are numbers, they and the
executions are finitely many, and the limits are positive.

`ItemsTellTheTruth` needs to know that the opportunity a run is at has no item yet,
unless its COMMIT took effect and was taken for a failure; otherwise an older
item would keep the PUBLISHED or WITHDRAWN one out. `Sound` says so of each
execution's locals. `FailuresBounded` is not inductive either: nothing in it limits
how many executions are still going to fail the same opportunity. `Bounded` counts
them (`Holding`): the failures of an opportunity and the executions that have it in
their batch are together within the bound. To select an opportunity takes that its
failures are below the limit, and each further failure is one holder less. All other
steps of an execution are `Moves` (the locals stay sound and it holds nothing new),
so each has one short lemma; what people and evidence do leaves locals and failures
alone. `AutomationKeepsOut` follows from the invariant and `ChangedFacts`: only an
UPDATE whose WHERE clause held adds to what a run has changed.

### 4.4 SignalReviewProofs

For any signals, contents, answers of the model, workers and number of events:

| Theorem | Property |
|---|---|
| `TypeCorrect` | `TypeOK` |
| `DecisionsAreFinal` | `DecisionsStand` |
| `HoldoutsAreForHumans` | `HeldOutIsForHumans` |

They rest on `ReviewConstants`: kinds, contents and answers are of the values the
code knows. The properties are about single steps, but two things must be known of
the state. A batch acts on rows it read before, so the invariant says of those rows
what it says of the present ones (`BatchInv`). And a policy that decides must not
meet another policy's holdout: seven of the eight hold out one signal in ten,
`care_planning_ai_approval` one in twenty. `HeldOut` says why that goes well: whoever
held a signal out, it is in the bucket of one in ten (`HoldoutBucket`: one in twenty
is among them), where the seven never decide; and on a children's home's application
the holdout is by a policy with a marker that the eighth looks for, under the lock
(`HoldoutIsRespected`). `MayBecome` lists what any step may make of a row, a recalculation (which keeps all but
the facts) among it, both properties follow from it, and there is one lemma per operator that changes a row and
one per action.

### 4.5 OpportunityMatchingProofs

For any signals, references, workers, number of opportunities and contents:

| Theorem | Property |
|---|---|
| `TypeCorrect` | `TypeOK` |
| `CreatesOnce` | `SystemCreatesOnce` |
| `FamiliesMeet` | `FamiliesConverge` |
| `RejectedStay` | `RejectedPairsStayRejected` |
| `EvidenceStays` | `EvidenceIsNotLost` |

They rest on `SignalsAssumption`: signals and opportunities are finitely many and
numbered, and a scene says of every signal what it is.

Jobs plan in one transaction and write in another, so the invariant says what a plan
may hold. `StateInv` has, for each operation and step of a job (`Shape`), that what
it has read exists and that a plan to merge is flat (an opportunity goes to one that
stays); that is what keeps evidence when the plan is carried out on rows that have
changed (`EvidenceStays`). `CreatedInv` is the advisory lock: who is about to create
an opportunity for a signal is alone with it, and the system has none for it yet.

`FamiliesMeet` is the hardest. A follow-up and its application are worked through in
any order, by overlapping jobs, and the follow-up is attached to the application's
opportunity by whoever comes second; the invariant must say who that will be. `FamilyRows` says
what holds when nobody is at work: a signal whose message is gone is filed in its
families, a clean application supports something, and so does every follow-up that
is filed with it. `WorkerFamily` says what a job owes: the pairs it has read are
attached when it commits. `Disjoint` says that two reconciliations under way share
no family (the rows are locked in order), so what one of them has read of its
families stays so (`Frozen`). A signal that people took from an opportunity, or
linked to one, is excepted (`Clean`), and cleanliness, once lost, never returns
(`RowMay`, `CleanKept`): that is why the exception may be stated about the present
row. Each action gets one lemma, which shows `StepOK`: the invariant again, what the
step may do to a link, and that no evidence is lost.

A new opportunity gets the first free number and a duplicate goes to the oldest,
both a minimum over a set; that a set of numbers has one follows from the
well-foundedness of the strict subset relation on finite sets (`NatMin`, `MinIn`).

### 4.6 ServicesProofs: backtests

For any requests, rows, evidence, cases and corpora:

| Theorem | Property |
|---|---|
| `RunsAreIdempotent` | `BacktestsAreIdempotent`: `Backtesting` implements `IdempotentRuns` |
| `RunsAreUnique` | no two runs of one fingerprint are live together |
| `TypeCorrect` | `TypeOK` |
| `ReplaysAreBlind` | `BacktestsAreBlind` |

The first two rest on no assumption at all. Their invariant is `Requests /\ Owners /\
OneLiveRun`. `OneLiveRun` alone does not tell whether the run a request writes to is
still its own: if another request could end it first, a FAILED could replace a SUCCESS
that its maker knows of. `Owners` says that a request that replays has a RUNNING run, one
that has not heard of its COMMIT a run that succeeded, and that no other request has it;
the unique index, in `InsertRun`, gives it one. `StatusKeeps` shows that setting its
status keeps all that, `EndsRuns` that it is an end or a revocation of the ledger.
`Unanswered` is read off the requests, and `UnansweredStep` says how a step of one
request changes it; a crash of one that is `unclear` settles its success
(`CrashLeaves`). Any other step leaves the ledger alone (`QuietStep`).

The others rest on `BacktestAssumption` (rows are finitely many, cases and the rows of
a corpus are told apart by their identities, days are numbers) and, for blindness,
on `ReplayAssumption`. A result compares two computations over different tables: the
one the run made, and the one it would have made of what was known at the time.
`TableInv` says that what a run saved comes from tables it had read (`SavedFrom`).
The rest is about operators: within the limit, the first `n` rows of a set are all of
it (`AllAreEarly`). A row that counts for a case has a version that was known by its day
and, unless it was rewritten, says the same (`VersionIsSame`, `KnownStands`), so that
after masking both computations see the same eligible rows (`AvailableIsKnown`,
`JudgedIsKnown`, `KnownIsJudged`, `SameRows`) under the same labels; the replay of a
case is a function of these (`SameCase`, `ResultOfCase`). Nothing has to be known of the
fold itself, only that it is given the same sequence.

This proof changed the model twice. The limits are sets of first rows instead of
sequences, which cannot be reasoned about without induction. And the property did
not hold for every instance: see `Crowded` in 2.6.

### 4.7 RecoveryAndCleanupProofs

For any applications, requests and results (`OriginRecovery`), and for any
opportunities, signals and jobs (`OpportunityCleanup`):

| Theorem | Property |
|---|---|
| `TypeCorrect` | `TypeOK` of `OriginRecovery` |
| `OriginsStay` | `OriginsAreNotForgotten` |
| `CleanupTypeCorrect` | `TypeOK` of `OpportunityCleanup` |
| `UsedAreSpared` | `CleanupSparesTheUsed` |
| `CorrectionsCurrent` | `CorrectionsAreCurrent` |

They rest on `OriginAssumption` and `CleanupAssumption`, which say of what kind the
constants are.

`OriginsAreNotForgotten` becomes inductive as `FamilyInv`: a family that is open but has
a primary implies `contradicted`, and so does any contradiction among the stored
applications as they are. A follow-up that finds one makes the family AMBIGUOUS; a
backfill writes by the facts of candidates it read before, but not when these
contradict one another; a result reopens nothing that was closed. Applications stay
stored while their facts change, so more of them contradict at least as much
(`MoreContradict`), and what a revision settles has been noted before.
`AttemptsInv` ties each result to an attempt that was sent: a request sends the last
attempt it inserted (`Last`), which no result can name before that.

The cleanups need no more than types (`CleanupInv`): each of their jobs looks again
when it writes, under the lock of the row, and the proof is that this is enough,
whatever was read before. `CleanupStep` states per row what a step may do, and both
properties follow.

### 4.8 PlanningBackfillProofs

For a period and chunks of any size and any number of executions:

| Theorem | Property |
|---|---|
| `TypeCorrect` | `TypeOK` |
| `CompleteCovers` | `CompleteIsCovered` |

They rest on `BackfillAssumption`: a period and a chunk have at least a day.

A chunk sends the next one after it is collected, so the invariant is about order: a
chunk is on the queue, or with an execution, only when all days before it have been
answered (`Before`), and one that is about to report has had its own answered as well
(`During`); then the last one's end covers the period. Run rows may be lost but are
never written before the work, so a chunk whose row says SUCCESS was collected
(`ChunkInv`), which lets a redelivered one be skipped. The chunks are a recursive
function; that it exists, and that its pieces cover the period without a gap, is
shown from the end of the period backwards, by a smallest counterexample.

### 4.9 ServicesProofs: the services together

For any constants of all four that satisfy `ServicesAssumption`:

| Theorem | Property |
|---|---|
| `ServicesImplement` | `ServicesSpec` implements `Spec` of `Backtesting`, `C!Spec`, `O!Spec` and `H!Spec` |
| `ServicesTypeCorrect` | `ServicesTypeOK` |
| `OriginsRemain` | `OriginsAreNotForgotten` |
| `BackfillsCover` | `CompleteIsCovered` |
| `CleanupsSpareTheUsed` | `CleanupSparesTheUsed` |
| `CorrectionsHold` | `CorrectionsAreCurrent` |

Each of the four next-state relations is shown to be a step of its component and a
stutter of the other three; then the theorems of 4.7 and 4.8 carry over. They are
about a component on its own and are used here through an instance of their module
(`Backfill`, `Recovery`): `SameBackfill`, `SameRecovery` and `SameCleanup` say that
its definitions are those of `H`, `O` and `C`.

### 4.10 What is only model-checked

* The liveness properties: `EveryObservationSettles` and `StoredIsEnriched` of the
  ingestion, `EveryRunSettles` and `PublishedIsRecorded` of the watcher,
  `EligibleIsPublished` and `StoppedIsWithdrawn` of the publication,
  `RefusedLeavesInbox` and `CareAssessmentIsJudged` of the review. They rest on
  fairness, hence on `ENABLED`, which is out of this prover's reach.

## 5. Not modelled

* Texts: prompts, parsers of providers, word tables, generated titles, confidence
  scores. What they decide is an input of the models.
* Front end, migrations, secrets, logging, Terraform beyond queues and schedules;
  reports, which only read.
* Matching by an Ofsted URN (`correlate_signal`), the current-recruitment and
  sensitivity evaluations of backtests, the cost estimates.
* Two behaviours of the code are in the models without a property, because nothing
  says they should not be: a backtest that dies leaves a RUNNING run that blocks its
  fingerprint for ever (`CrashRun`), and a recovery attempt whose request is cut off
  stays QUEUED and keeps its family from being tried again (`QueuerCrashes`).
* The run rows of the collectors other than the backfill's, which nothing reads back
  but reports, and the caps on records: `chunk_limits` gives every chunk at least
  three records, so that the chunks together may exceed the total.
* Organisation match reviews, the OAuth facade, customer provisioning and the digest,
  which are planned.

## 6. Plan

1. `CustomerDigest` and `CustomerAccess`: small modules of one or two tables; the
   digest's row is committed before its email is sent, two provisionings of a
   customer lock nothing.
2. `OrganisationReview`: a match review decided on candidates that have changed.
3. `OAuthTransactions`: a state is consumed once, by one delete.
4. Proofs: of these components, when they are modelled. Every safety property of
   the components there are is proved.

## 7. Running

    tlc -workers 2 -config PublicationRaces.cfg MCCarePublication
    tlc -workers 2 -config Services.cfg MCServices
    tlapm SignalIngestionProofs.tla
    tlapm PlanningWatcherProofs.tla
    tlapm CarePublicationProofs.tla
    tlapm SignalReviewProofs.tla
    tlapm OpportunityMatchingProofs.tla
    tlapm RecoveryAndCleanupProofs.tla
    tlapm PlanningBackfillProofs.tla
    tlapm ServicesProofs.tla
