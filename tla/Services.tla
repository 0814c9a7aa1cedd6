------------------------------- MODULE Services -------------------------------
(***************************************************************************)
(* Four services of the administrator that share no table: backtests, the  *)
(* cleanups of opportunities, the recovery of missing origins and the      *)
(* historical backfill.  A behaviour is of one of them (part); the tables  *)
(* of the others stay as they were at first.                               *)
(***************************************************************************)
EXTENDS Backtesting

CONSTANTS
    Opportunity, Signal, KindsOf, FirstSignals, FirstLinks, Alike, MaxEvents,
    Worker,         \* jobs of a cleanup, executions of the collector
    Origin, KindOf, RevisedTo, Provided, Collected,
    SameAuthority, SamePostcode, SameAddress, Queuer,
    MaxRecoveries,  \* bound: recovery attempts
    MaxResults, Scope

VARIABLES
    part,
    opportunity, link, signal, task, events,
    family, stored, facts, versions, contradicted, indexed, attempts, latest, queuer,
    requests, results, arriving, backfill,
    scope, request, parent, chunk, final, messages, collector, queried

cleanups == <<opportunity, link, signal, task, events>>
origins == <<family, stored, facts, versions, contradicted, indexed, attempts, latest, queuer,
             requests, results, arriving, backfill>>
chains == <<scope, request, parent, chunk, final, messages, collector, queried>>
------------------------------------------------------------------------------
C == INSTANCE OpportunityCleanup
O == INSTANCE OriginRecovery WITH MaxAttempts <- MaxRecoveries
H == INSTANCE PlanningBackfill

\* What an instance gives the constants satisfies (MCServices gives such).
ASSUME ServicesAssumption ==
    /\ ReplayAssumption /\ BacktestAssumption
    /\ C!CleanupAssumption /\ O!OriginAssumption /\ H!BackfillAssumption
------------------------------------------------------------------------------
tables == <<part, vars, cleanups, origins, chains>>

\* A part that does not run has one initial state.
ServicesInit ==
    /\ part \in {"backtests", "cleanups", "origins", "chains"}
    /\ Init /\ C!Init /\ O!Init /\ H!Init
    /\ part # "chains" => scope = CHOOSE bounds \in Scope : TRUE
    /\ part # "cleanups" => /\ signal = CHOOSE said \in FirstSignals : TRUE
                            /\ \A o \in Opportunity : opportunity[o].stage = None

Backtests == part = "backtests" /\ UNCHANGED <<part, cleanups, origins, chains>>
Cleanups == part = "cleanups" /\ UNCHANGED <<part, vars, origins, chains>>
Origins == part = "origins" /\ UNCHANGED <<part, vars, cleanups, chains>>
Chains == part = "chains" /\ UNCHANGED <<part, vars, cleanups, origins>>

BacktestStep ==
    \/ Backtests /\ DayPasses
    \/ Backtests /\ SeedBenchmark
    \/ \E m \in DOMAIN Manifest : Backtests /\ ImportCorpus(m)
    \/ \E j \in Executor :
          \/ \E w \in Window : Backtests /\ StartRun(j, w)
          \/ Backtests /\ LookUpRun(j)
          \/ Backtests /\ LoadCases(j)
          \/ Backtests /\ LoadInputs(j)
          \/ Backtests /\ InsertRun(j)
          \/ Backtests /\ SaveRun(j)
          \/ Backtests /\ FailRun(j)
          \/ Backtests /\ CrashRun(j)

CleanupStep ==
    \/ \E w \in Worker :
          \/ Cleanups /\ C!CleanupReads(w)
          \/ Cleanups /\ C!DriftReads(w)
          \/ Cleanups /\ C!BootstrapReads(w)
          \/ Cleanups /\ C!Ends(w)
          \/ Cleanups /\ C!DriftWrites(w)
          \/ Cleanups /\ C!LinkWrites(w)
          \/ \E o \in Opportunity :
                \/ Cleanups /\ C!RecomputeReads(w, o)
                \/ Cleanups /\ C!CleanupRestores(w, o)
                \/ Cleanups /\ C!CleanupResolves(w, o)
                \/ Cleanups /\ C!BootstrapWrites(w, o)
                \/ Cleanups /\ C!RecomputeWrites(w, o)
                \/ \E s \in Signal : Cleanups /\ C!LinkReads(w, o, s)
    \/ \E o \in Opportunity :
          \/ Cleanups /\ C!AdminMerges(o)
          \/ \E publication \in C!Publication : Cleanups /\ C!SetPublication(o, publication)
          \/ Cleanups /\ C!CustomerSaves(o)
          \/ Cleanups /\ C!WatchStarts(o)
          \/ Cleanups /\ C!MatchIsSuggested(o)
          \/ Cleanups /\ C!MatchIsReviewed(o)
          \/ \E b \in BOOLEAN : Cleanups /\ C!AutomationBlocked(o, b)
          \/ \E s \in Signal : Cleanups /\ C!AdminUnlinks(o, s)
    \/ \E s \in Signal, kind \in C!Kind, review \in {"APPROVED", "REJECTED"} :
          Cleanups /\ C!EvidenceChanges(s, kind, review)

OriginStep ==
    \/ \E q \in Queuer :
          \/ \E force \in BOOLEAN : Origins /\ O!QueueReads(q, force)
          \/ Origins /\ O!QueueInserts(q)
          \/ Origins /\ O!QueueSends(q)
          \/ Origins /\ O!QueueSendFails(q)
          \/ Origins /\ O!QueuerCrashes(q)
    \/ \E a \in DOMAIN attempts :
          \/ Origins /\ O!RetryComesDue(a)
          \/ \E found \in SUBSET Provided, truncated, care \in BOOLEAN :
                Origins /\ O!RecoverOrigin(a, found, truncated, care)
          \/ \E sent \in {{}} \cup {{x} : x \in Provided} : Origins /\ O!RecoveryErrs(a, sent)
          \/ \E x \in Provided : Origins /\ O!RecoveryUnreported(a, x)
    \/ \E m \in results : Origins /\ O!ApplyResult(m)
    \/ \E x \in Origin :
          \/ Origins /\ O!StoreOrigin(x)
          \/ Origins /\ O!ReconcileOrigin(x)
          \/ \E kind \in O!Kinds : Origins /\ O!Revise(x, kind)
    \/ Origins /\ O!ReconcileFollowUp
    \/ Origins /\ O!BackfillReads
    \/ Origins /\ O!BackfillWrites

ChainStep ==
    \/ Chains /\ H!StartBackfill
    \/ Chains /\ H!SendFirstChunk
    \/ Chains /\ H!FirstChunkFails
    \/ Chains /\ H!Recalculate
    \/ \E w \in Worker :
          \/ \E m \in messages : Chains /\ H!Receive(w, m)
          \/ Chains /\ H!CollectStarts(w)
          \/ Chains /\ H!CollectSucceeds(w)
          \/ \E why \in {"limited", "failed"} : Chains /\ H!CollectFails(w, why)
          \/ Chains /\ H!UpdateRunProgress(w)
          \/ Chains /\ H!SendNext(w)
          \/ Chains /\ H!SendNextFails(w)
          \/ Chains /\ H!FinishBackfill(w)
          \/ Chains /\ H!FinishFailed(w)
          \/ Chains /\ H!Ends(w)
          \/ Chains /\ H!Stops(w)
    \/ \E m \in messages : Chains /\ H!GivesUp(m)

ServicesNext == BacktestStep \/ CleanupStep \/ OriginStep \/ ChainStep

ServicesSpec == ServicesInit /\ [][ServicesNext]_tables
------------------------------------------------------------------------------
\* The tables of the service that runs have their types.
ServicesTypeOK ==
    /\ part = "backtests" => TypeOK
    /\ part = "cleanups" => C!TypeOK
    /\ part = "origins" => O!TypeOK
    /\ part = "chains" => H!TypeOK

\* The properties of the other services, see there.
CleanupSparesTheUsed == C!CleanupSparesTheUsed
CorrectionsAreCurrent == C!CorrectionsAreCurrent
OriginsAreNotForgotten == O!OriginsAreNotForgotten
CompleteIsCovered == H!CompleteIsCovered
==============================================================================
