----------------------------- MODULE ServicesProofs -----------------------------
(***************************************************************************)
(* For any requests, tables and corpora: the ledger of backtest runs       *)
(* implements the idempotent attempts of IdempotentRuns, no two runs of a  *)
(* fingerprint are ever live together, and what a run says of a case rests *)
(* only on what was known by the case's outcome and the day asked for.     *)
(*                                                                         *)
(* The services together implement each of the four, so what is proved of  *)
(* one, here, in PlanningBackfillProofs or in RecoveryAndCleanupProofs,    *)
(* holds of them together.                                                 *)
(***************************************************************************)
EXTENDS Services, FiniteSetTheorems, WellFoundedInduction, TLAPS

RunStatus == {"RUNNING", "SUCCESS", "FAILED"}

\* A request that has entered its run in the ledger, and what it says there.
Claims(j) == job[j].at \in {"replaying", "unclear"}
Mark(j) == IF job[j].at = "replaying" THEN "RUNNING" ELSE "SUCCESS"

\* A request is idle or has a fingerprint; imports are of bundled corpora.
Requests ==
    /\ imports \in Seq(DOMAIN Manifest)
    /\ runs \in [Fingerprint -> Seq(RunStatus)]
    /\ job = [j \in Executor |-> job[j]]
    /\ \A j \in Executor : job[j].at # "idle" => job[j].run \in Fingerprint

\* A request that replays has a RUNNING run, one that has not heard of its
\* COMMIT a run that SUCCEEDED, and it alone.
Owners ==
    \A j \in Executor : Claims(j) =>
        /\ job[j].index \in DOMAIN runs[job[j].run]
        /\ runs[job[j].run][job[j].index] = Mark(j)
        /\ \A k \in Executor : Claims(k) /\ k # j =>
              job[k].run # job[j].run \/ job[k].index # job[j].index

OneLiveRun ==
    \A f \in Fingerprint : \A i, k \in DOMAIN runs[f] :
        Live(runs[f][i]) /\ Live(runs[f][k]) => i = k

IInv == Requests /\ Owners /\ OneLiveRun
------------------------------------------------------------------------------
\* The fingerprint of a run asked for is one, whatever was imported.
LEMMA FingerprintOfStart ==
    ASSUME Requests, NEW w \in Window
    PROVE  <<w, CorpusVersion(LatestCorpus)>> \in Fingerprint
<1>1. LatestCorpus = None \/ LatestCorpus \in DOMAIN Manifest
  <2>1. imports = <<>> \/ (Len(imports) \in 1..Len(imports))
    BY DEF Requests
  <2> QED
    BY <2>1 DEF Requests, LatestCorpus
<1>2. CASE LatestCorpus = None
  BY <1>2 DEF CorpusVersion, Fingerprint
<1>3. CASE LatestCorpus # None
  <2>1. CorpusVersion(LatestCorpus) = Manifest[LatestCorpus].version
    BY <1>3 DEF CorpusVersion
  <2>2. CorpusVersion(LatestCorpus) \in CorpusVersions
    BY <1>1, <1>3, <2>1 DEF CorpusVersions
  <2> QED
    BY <2>2 DEF Fingerprint
<1> QED
  BY <1>2, <1>3

\* The runs whose saving other requests do not know of.
OthersUnanswered(j) ==
    {<<job[k].run, job[k].index>> : k \in {k \in Executor \ {j} : job[k].at = "unclear"}}

LEMMA UnansweredSplits ==
    ASSUME NEW j \in Executor
    PROVE  Unanswered = IF job[j].at = "unclear"
                          THEN OthersUnanswered(j) \cup {<<job[j].run, job[j].index>>}
                          ELSE OthersUnanswered(j)
BY DEF Unanswered, OthersUnanswered

\* What one request does changes what it knows itself.
LEMMA UnansweredStep ==
    ASSUME Requests, NEW j \in Executor, NEW v, job' = [job EXCEPT ![j] = v]
    PROVE  Unanswered' = IF v.at = "unclear"
                           THEN OthersUnanswered(j) \cup {<<v.run, v.index>>}
                           ELSE OthersUnanswered(j)
<1>1. \A k \in Executor : job'[k] = IF k = j THEN v ELSE job[k]
  BY DEF Requests
<1>2. OthersUnanswered(j)' = OthersUnanswered(j)
  BY <1>1 DEF OthersUnanswered
<1>3. Unanswered' = IF job'[j].at = "unclear"
                      THEN OthersUnanswered(j)' \cup {<<job'[j].run, job'[j].index>>}
                      ELSE OthersUnanswered(j)'
  BY DEF Unanswered, OthersUnanswered
<1> QED
  BY <1>1, <1>2, <1>3

\* A request that moves on without its run keeps the invariant.
LEMMA QuietStep ==
    ASSUME IInv, NEW j \in Executor, NEW v,
           v.at \notin {"replaying", "unclear"}, v.at # "idle" => v.run \in Fingerprint,
           job' = [job EXCEPT ![j] = v], runs' = runs, imports' = imports
    PROVE  IInv' /\ (job[j].at # "unclear" => UNCHANGED Ledger!ledger)
<1>1. \A k \in Executor : job'[k] = IF k = j THEN v ELSE job[k]
  BY DEF IInv, Requests
<1>2. Requests'
  <2>1. job' = [k \in Executor |-> job'[k]]
    BY DEF IInv, Requests
  <2> QED
    BY <1>1, <2>1 DEF IInv, Requests
<1>3. Owners'
  BY <1>1 DEF IInv, Owners, Claims, Mark
<1>4. OneLiveRun'
  BY DEF IInv, OneLiveRun
<1>5. job[j].at # "unclear" => Unanswered' = Unanswered
  BY UnansweredStep, UnansweredSplits DEF IInv
<1> QED
  BY <1>2, <1>3, <1>4, <1>5 DEF IInv, Ledger!ledger

\* An insertion begins an attempt of the ledger and keeps the invariant.
LEMMA InsertionBegins ==
    ASSUME IInv, NEW j \in Executor, InsertRun(j), ~Conflicts(job[j].run)
    PROVE  IInv' /\ Ledger!Begin(job[j].run)
<1> DEFINE f == job[j].run
           n == Len(runs[f]) + 1
<1>1. f \in Fingerprint /\ runs[f] \in Seq(RunStatus)
  BY DEF IInv, Requests, InsertRun
<1>2. \A i \in DOMAIN runs[f] : ~Live(runs[f][i])
  BY DEF Conflicts, HasLiveRun
<1>3. /\ runs' = [runs EXCEPT ![f] = Append(runs[f], "RUNNING")]
      /\ imports' = imports
      /\ job' = [job EXCEPT ![j] =
                   [at |-> "replaying", run |-> f, links |-> job[j].links,
                    cases |-> job[j].cases, rows |-> job[j].rows,
                    evidence |-> job[j].evidence, index |-> n]]
  BY DEF InsertRun
<1>4. Ledger!Begin(f)
  <2>1. Unanswered' = Unanswered
    BY <1>3, UnansweredStep, UnansweredSplits DEF IInv, InsertRun
  <2> QED
    BY <1>2, <1>3, <2>1 DEF Ledger!Begin, Ledger!Live, Live
<1>5. /\ DOMAIN runs'[f] = 1..n /\ n \in Nat /\ DOMAIN runs[f] = 1..(n - 1)
      /\ runs'[f][n] = "RUNNING"
      /\ \A i \in DOMAIN runs[f] : runs'[f][i] = runs[f][i]
      /\ \A g \in Fingerprint : g # f => runs'[g] = runs[g]
      /\ runs' \in [Fingerprint -> Seq(RunStatus)]
  <2>1. runs'[f] = Append(runs[f], "RUNNING")
    BY <1>1, <1>3 DEF IInv, Requests
  <2>2. "RUNNING" \in RunStatus
    BY DEF RunStatus
  <2>3. Append(runs[f], "RUNNING") \in Seq(RunStatus)
    BY <1>1, <2>2
  <2>4. runs' \in [Fingerprint -> Seq(RunStatus)]
    BY <1>1, <1>3, <2>3 DEF IInv, Requests
  <2> QED
    BY <1>1, <1>3, <2>1, <2>4 DEF IInv, Requests
<1>6. /\ \A k \in Executor : k # j => job'[k] = job[k]
      /\ job'[j].at = "replaying" /\ job'[j].run = f /\ job'[j].index = n
      /\ job' = [k \in Executor |-> job'[k]]
  BY <1>3 DEF IInv, Requests
<1>7. Requests'
  BY <1>1, <1>3, <1>5, <1>6 DEF IInv, Requests
<1>8. Owners'
  <2> SUFFICES ASSUME NEW k \in Executor, Claims(k)'
               PROVE  /\ job'[k].index \in DOMAIN runs'[job'[k].run]
                      /\ runs'[job'[k].run][job'[k].index] = Mark(k)'
                      /\ \A l \in Executor : Claims(l)' /\ l # k =>
                            job'[l].run # job'[k].run \/ job'[l].index # job'[k].index
    BY DEF Owners
  <2>1. \A l \in Executor : l # j /\ Claims(l)' =>
            /\ job'[l].run \in Fingerprint
            /\ job'[l].index \in DOMAIN runs[job'[l].run]
            /\ runs[job'[l].run][job'[l].index] = Mark(l)'
            /\ job'[l].run # f \/ job'[l].index # n
    BY <1>5, <1>6 DEF IInv, Requests, Owners, Claims, Mark
  <2>2. CASE k = j
    BY <1>5, <1>6, <2>1, <2>2 DEF Mark
  <2>3. CASE k # j
    <3>1. /\ job'[k].run \in Fingerprint
          /\ job'[k].index \in DOMAIN runs[job'[k].run]
          /\ runs[job'[k].run][job'[k].index] = Mark(k)'
          /\ job'[k].run # f \/ job'[k].index # n
      BY <2>1, <2>3
    <3>2. /\ job'[k].index \in DOMAIN runs'[job'[k].run]
          /\ runs'[job'[k].run][job'[k].index] = Mark(k)'
      <4>1. CASE job'[k].run = f
        <5>1. job'[k].index \in DOMAIN runs[f] /\ runs[f][job'[k].index] = Mark(k)'
          BY <3>1, <4>1
        <5>2. runs'[f][job'[k].index] = Mark(k)'
          BY <1>5, <5>1
        <5>3. job'[k].index \in DOMAIN runs'[f]
          BY <1>5, <5>1
        <5> QED
          BY <4>1, <5>2, <5>3
      <4>2. CASE job'[k].run # f
        <5>1. runs'[job'[k].run] = runs[job'[k].run]
          BY <1>5, <3>1, <4>2
        <5> QED
          BY <3>1, <5>1
      <4> QED
        BY <4>1, <4>2
    <3>3. \A l \in Executor : Claims(l)' /\ l # k =>
              job'[l].run # job'[k].run \/ job'[l].index # job'[k].index
      BY <1>6, <2>3, <3>1 DEF IInv, Owners, Claims
    <3> QED
      BY <3>2, <3>3
  <2> QED
    BY <2>2, <2>3
<1>9. OneLiveRun'
  <2>1. \A i \in DOMAIN runs'[f] : Live(runs'[f][i]) => i = n
    BY <1>2, <1>5
  <2> QED
    BY <1>5, <2>1 DEF IInv, OneLiveRun
<1> QED
  BY <1>4, <1>7, <1>8, <1>9 DEF IInv

\* The status a request gives its run keeps the invariant.
LEMMA StatusKeeps ==
    ASSUME IInv, NEW j \in Executor, Claims(j), NEW status \in {"SUCCESS", "FAILED"},
           status = "SUCCESS" => job[j].at = "replaying", SetStatus(j, status),
           NEW v, v.at = "idle" \/ (v.at = "unclear" /\ status = "SUCCESS"),
           v.at = "unclear" => v.run = job[j].run /\ v.index = job[j].index,
           job' = [job EXCEPT ![j] = v], imports' = imports
    PROVE  IInv'
<1> DEFINE f == job[j].run
           n == job[j].index
<1>1. /\ f \in Fingerprint /\ n \in DOMAIN runs[f] /\ runs[f][n] = Mark(j)
      /\ runs[f] \in Seq(RunStatus)
  BY DEF IInv, Requests, Owners, Claims
<1>2. runs' = [runs EXCEPT ![f] = [runs[f] EXCEPT ![n] = status]]
  BY DEF SetStatus
<1>3. /\ runs' \in [Fingerprint -> Seq(RunStatus)]
      /\ DOMAIN runs'[f] = DOMAIN runs[f] /\ runs'[f][n] = status
      /\ \A i \in DOMAIN runs[f] : i # n => runs'[f][i] = runs[f][i]
      /\ \A g \in Fingerprint : g # f => runs'[g] = runs[g]
  <2>1. status \in RunStatus
    BY DEF RunStatus
  <2>2. [runs[f] EXCEPT ![n] = status] \in Seq(RunStatus)
    BY <1>1, <2>1
  <2> QED
    BY <1>1, <1>2, <2>2 DEF IInv, Requests
<1>4. /\ \A k \in Executor : k # j => job'[k] = job[k]
      /\ job'[j] = v /\ job' = [k \in Executor |-> job'[k]]
  BY DEF IInv, Requests
<1>5. Requests'
  BY <1>1, <1>3, <1>4 DEF IInv, Requests
<1>6. Owners'
  <2> SUFFICES ASSUME NEW k \in Executor, job'[k].at \in {"replaying", "unclear"}
               PROVE  /\ job'[k].index \in DOMAIN runs'[job'[k].run]
                      /\ runs'[job'[k].run][job'[k].index] =
                            IF job'[k].at = "replaying" THEN "RUNNING" ELSE "SUCCESS"
                      /\ \A l \in Executor :
                            job'[l].at \in {"replaying", "unclear"} /\ l # k =>
                               job'[l].run # job'[k].run \/ job'[l].index # job'[k].index
    BY DEF Owners, Claims, Mark
  <2>1. \A l \in Executor : l # j /\ job'[l].at \in {"replaying", "unclear"} =>
            /\ job'[l] = job[l] /\ job[l].run \in Fingerprint
            /\ job[l].index \in DOMAIN runs[job[l].run]
            /\ runs[job[l].run][job[l].index] =
                  IF job[l].at = "replaying" THEN "RUNNING" ELSE "SUCCESS"
            /\ job[l].run # f \/ job[l].index # n
    BY <1>4 DEF IInv, Requests, Owners, Claims, Mark
  <2>2. CASE k = j
    <3>1. v.at = "unclear" /\ status = "SUCCESS" /\ v.run = f /\ v.index = n
      BY <1>4, <2>2
    <3> QED
      BY <1>1, <1>3, <1>4, <2>1, <2>2, <3>1
  <2>3. CASE k # j
    <3>1. /\ job[k].index \in DOMAIN runs'[job[k].run]
          /\ runs'[job[k].run][job[k].index] = runs[job[k].run][job[k].index]
      BY <1>3, <2>1, <2>3
    <3>2. \A l \in Executor : job'[l].at \in {"replaying", "unclear"} /\ l # k =>
              job'[l].run # job[k].run \/ job'[l].index # job[k].index
      BY <1>4, <2>1, <2>3 DEF IInv, Owners, Claims
    <3> QED
      BY <2>1, <2>3, <3>1, <3>2
  <2> QED
    BY <2>2, <2>3
<1>7. OneLiveRun'
  <2>1. Live(runs[f][n])
    BY <1>1 DEF Live, Mark
  <2>2. ASSUME NEW g \in Fingerprint, NEW i \in DOMAIN runs'[g], Live(runs'[g][i])
        PROVE  i \in DOMAIN runs[g] /\ Live(runs[g][i])
    BY <1>3, <2>1, <2>2
  <2> QED
    BY <2>2 DEF IInv, OneLiveRun
<1> QED
  BY <1>5, <1>6, <1>7 DEF IInv

\* In the ledger a saving is an end, a failure an end, or takes the success back
\* that the request has not heard of.
LEMMA EndsRuns ==
    ASSUME IInv, NEW j \in Executor, SaveRun(j) \/ FailRun(j)
    PROVE  IInv' /\ Ledger!Next
<1> DEFINE f == job[j].run
           n == job[j].index
<1>1. /\ Claims(j) /\ f \in Fingerprint /\ n \in DOMAIN runs[f] /\ runs[f][n] = Mark(j)
      /\ <<f, n>> \notin OthersUnanswered(j)
  <2>1. Claims(j)
    BY DEF SaveRun, FailRun, Claims
  <2>2. f \in Fingerprint /\ n \in DOMAIN runs[f] /\ runs[f][n] = Mark(j)
    BY <2>1 DEF IInv, Requests, Owners, Claims
  <2>3. \A k \in Executor \ {j} : job[k].at = "unclear" => job[k].run # f \/ job[k].index # n
    BY <2>1 DEF IInv, Owners, Claims
  <2> QED
    BY <2>1, <2>2, <2>3 DEF OthersUnanswered
<1>2. CASE SaveRun(j)
  <2>1. PICK v \in {NoJob, [at |-> "unclear", run |-> f, index |-> n]} :
            job' = [job EXCEPT ![j] = v]
    BY <1>2 DEF SaveRun
  <2>2. job[j].at = "replaying" /\ SetStatus(j, "SUCCESS") /\ imports' = imports
    BY <1>2 DEF SaveRun
  <2>3. v.at = "idle" \/ (v.at = "unclear" /\ v.run = f /\ v.index = n)
    BY <2>1 DEF NoJob
  <2>4. IInv'
    BY <1>1, <2>1, <2>2, <2>3, StatusKeeps
  <2>5. \/ Unanswered' = Unanswered
        \/ Unanswered' = Unanswered \cup {<<f, n>>}
    <3>1. Unanswered = OthersUnanswered(j)
      BY <2>2, UnansweredSplits
    <3>2. Unanswered' = IF v.at = "unclear" THEN OthersUnanswered(j) \cup {<<v.run, v.index>>}
                        ELSE OthersUnanswered(j)
      BY <2>1, UnansweredStep DEF IInv
    <3> QED
      BY <2>3, <3>1, <3>2
  <2>6. Ledger!End(f, n, "SUCCESS")
    BY <1>1, <2>2, <2>5 DEF Ledger!End, Ledger!Becomes, SetStatus, Mark
  <2> QED
    BY <1>1, <2>4, <2>6 DEF Ledger!Next, Ledger!Outcome
<1>3. CASE FailRun(j)
  <2>1. job' = [job EXCEPT ![j] = NoJob] /\ SetStatus(j, "FAILED") /\ imports' = imports
    BY <1>3 DEF FailRun
  <2>2. NoJob.at = "idle"
    BY DEF NoJob
  <2>3. IInv'
    BY <1>1, <2>1, <2>2, StatusKeeps
  <2>4. Unanswered' = OthersUnanswered(j)
    BY <2>1, <2>2, UnansweredStep DEF IInv
  <2>5. CASE job[j].at = "replaying"
    <3>1. Unanswered' = Unanswered
      BY <2>4, <2>5, UnansweredSplits
    <3>2. Ledger!End(f, n, "FAILED")
      BY <1>1, <2>1, <2>5, <3>1 DEF Ledger!End, Ledger!Becomes, SetStatus, Mark
    <3> QED
      BY <1>1, <2>3, <3>2 DEF Ledger!Next, Ledger!Outcome
  <2>6. CASE job[j].at = "unclear"
    <3>1. <<f, n>> \in Unanswered /\ Unanswered' = Unanswered \ {<<f, n>>}
      BY <1>1, <2>4, <2>6, UnansweredSplits
    <3>2. Ledger!Revoke(f, n)
      BY <2>1, <3>1 DEF Ledger!Revoke, Ledger!Becomes, SetStatus
    <3> QED
      BY <1>1, <2>3, <3>2 DEF Ledger!Next
  <2> QED
    BY <1>1, <2>5, <2>6 DEF Claims
<1> QED
  BY <1>2, <1>3

\* A request that is cut off leaves its run as it is.
LEMMA CrashLeaves ==
    ASSUME IInv, NEW j \in Executor, CrashRun(j)
    PROVE  IInv' /\ [Ledger!Next]_(Ledger!ledger)
<1> DEFINE f == job[j].run
           n == job[j].index
<1>1. job' = [job EXCEPT ![j] = NoJob] /\ NoJob.at = "idle" /\ runs' = runs /\ imports' = imports
  BY DEF CrashRun, NoJob
<1>2. IInv' /\ (job[j].at # "unclear" => UNCHANGED Ledger!ledger)
  BY <1>1, QuietStep
<1>3. CASE job[j].at = "unclear"
  <2>1. f \in Fingerprint /\ n \in DOMAIN runs[f]
    BY <1>3 DEF IInv, Requests, Owners, Claims
  <2>2. <<f, n>> \notin OthersUnanswered(j)
    <3>1. \A k \in Executor \ {j} : job[k].at = "unclear" => job[k].run # f \/ job[k].index # n
      BY <1>3 DEF IInv, Owners, Claims
    <3> QED
      BY <3>1 DEF OthersUnanswered
  <2>3. Unanswered' = OthersUnanswered(j)
    BY <1>1, UnansweredStep DEF IInv
  <2>4. Ledger!Settle(f, n)
    BY <1>1, <1>3, <2>2, <2>3, UnansweredSplits DEF Ledger!Settle
  <2> QED
    BY <1>2, <2>1, <2>4 DEF Ledger!Next
<1> QED
  BY <1>2, <1>3
------------------------------------------------------------------------------
LEMMA InitInv == Init => IInv
  BY DEF Init, IInv, Requests, Owners, OneLiveRun, Claims, NoJob

\* Every step keeps the invariant, and is a step of the ledger or leaves it.
LEMMA StepInv ==
    ASSUME IInv, [Next]_vars
    PROVE  IInv' /\ [Ledger!Next]_(Ledger!ledger)
<1> USE DEF Ledger!ledger
<1>1. CASE UNCHANGED vars
  BY <1>1 DEF vars, Unanswered, IInv, Requests, Owners, OneLiveRun, Claims, Mark
<1>2. CASE DayPasses \/ SeedBenchmark
  <2>1. imports' = imports /\ runs' = runs /\ job' = job
    BY <1>2 DEF DayPasses, SeedBenchmark
  <2> QED
    BY <2>1 DEF IInv, Requests, Owners, OneLiveRun, Claims, Mark, Unanswered
<1>3. ASSUME NEW m \in DOMAIN Manifest, ImportCorpus(m)
      PROVE  IInv' /\ UNCHANGED Ledger!ledger
  <2>1. imports' \in Seq(DOMAIN Manifest)
    BY <1>3 DEF ImportCorpus, IInv, Requests
  <2> QED
    BY <1>3, <2>1 DEF ImportCorpus, IInv, Requests, Owners, OneLiveRun, Claims, Mark, Unanswered
<1>4. ASSUME NEW j \in Executor, NEW w \in Window, StartRun(j, w)
      PROVE  IInv' /\ UNCHANGED Ledger!ledger
  BY <1>4, FingerprintOfStart, QuietStep DEF StartRun, IInv
<1>5. ASSUME NEW j \in Executor,
             LookUpRun(j) \/ LoadCases(j) \/ LoadInputs(j)
      PROVE  IInv' /\ UNCHANGED Ledger!ledger
  <2>1. job[j].at # "idle" /\ job[j].run \in Fingerprint
    BY <1>5 DEF LookUpRun, LoadCases, LoadInputs, IInv, Requests
  <2>2. CASE LookUpRun(j)
    BY <2>1, <2>2, QuietStep DEF LookUpRun, NoJob
  <2>3. CASE LoadCases(j)
    BY <2>1, <2>3, QuietStep DEF LoadCases, NoJob
  <2>4. CASE LoadInputs(j)
    BY <2>1, <2>4, QuietStep DEF LoadInputs
  <2> QED
    BY <1>5, <2>2, <2>3, <2>4
<1>6. ASSUME NEW j \in Executor, InsertRun(j)
      PROVE  IInv' /\ [Ledger!Next]_(Ledger!ledger)
  <2>1. CASE Conflicts(job[j].run)
    BY <1>6, <2>1, QuietStep DEF InsertRun, NoJob
  <2>2. CASE ~Conflicts(job[j].run)
    <3>1. IInv' /\ Ledger!Begin(job[j].run) /\ job[j].run \in Fingerprint
      BY <1>6, <2>2, InsertionBegins DEF InsertRun, IInv, Requests
    <3> QED
      BY <3>1 DEF Ledger!Next
  <2> QED
    BY <2>1, <2>2
<1>7. ASSUME NEW j \in Executor, SaveRun(j) \/ FailRun(j) \/ CrashRun(j)
      PROVE  IInv' /\ [Ledger!Next]_(Ledger!ledger)
  BY <1>7, EndsRuns, CrashLeaves
<1> QED
  BY <1>1, <1>2, <1>3, <1>4, <1>5, <1>6, <1>7 DEF Next
------------------------------------------------------------------------------
THEOREM Inductive == Spec => []IInv
<1>1. IInv /\ [Next]_vars => IInv'
  BY StepInv
<1> QED
  BY InitInv, <1>1, PTL DEF Spec

\* Whatever requests race, crash and come again for whatever windows and corpora,
\* at most one run of a fingerprint is under way or has succeeded.
THEOREM RunsAreUnique == Spec => []Ledger!OneLiveAttempt
<1>1. IInv => Ledger!OneLiveAttempt
  BY DEF IInv, OneLiveRun, Live, Ledger!OneLiveAttempt, Ledger!Live
<1> QED
  BY Inductive, <1>1, PTL

\* The ledger of backtest runs implements the idempotent attempts: a run begins
\* only when its fingerprint has no live one, and ends once, but that a request
\* which does not learn that its results were saved may call it FAILED.
THEOREM RunsAreIdempotent == Spec => BacktestsAreIdempotent
<1>1. Init => Ledger!Init
  BY DEF Init, NoJob, Unanswered, Ledger!Init
<1>2. IInv /\ [Next]_vars => [Ledger!Next]_(Ledger!ledger)
  BY StepInv
<1> QED
  BY Inductive, <1>1, <1>2, PTL DEF Spec, BacktestsAreIdempotent, Ledger!Spec
------------------------------------------------------------------------------
(* The replay is blind to what came later.                                   *)

\* The first n of a set of at most n elements are all of them.
LEMMA AllAreEarly ==
    ASSUME NEW S, IsFiniteSet(S), NEW n \in Nat, Cardinality(S) <= n,
           NEW x \in S, NEW before \in SUBSET S, x \notin before
    PROVE  Cardinality(before) < n
<1>1. Cardinality(before) <= Cardinality(S) /\ Cardinality(before) # Cardinality(S)
  BY FS_Subset
<1>2. IsFiniteSet(before)
  BY FS_Subset
<1> QED
  BY <1>1, <1>2, FS_CardinalityType

LEMMA ObservedOnce ==
    ASSUME NEW r, IsRow(r)
    PROVE  ~Observed(r, r)
BY DEF IsRow, Observed

\* The links that count, of a corpus within the limit.
Counted(cases, links) ==
    {l \in links : \E c \in cases :
        /\ c.id = l.case
        /\ EvidenceEligibility(c, l.row, l.confidence, l.trusted) = "ELIGIBLE"}

LEMMA LinksCounted ==
    ASSUME ReplayAssumption, BacktestAssumption, NEW cases \in SUBSET Case,
           NEW links, IsCorpus(links), Cardinality(links) <= MaxSignals
    PROVE  HistoricalCorpusInputs(cases, links) = Counted(cases, links)
<1> DEFINE S == Counted(cases, links)
           earlier(k, l) == Observed(k.row, l.row) \/ (k.row = l.row /\ k.case < l.case)
<1>1. S \in SUBSET links
  BY DEF Counted
<1>2. IsFiniteSet(S) /\ Cardinality(S) <= MaxSignals
  <2>1. IsFiniteSet(S) /\ Cardinality(S) <= Cardinality(links)
    BY <1>1, FS_Subset DEF IsCorpus
  <2> QED
    BY <2>1, FS_CardinalityType DEF IsCorpus, ReplayAssumption
<1>3. ASSUME NEW x \in S
      PROVE  Cardinality({y \in S : earlier(y, x)}) < MaxSignals
  <2>1. ~Observed(x.row, x.row)
    BY <1>1, ObservedOnce DEF IsCorpus
  <2>2. x.case \in Nat
    BY DEF Counted, BacktestAssumption
  <2>3. x \notin {y \in S : earlier(y, x)}
    BY <2>1, <2>2
  <2>4. {y \in S : earlier(y, x)} \in SUBSET S
    OBVIOUS
  <2> HIDE DEF S, earlier
  <2> QED
    BY <1>2, <2>3, <2>4, AllAreEarly DEF ReplayAssumption
<1>4. HistoricalCorpusInputs(cases, links) =
          {x \in S : Cardinality({y \in S : earlier(y, x)}) < MaxSignals}
  BY DEF HistoricalCorpusInputs, Earliest, Counted
<1> HIDE DEF S
<1> QED
  BY <1>3, <1>4 DEF S

\* The stored rows of the window of a run.
Wanted(cases, rows, w) == {r \in rows : Queried(r, cases, w)}

LEMMA RowsWanted ==
    ASSUME ReplayAssumption, BacktestAssumption, NEW rows \in SUBSET SourceRow,
           Cardinality(rows) <= MaxSignals, NEW cases, NEW w
    PROVE  InputRows(cases, rows, w) = Wanted(cases, rows, w)
<1> DEFINE S == Wanted(cases, rows, w)
<1>1. S \in SUBSET rows
  BY DEF Wanted
<1>2. IsFiniteSet(S) /\ Cardinality(S) <= MaxSignals
  <2>1. IsFiniteSet(rows)
    BY FS_Subset DEF BacktestAssumption
  <2>2. IsFiniteSet(S) /\ Cardinality(S) <= Cardinality(rows)
    BY <1>1, <2>1, FS_Subset
  <2> QED
    BY <2>1, <2>2, FS_CardinalityType DEF ReplayAssumption
<1>3. ASSUME NEW x \in S
      PROVE  Cardinality({y \in S : Observed(y, x)}) < MaxSignals
  <2>1. ~Observed(x, x)
    BY <1>1, ObservedOnce DEF BacktestAssumption, IsStoredRow
  <2>2. {y \in S : Observed(y, x)} \in SUBSET S /\ x \notin {y \in S : Observed(y, x)}
    BY <2>1
  <2> HIDE DEF S
  <2> QED
    BY <1>2, <2>2, AllAreEarly DEF ReplayAssumption
<1>4. InputRows(cases, rows, w) = {x \in S : Cardinality({y \in S : Observed(y, x)}) < MaxSignals}
  BY DEF InputRows, Earliest, Wanted
<1> HIDE DEF S
<1> QED
  BY <1>3, <1>4 DEF S

\* The curated records, and the stored rows they do not stand for.
Combined(curated, fetched) ==
    {l.row : l \in curated} \cup {r \in fetched : \A l \in curated : l.row.id # r.id}

LEMMA RowsCombined ==
    ASSUME ReplayAssumption, NEW curated, NEW fetched, IsFiniteSet(curated), IsFiniteSet(fetched),
           Cardinality(curated) + Cardinality(fetched) <= MaxSignals,
           \A l \in curated : IsRow(l.row), \A r \in fetched : IsRow(r)
    PROVE  CombinedInputs(curated, fetched) = Combined(curated, fetched)
<1> DEFINE records == {l.row : l \in curated}
           fresh == {r \in fetched : \A l \in curated : l.row.id # r.id}
           S == Combined(curated, fetched)
           earlier(r, s) == (r.curated /\ ~s.curated) \/ (r.curated = s.curated /\ Observed(r, s))
<1>1. IsFiniteSet(records) /\ Cardinality(records) <= Cardinality(curated)
  <2> DEFINE f == [l \in curated |-> l.row]
  <2>1. f \in Surjection(curated, records)
    BY DEF Surjection
  <2> QED
    BY <2>1, FS_Surjection
<1>2. IsFiniteSet(fresh) /\ Cardinality(fresh) <= Cardinality(fetched)
  BY FS_Subset
<1>3. IsFiniteSet(S) /\ Cardinality(S) <= MaxSignals
  <2>1. S = records \cup fresh
    BY DEF Combined
  <2> HIDE DEF records, fresh, S
  <2>2. IsFiniteSet(S)
        /\ Cardinality(S) = Cardinality(records) + Cardinality(fresh) - Cardinality(records \cap fresh)
    BY <1>1, <1>2, <2>1, FS_Union
  <2>3. IsFiniteSet(records \cap fresh)
    BY <1>1, FS_Intersection
  <2>4. /\ Cardinality(records) \in Nat /\ Cardinality(fresh) \in Nat
        /\ Cardinality(records \cap fresh) \in Nat
        /\ Cardinality(curated) \in Nat /\ Cardinality(fetched) \in Nat
    BY <1>1, <1>2, <2>3, FS_CardinalityType
  <2> QED
    BY <1>1, <1>2, <2>2, <2>4 DEF ReplayAssumption
<1>4. ASSUME NEW x \in S
      PROVE  Cardinality({y \in S : earlier(y, x)}) < MaxSignals
  <2>1. IsRow(x)
    BY DEF Combined
  <2>2. ~earlier(x, x)
    BY <2>1, ObservedOnce
  <2>3. {y \in S : earlier(y, x)} \in SUBSET S /\ x \notin {y \in S : earlier(y, x)}
    BY <2>2
  <2> HIDE DEF S, earlier
  <2> QED
    BY <1>3, <2>3, AllAreEarly DEF ReplayAssumption
<1>5. CombinedInputs(curated, fetched) =
          {x \in S : Cardinality({y \in S : earlier(y, x)}) < MaxSignals}
  BY DEF CombinedInputs, Earliest, Combined
<1> HIDE DEF S
<1> QED
  BY <1>4, <1>5 DEF S

------------------------------------------------------------------------------
(* The versions of a row that were known by a day.                           *)

Less == {ss \in Nat \X Nat : ss[1] < ss[2]}

LEMMA LeastOf ==
    ASSUME NEW S \in SUBSET Nat, S # {}
    PROVE  \E m \in S : \A n \in S : m <= n
<1>1. IsWellFoundedOn(Less, Nat)
  BY NatLessThanWellFounded DEF OpToRel, Less
<1>2. PICK m \in S : \A n \in S : <<n, m>> \notin Less
  BY <1>1, WFMin
<1>3. ASSUME NEW n \in S
      PROVE  m <= n
  <2>1. n \in Nat /\ m \in Nat /\ ~(n < m)
    BY <1>2 DEF Less
  <2> QED
    BY <2>1
<1> QED
  BY <1>3

LEMMA FirstOf ==
    ASSUME NEW S, S # {}, \A q \in S : q.discovered \in Nat
    PROVE  \E q \in S : \A p \in S : q.discovered <= p.discovered
<1> DEFINE days == {q.discovered : q \in S}
<1>1. days \in SUBSET Nat /\ days # {}
  OBVIOUS
<1>2. PICK m \in days : \A n \in days : m <= n
  <2> HIDE DEF days
  <2> QED
    BY <1>1, LeastOf
<1> QED
  BY <1>2

LEMMA LatestOf ==
    ASSUME NEW S, S # {}, NEW top \in Nat,
           \A q \in S : q.discovered \in Nat /\ q.discovered <= top
    PROVE  \E q \in S : \A p \in S : p.discovered <= q.discovered
<1> DEFINE ages == {top - q.discovered : q \in S}
<1>1. ages \in SUBSET Nat /\ ages # {}
  OBVIOUS
<1>2. PICK m \in ages : \A n \in ages : m <= n
  <2> HIDE DEF ages
  <2> QED
    BY <1>1, LeastOf
<1>3. PICK q \in S : m = top - q.discovered
  BY <1>2
<1>4. ASSUME NEW p \in S
      PROVE  p.discovered <= q.discovered
  <2>1. m <= top - p.discovered
    BY <1>2
  <2> QED
    BY <1>3, <2>1
<1> QED
  BY <1>4

\* A row that was revised after the day says what each of its versions said.
Kept(r, cases, w, day) ==
    r.source # "ofsted" /\ r.discovered > day =>
        \A q \in VersionsBefore(r) :
            /\ Content(q) = Content(r) /\ r.published # None
            /\ Queried(q, cases, w) /\ Queried(r, cases, w)

\* Two versions of a row that a replay cannot tell apart.
Same(q, r, cases, w) ==
    /\ q.id = r.id /\ q.source = r.source
    /\ HistoricalAvailability(q) = HistoricalAvailability(r)
    /\ HistoricalSignalSnapshot(q) = HistoricalSignalSnapshot(r)
    /\ Queried(q, cases, w) <=> Queried(r, cases, w)

LEMMA StoredRow ==
    ASSUME BacktestAssumption, NEW r \in SourceRow
    PROVE  /\ IsRow(r) /\ r.id \in Nat /\ r.discovered \in Nat /\ ~r.curated
           /\ r.published \in Nat \cup {None}
           /\ r.source \in {"planning", "recruitment", "ofsted"}
BY DEF BacktestAssumption, IsStoredRow, IsRow

LEMMA VersionIsSame ==
    ASSUME BacktestAssumption, NEW r \in SourceRow, NEW q \in VersionsBefore(r), NEW day,
           r.source # "ofsted", r.discovered > day, NEW cases, NEW w, Kept(r, cases, w, day)
    PROVE  Same(q, r, cases, w) /\ q.published = r.published /\ r.published # None
<1>1. q \in SourceRow /\ q.id = r.id /\ q.source = r.source
  BY DEF VersionsBefore, BacktestAssumption
<1>2. /\ Content(q) = Content(r) /\ r.published # None
      /\ Queried(q, cases, w) /\ Queried(r, cases, w)
  BY DEF Kept
<1>3. /\ q.published = r.published /\ q.decision = r.decision /\ q.kind = r.kind
      /\ q.postcode = r.postcode /\ q.who = r.who /\ q.near = r.near
      /\ q.company = r.company /\ q.curated = r.curated
  <2>1. \A i \in 1..10 : Content(q)[i] = Content(r)[i]
    BY <1>2
  <2> QED
    BY <2>1 DEF Content
<1>4. HistoricalAvailability(q) = HistoricalAvailability(r)
  <2>1. r.source \in {"planning", "recruitment"}
    BY StoredRow
  <2> QED
    BY <1>1, <1>2, <1>3, <2>1 DEF HistoricalAvailability
<1>5. HistoricalSignalSnapshot(q) = HistoricalSignalSnapshot(r)
  <2>1. (q.refused /\ q.source # "planning") = (r.refused /\ r.source # "planning")
    BY <1>1 DEF BacktestAssumption, IsStoredRow
  <2> QED
    BY <1>1, <1>3, <1>4, <2>1 DEF HistoricalSignalSnapshot, Given
<1> QED
  BY <1>1, <1>2, <1>3, <1>4, <1>5 DEF Same

\* What was known of a row by a day is what its stored version says.
LEMMA KnownStands ==
    ASSUME BacktestAssumption, NEW r \in SourceRow, NEW day \in Nat, NEW q \in KnownRows({r}, day),
           NEW cases, NEW w, Kept(r, cases, w, day)
    PROVE  q \in SourceRow /\ q.source # "ofsted" /\ Same(q, r, cases, w)
<1>1. /\ q \in KnownVersions(r, day)
      /\ \A p \in KnownVersions(r, day) : p.discovered <= q.discovered
  BY DEF KnownRows
<1>2. q \in {r} \cup VersionsBefore(r) /\ q.source # "ofsted"
  BY <1>1 DEF KnownVersions
<1>3. CASE q = r
  BY <1>2, <1>3 DEF Same
<1>4. CASE q \in VersionsBefore(r)
  <2>1. q \in SourceRow /\ q.discovered < r.discovered /\ r.source = q.source
    BY <1>4 DEF VersionsBefore, BacktestAssumption
  <2>2. q.discovered \in Nat /\ r.discovered \in Nat
    BY <2>1, StoredRow
  <2>3. r.discovered > day
    <3>1. ASSUME r.discovered <= day
          PROVE  FALSE
      <4>1. r \in KnownVersions(r, day)
        BY <1>2, <2>1, <3>1 DEF KnownVersions, KnownBy
      <4> QED
        BY <1>1, <2>1, <2>2, <4>1
    <3> QED
      BY <2>2, <3>1
  <2> QED
    BY <1>2, <1>4, <2>1, <2>3, VersionIsSame
<1> QED
  BY <1>2, <1>3, <1>4

\* Of a row that was available by a day a version was known.
LEMMA AvailableIsKnown ==
    ASSUME ReplayAssumption, BacktestAssumption, NEW r \in SourceRow, r.source # "ofsted",
           NEW day \in Nat, HistoricalAvailability(r) <= day,
           NEW cases, NEW w, Kept(r, cases, w, day)
    PROVE  KnownRows({r}, day) # {}
<1>1. \A q \in {r} \cup VersionsBefore(r) :
          q \in SourceRow /\ q.discovered \in Nat /\ q.discovered <= r.discovered
  <2>1. r.discovered \in Nat
    BY StoredRow
  <2>2. ASSUME NEW q \in VersionsBefore(r)
        PROVE  q \in SourceRow /\ q.discovered \in Nat /\ q.discovered < r.discovered
    <3>1. q \in SourceRow /\ q.discovered < r.discovered
      BY DEF VersionsBefore
    <3> QED
      BY <3>1, StoredRow
  <2> QED
    BY <2>1, <2>2
<1>2. KnownVersions(r, day) # {}
  <2>1. CASE r.discovered <= day
    BY <2>1 DEF KnownVersions, KnownBy
  <2>2. CASE ~(r.discovered <= day)
    <3>1. r.discovered > day
      BY <1>1, <2>2
    <3>2. r.published # None /\ r.published <= day
      BY <2>2 DEF HistoricalAvailability
    <3>3. CASE VersionsBefore(r) = {}
      BY <3>2, <3>3 DEF KnownVersions, KnownBy
    <3>4. CASE VersionsBefore(r) # {}
      <4>1. PICK q \in VersionsBefore(r) :
                \A p \in VersionsBefore(r) : q.discovered <= p.discovered
        BY <1>1, <3>4, FirstOf
      <4>2. VersionsBefore(q) = {}
        <5> SUFFICES ASSUME NEW p \in VersionsBefore(q)
                     PROVE  FALSE
          OBVIOUS
        <5>1. /\ p \in SourceRow /\ p.id = r.id /\ p.discovered < q.discovered
              /\ q.discovered < r.discovered
          BY <4>1 DEF VersionsBefore
        <5>2. p.discovered \in Nat /\ q.discovered \in Nat /\ r.discovered \in Nat
          BY <1>1, <4>1, <5>1, StoredRow
        <5>3. p \in VersionsBefore(r)
          BY <5>1, <5>2 DEF VersionsBefore
        <5> QED
          BY <4>1, <5>1, <5>2, <5>3
      <4>3. q.published = r.published /\ q.source = r.source
        BY <3>1, <4>1, VersionIsSame DEF Same
      <4> QED
        BY <3>2, <4>1, <4>2, <4>3 DEF KnownVersions, KnownBy
    <3> QED
      BY <3>3, <3>4
  <2> QED
    BY <2>1, <2>2
<1>3. \A q \in KnownVersions(r, day) : q.discovered \in Nat /\ q.discovered <= r.discovered
  BY <1>1 DEF KnownVersions
<1>4. \E q \in KnownVersions(r, day) :
          \A p \in KnownVersions(r, day) : p.discovered <= q.discovered
  BY <1>1, <1>2, <1>3, LatestOf
<1> QED
  BY <1>4 DEF KnownRows

\* Of each row one version at most was known last.
LEMMA FewerRows ==
    ASSUME BacktestAssumption, NEW rows \in SUBSET SourceRow, NEW day
    PROVE  /\ IsFiniteSet(rows) /\ IsFiniteSet(KnownRows(rows, day))
           /\ Cardinality(KnownRows(rows, day)) <= Cardinality(rows)
           /\ KnownRows(rows, day) \in SUBSET SourceRow
<1> DEFINE known == {r \in rows : KnownRows({r}, day) # {}}
           last == [r \in known |-> CHOOSE q \in KnownRows({r}, day) : TRUE]
<1>1. ASSUME NEW r \in rows, NEW q \in KnownRows({r}, day), NEW p \in KnownRows({r}, day)
      PROVE  p = q /\ q \in SourceRow
  <2>1. /\ {p, q} \subseteq {r} \cup VersionsBefore(r)
        /\ p.discovered <= q.discovered /\ q.discovered <= p.discovered
    BY DEF KnownRows, KnownVersions
  <2>2. p \in SourceRow /\ q \in SourceRow /\ p.id = q.id
    BY <2>1 DEF VersionsBefore
  <2>3. p.discovered = q.discovered
    BY <2>1, <2>2, StoredRow
  <2> QED
    BY <2>2, <2>3 DEF BacktestAssumption
<1>2. KnownRows(rows, day) = UNION {KnownRows({r}, day) : r \in rows}
  BY DEF KnownRows
<1>3. \A r \in known : last[r] \in KnownRows({r}, day)
  OBVIOUS
<1>4. last \in Surjection(known, KnownRows(rows, day))
  <2>1. last \in [known -> KnownRows(rows, day)]
    BY <1>2, <1>3
  <2>2. ASSUME NEW q \in KnownRows(rows, day)
        PROVE  \E r \in known : last[r] = q
    <3>1. PICK r \in rows : q \in KnownRows({r}, day)
      BY <1>2
    <3>2. r \in known
      BY <3>1
    <3> QED
      BY <1>1, <1>3, <3>1, <3>2
  <2> HIDE DEF known, last
  <2> QED
    BY <2>1, <2>2 DEF Surjection
<1>5. /\ IsFiniteSet(rows) /\ IsFiniteSet(known)
      /\ Cardinality(known) <= Cardinality(rows)
  <2>1. IsFiniteSet(rows)
    BY FS_Subset DEF BacktestAssumption
  <2>2. known \in SUBSET rows
    OBVIOUS
  <2> HIDE DEF known
  <2> QED
    BY <2>1, <2>2, FS_Subset
<1>6. /\ IsFiniteSet(KnownRows(rows, day))
      /\ Cardinality(KnownRows(rows, day)) <= Cardinality(known)
  <2> HIDE DEF known, last
  <2> QED
    BY <1>4, <1>5, FS_Surjection
<1>7. ASSUME NEW q \in KnownRows(rows, day)
      PROVE  q \in SourceRow
  <2>1. PICK r \in rows : q \in KnownRows({r}, day)
    BY <1>2
  <2> QED
    BY <1>1, <2>1
<1> HIDE DEF known
<1> QED
  BY <1>5, <1>6, <1>7, FS_CardinalityType
------------------------------------------------------------------------------
(* What a case is judged by.                                                 *)

Inputs(cases, rows, links, w) == Combined(Counted(cases, links), Wanted(cases, rows, w))

\* The rows a case is judged by, before they are masked.
Judged(c, signals, day, w) ==
    {r \in signals : /\ r.source # "ofsted"
                     /\ HistoricalAvailability(r) >= c.outcome - w.lookback
                     /\ HistoricalAvailability(r) <= day}

\* No curated record takes the place of a row that was available before it.
InPlace(links, rows) ==
    \A l \in links, r \in rows :
        l.row.id = r.id => HistoricalAvailability(l.row) <= HistoricalAvailability(r)

LEMMA LinkIsKnown ==
    ASSUME ReplayAssumption, NEW links, IsCorpus(links), NEW l \in links, NEW day \in Nat,
           HistoricalAvailability(l.row) <= day
    PROVE  l \in KnownLinks(links, day)
BY DEF ReplayAssumption, IsCorpus, HistoricalAvailability, KnownLinks

\* For every row that is judged without the one set of tables, the other has one
\* that says the same.
LEMMA JudgedIsKnown ==
    ASSUME ReplayAssumption, BacktestAssumption, NEW cases, NEW c, NEW w, NEW day \in Nat,
           NEW rows \in SUBSET SourceRow, NEW links, IsCorpus(links),
           \A r \in rows : Kept(r, cases, w, day),
           NEW r \in Judged(c, Inputs(cases, rows, links, w), day, w)
    PROVE  \E q \in Judged(c, Inputs(cases, KnownRows(rows, day), KnownLinks(links, day), w),
                           day, w) :
               HistoricalSignalSnapshot(q) = HistoricalSignalSnapshot(r)
<1> DEFINE given == KnownLinks(links, day)
           early == KnownRows(rows, day)
<1>1. /\ r.source # "ofsted" /\ HistoricalAvailability(r) >= c.outcome - w.lookback
      /\ HistoricalAvailability(r) <= day
      /\ r \in Combined(Counted(cases, links), Wanted(cases, rows, w))
  BY DEF Judged, Inputs
<1>2. Counted(cases, links) \subseteq links /\ Counted(cases, given) \subseteq Counted(cases, links)
  BY DEF Counted, KnownLinks
<1>3. ASSUME NEW l \in Counted(cases, links), r = l.row
      PROVE  r \in Combined(Counted(cases, given), Wanted(cases, early, w))
  <2>1. l \in given
    BY <1>1, <1>2, <1>3, LinkIsKnown
  <2>2. l \in Counted(cases, given)
    BY <2>1 DEF Counted
  <2> QED
    BY <1>3, <2>2 DEF Combined
<1>4. ASSUME r \in Wanted(cases, rows, w), \A l \in Counted(cases, links) : l.row.id # r.id
      PROVE  \E q \in Combined(Counted(cases, given), Wanted(cases, early, w)) :
                Same(q, r, cases, w)
  <2>1. r \in rows /\ Queried(r, cases, w)
    BY <1>4 DEF Wanted
  <2>2. PICK q \in KnownRows({r}, day) : TRUE
    BY <1>1, <2>1, AvailableIsKnown
  <2>3. Same(q, r, cases, w) /\ q \in early
    BY <2>1, <2>2, KnownStands DEF KnownRows
  <2>4. q \in Wanted(cases, early, w)
    BY <2>1, <2>3 DEF Wanted, Same
  <2>5. \A l \in Counted(cases, given) : l.row.id # q.id
    BY <1>2, <1>4, <2>3 DEF Same
  <2> QED
    BY <2>3, <2>4, <2>5 DEF Combined
<1>5. \E q \in Combined(Counted(cases, given), Wanted(cases, early, w)) :
          \/ q = r
          \/ Same(q, r, cases, w)
  BY <1>1, <1>3, <1>4 DEF Combined
<1> QED
  BY <1>1, <1>5 DEF Judged, Inputs, Same

LEMMA KnownIsJudged ==
    ASSUME ReplayAssumption, BacktestAssumption, NEW cases, NEW c, NEW w, NEW day \in Nat,
           NEW rows \in SUBSET SourceRow, NEW links, IsCorpus(links), InPlace(links, rows),
           \A r \in rows : Kept(r, cases, w, day),
           NEW q \in Judged(c, Inputs(cases, KnownRows(rows, day), KnownLinks(links, day), w),
                            day, w)
    PROVE  \E r \in Judged(c, Inputs(cases, rows, links, w), day, w) :
               HistoricalSignalSnapshot(q) = HistoricalSignalSnapshot(r)
<1> DEFINE given == KnownLinks(links, day)
           early == KnownRows(rows, day)
<1>1. /\ q.source # "ofsted" /\ HistoricalAvailability(q) >= c.outcome - w.lookback
      /\ HistoricalAvailability(q) <= day
      /\ q \in Combined(Counted(cases, given), Wanted(cases, early, w))
  BY DEF Judged, Inputs
<1>2. Counted(cases, links) \subseteq links /\ Counted(cases, given) \subseteq Counted(cases, links)
  BY DEF Counted, KnownLinks
<1>3. ASSUME NEW l \in Counted(cases, given), q = l.row
      PROVE  q \in Combined(Counted(cases, links), Wanted(cases, rows, w))
  BY <1>2, <1>3 DEF Combined
<1>4. ASSUME q \in Wanted(cases, early, w), \A l \in Counted(cases, given) : l.row.id # q.id
      PROVE  \E r \in Combined(Counted(cases, links), Wanted(cases, rows, w)) :
                Same(q, r, cases, w)
  <2>1. q \in early /\ Queried(q, cases, w)
    BY <1>4 DEF Wanted
  <2>2. PICK r \in rows : q \in KnownRows({r}, day)
    BY <2>1 DEF KnownRows
  <2>3. Same(q, r, cases, w)
    BY <2>2, KnownStands
  <2>4. r \in Wanted(cases, rows, w)
    BY <2>1, <2>3 DEF Wanted, Same
  <2>5. ASSUME NEW l \in Counted(cases, links), l.row.id = r.id
        PROVE  FALSE
    <3>1. HistoricalAvailability(l.row) <= HistoricalAvailability(r)
      BY <1>2, <2>5 DEF InPlace
    <3>2. HistoricalAvailability(l.row) \in Nat /\ HistoricalAvailability(r) \in Nat
      <4>1. IsRow(l.row) /\ IsRow(r)
        BY <1>2, StoredRow DEF IsCorpus
      <4> QED
        BY <4>1 DEF IsRow, HistoricalAvailability
    <3>3. HistoricalAvailability(l.row) <= day
      BY <1>1, <2>3, <3>1, <3>2 DEF Same
    <3>4. l \in given
      BY <1>2, <3>3, LinkIsKnown
    <3>5. l \in Counted(cases, given)
      BY <3>4 DEF Counted
    <3> QED
      BY <1>4, <2>3, <2>5, <3>5 DEF Same
  <2> QED
    BY <2>3, <2>4, <2>5 DEF Combined
<1>5. \E r \in Combined(Counted(cases, links), Wanted(cases, rows, w)) :
          \/ q = r
          \/ Same(q, r, cases, w)
  BY <1>1, <1>3, <1>4 DEF Combined
<1> QED
  BY <1>1, <1>5 DEF Judged, Inputs, Same

\* The case is judged by the same snapshots, with the same labels, when nothing
\* later is in the tables.
LEMMA SameRows ==
    ASSUME ReplayAssumption, BacktestAssumption, NEW cases \in SUBSET Case, NEW c \in cases,
           NEW rows \in SUBSET SourceRow, NEW links, IsCorpus(links), NEW w \in Window,
           InPlace(links, rows), NEW day, day = Cutoff(c, w),
           \A r \in rows : Kept(r, cases, w, day),
           NEW full, full = Eligible(c, Inputs(cases, rows, links, w), w),
           NEW blind, blind = Eligible(c, Inputs(cases, KnownRows(rows, day),
                                                 KnownLinks(links, day), w), w)
    PROVE  /\ full = blind
           /\ \A x \in full : x.curated =>
                 \E l \in Counted(cases, links) : x.id = l.row.id /\ l \in KnownLinks(links, day)
<1> DEFINE today == Inputs(cases, rows, links, w)
           then == Inputs(cases, KnownRows(rows, day), KnownLinks(links, day), w)
<1>1. day = ReplayEnd(c, w.asOf) /\ day \in Nat
  BY DEF Cutoff, ReplayEnd, BacktestAssumption
<1>2. ASSUME NEW signals
      PROVE  Eligible(c, signals, w) =
                 {HistoricalSignalSnapshot(r) : r \in Judged(c, signals, day, w)}
  BY <1>1 DEF Eligible, Judged
<1>3. \A r \in Judged(c, today, day, w) : \E q \in Judged(c, then, day, w) :
          HistoricalSignalSnapshot(q) = HistoricalSignalSnapshot(r)
  BY <1>1, JudgedIsKnown
<1>4. \A q \in Judged(c, then, day, w) : \E r \in Judged(c, today, day, w) :
          HistoricalSignalSnapshot(q) = HistoricalSignalSnapshot(r)
  BY <1>1, KnownIsJudged
<1>5. full = blind
  <2> HIDE DEF today, then
  <2>1. full = {HistoricalSignalSnapshot(r) : r \in Judged(c, today, day, w)}
    BY <1>2 DEF today
  <2>2. blind = {HistoricalSignalSnapshot(r) : r \in Judged(c, then, day, w)}
    BY <1>2 DEF then
  <2> QED
    BY <1>3, <1>4, <2>1, <2>2
<1>6. ASSUME NEW x \in full, x.curated
      PROVE  \E l \in Counted(cases, links) : x.id = l.row.id /\ l \in KnownLinks(links, day)
  <2>1. PICK r \in Judged(c, today, day, w) : x = HistoricalSignalSnapshot(r)
    BY <1>2, <1>6
  <2>2. r.curated /\ x.id = r.id
    BY <1>6, <2>1 DEF HistoricalSignalSnapshot, Given
  <2>3. /\ r \in Combined(Counted(cases, links), Wanted(cases, rows, w))
        /\ HistoricalAvailability(r) <= day
    BY DEF Judged, Inputs
  <2>4. r \notin Wanted(cases, rows, w)
    BY <2>2, StoredRow DEF Wanted
  <2>5. PICK l \in Counted(cases, links) : r = l.row
    BY <2>3, <2>4 DEF Combined
  <2>6. l \in links
    BY DEF Counted
  <2> QED
    BY <1>1, <2>2, <2>3, <2>5, <2>6, LinkIsKnown
<1> QED
  BY <1>5, <1>6

\* What a replay says depends on the rows, their labels and the evidence alone.
LEMMA SameCase ==
    ASSUME NEW c, NEW w, NEW covered, NEW signals, NEW known, NEW evidence, NEW retrieved,
           NEW labels, NEW given,
           Eligible(c, known, w) = Eligible(c, signals, w),
           Labelled(Eligible(c, signals, w), given) = Labelled(Eligible(c, signals, w), labels),
           CompanyEvidence(c, retrieved, w.asOf) = CompanyEvidence(c, evidence, w.asOf)
    PROVE  ReplayCase(c, signals, evidence, w, labels, covered)
             = ReplayCase(c, known, retrieved, w, given, covered)
BY DEF ReplayCase

LabelsOf(c, cases, links) == {l.row.id : l \in {k \in Counted(cases, links) : k.case = c.id}}

\* The result of a case, from inputs within the limit.
LEMMA ResultOfCase ==
    ASSUME ReplayAssumption, BacktestAssumption, NEW cases \in SUBSET Case, NEW c \in cases,
           NEW rows \in SUBSET SourceRow, NEW links, IsCorpus(links), NEW w, NEW evidence,
           Cardinality(rows) + Cardinality(links) <= MaxSignals,
           NEW x \in CaseResults(cases, rows, evidence, links, w), x.case = c.id
    PROVE  x = ReplayCase(c, Inputs(cases, rows, links, w), evidence, w,
                          LabelsOf(c, cases, links), Covered(c, Counted(cases, links), w))
<1> DEFINE signals == Inputs(cases, rows, links, w)
           result(d) == ReplayCase(d, signals, evidence, w, LabelsOf(d, cases, links),
                                   Covered(d, Counted(cases, links), w))
<1>1. /\ IsFiniteSet(rows) /\ IsFiniteSet(links)
      /\ Cardinality(rows) \in Nat /\ Cardinality(links) \in Nat
  BY FS_Subset, FS_CardinalityType DEF BacktestAssumption, IsCorpus
<1>2. HistoricalCorpusInputs(cases, links) = Counted(cases, links)
  BY <1>1, LinksCounted DEF ReplayAssumption
<1>3. InputRows(cases, rows, w) = Wanted(cases, rows, w)
  BY <1>1, RowsWanted DEF ReplayAssumption
<1>4. CombinedInputs(Counted(cases, links), Wanted(cases, rows, w)) = signals
  <2> DEFINE curated == Counted(cases, links)
             fetched == Wanted(cases, rows, w)
  <2>1. curated \in SUBSET links /\ fetched \in SUBSET rows
    BY DEF Counted, Wanted
  <2> HIDE DEF curated, fetched
  <2>2. /\ IsFiniteSet(curated) /\ IsFiniteSet(fetched)
        /\ Cardinality(curated) <= Cardinality(links) /\ Cardinality(fetched) <= Cardinality(rows)
    BY <1>1, <2>1, FS_Subset
  <2>3. Cardinality(curated) + Cardinality(fetched) <= MaxSignals
    <3>1. Cardinality(curated) \in Nat /\ Cardinality(fetched) \in Nat
      BY <2>2, FS_CardinalityType
    <3> QED
      BY <1>1, <2>2, <3>1 DEF ReplayAssumption
  <2>4. (\A l \in curated : IsRow(l.row)) /\ (\A r \in fetched : IsRow(r))
    BY <2>1 DEF IsCorpus, BacktestAssumption, IsStoredRow
  <2>5. CombinedInputs(curated, fetched) = Combined(curated, fetched)
    BY <2>2, <2>3, <2>4, RowsCombined
  <2> QED
    BY <2>5 DEF Inputs, curated, fetched
<1>5. CaseResults(cases, rows, evidence, links, w) = {result(d) : d \in cases}
  BY <1>2, <1>3, <1>4 DEF CaseResults, LabelsOf
<1>6. \A d : result(d).case = d.id
  BY DEF ReplayCase, ExcludedCase
<1> HIDE DEF result
<1>7. PICK d \in cases : x = result(d)
  BY <1>5
<1>8. d = c
  BY <1>6, <1>7 DEF BacktestAssumption
<1> QED
  BY <1>7, <1>8 DEF result

\* What a run says of a case is what it would have said, had the tables held
\* only what was known by the day of the case.
LEMMA ReplayIsBlind ==
    ASSUME ReplayAssumption, BacktestAssumption, NEW cases \in SUBSET Case, NEW c \in cases,
           NEW rows \in SUBSET SourceRow, NEW links, IsCorpus(links), NEW w \in Window,
           NEW evidence, Cardinality(rows) + Cardinality(links) <= MaxSignals,
           InPlace(links, rows), NEW day, day = Cutoff(c, w),
           \A r \in rows : Kept(r, cases, w, day),
           NEW x \in CaseResults(cases, rows, evidence, links, w), x.case = c.id,
           NEW y \in CaseResults(cases, KnownRows(rows, day), KnownEvidence(evidence, day),
                                 KnownLinks(links, day), w), y.case = c.id
    PROVE  x = y
<1> DEFINE early == KnownRows(rows, day)
           given == KnownLinks(links, day)
           full == Eligible(c, Inputs(cases, rows, links, w), w)
<1>1. early \in SUBSET SourceRow /\ given \in SUBSET links
  BY FewerRows DEF KnownLinks
<1>2. IsCorpus(given)
  <2>1. IsFiniteSet(given)
    BY <1>1, FS_Subset DEF IsCorpus
  <2> QED
    BY <1>1, <2>1 DEF IsCorpus
<1>3. Cardinality(early) + Cardinality(given) <= MaxSignals
  <2>1. /\ IsFiniteSet(rows) /\ IsFiniteSet(early) /\ IsFiniteSet(links)
        /\ Cardinality(early) <= Cardinality(rows)
    BY FewerRows DEF IsCorpus
  <2> HIDE DEF early, given
  <2>2. IsFiniteSet(given) /\ Cardinality(given) <= Cardinality(links)
    BY <1>1, <2>1, FS_Subset
  <2>3. /\ Cardinality(rows) \in Nat /\ Cardinality(links) \in Nat
        /\ Cardinality(early) \in Nat /\ Cardinality(given) \in Nat
    BY <2>1, <2>2, FS_CardinalityType
  <2> QED
    BY <2>1, <2>2, <2>3 DEF ReplayAssumption
<1>4. x = ReplayCase(c, Inputs(cases, rows, links, w), evidence, w,
                     LabelsOf(c, cases, links), Covered(c, Counted(cases, links), w))
  BY ResultOfCase
<1>5. y = ReplayCase(c, Inputs(cases, early, given, w), KnownEvidence(evidence, day), w,
                     LabelsOf(c, cases, given), Covered(c, Counted(cases, given), w))
  BY <1>1, <1>2, <1>3, ResultOfCase
<1>6. /\ full = Eligible(c, Inputs(cases, early, given, w), w)
      /\ \A r \in full : r.curated =>
            \E l \in Counted(cases, links) : r.id = l.row.id /\ l \in given
  <2> DEFINE blind == Eligible(c, Inputs(cases, early, given, w), w)
  <2>1. blind = Eligible(c, Inputs(cases, KnownRows(rows, day), KnownLinks(links, day), w), w)
    OBVIOUS
  <2>2. full = Eligible(c, Inputs(cases, rows, links, w), w)
    OBVIOUS
  <2> HIDE DEF full, blind, early
  <2>3. /\ full = blind
        /\ \A r \in full : r.curated =>
              \E l \in Counted(cases, links) : r.id = l.row.id /\ l \in KnownLinks(links, day)
    BY <2>1, <2>2, SameRows
  <2> QED
    BY <2>3 DEF blind
<1>7. Counted(cases, given) = Counted(cases, links) \cap given
  BY DEF Counted, KnownLinks
<1>8. Labelled(full, LabelsOf(c, cases, given)) = Labelled(full, LabelsOf(c, cases, links))
  <2> SUFFICES ASSUME NEW r \in full, r.curated, NEW l \in Counted(cases, links),
                      l.case = c.id, l.row.id = r.id
               PROVE  l \in given
    BY <1>7 DEF Labelled, LabelsOf
  <2>1. PICK k \in Counted(cases, links) : r.id = k.row.id /\ k \in given
    BY <1>6
  <2>2. l.row = k.row /\ l \in links
    BY <2>1 DEF IsCorpus, Counted
  <2> QED
    BY <2>1, <2>2 DEF KnownLinks
<1>9. CompanyEvidence(c, KnownEvidence(evidence, day), w.asOf) = CompanyEvidence(c, evidence, w.asOf)
  BY DEF CompanyEvidence, CompanyIdentityAvailable, KnownEvidence, Cutoff, ReplayEnd
<1>10. Covered(c, Counted(cases, given), w) = Covered(c, Counted(cases, links), w)
  <2>1. \A l \in links : l.row.discovered <= ReplayEnd(c, w.asOf) => l \in given
    BY DEF KnownLinks, Cutoff, ReplayEnd, IsCorpus
  <2>2. Counted(cases, links) \subseteq links
    BY DEF Counted
  <2> QED
    BY <1>7, <2>1, <2>2 DEF Covered
<1> HIDE DEF early, given, full
<1> QED
  BY <1>4, <1>5, <1>6, <1>8, <1>9, <1>10, SameCase DEF full
------------------------------------------------------------------------------
CorpusLinks == {{}} \cup {Manifest[m].links : m \in DOMAIN Manifest}

\* What a request has read so far.
ReadOK(b) ==
    /\ b.at \in Step
    /\ b.at \notin {"idle", "unclear"} => b.links \in CorpusLinks
    /\ b.at \in {"cases", "loaded", "replaying"} => b.cases \subseteq Case
    /\ b.at \in {"loaded", "replaying"} => b.rows \subseteq SourceRow

\* A saved result is what its run made of what it had read ...
SavedFrom(s) ==
    /\ s.run \in Fingerprint /\ s.cases \subseteq Case /\ s.rows \subseteq SourceRow
    /\ s.links \in CorpusLinks
    /\ s.results = CaseResults(s.cases, s.rows, s.evidence, s.links, s.run[1])

\* ... and its run has ended.
Ended(status) == status \in {"SUCCESS", "FAILED"}
SavedIn(s) == s.index \in DOMAIN runs[s.run] /\ Ended(runs[s.run][s.index])

TableInv ==
    /\ now \in Nat
    /\ benchmark \subseteq Case
    /\ \A j \in Executor : ReadOK(job[j])
    /\ \A s \in saved : SavedFrom(s) /\ SavedIn(s)

LEMMA LinksAreCorpora ==
    ASSUME BacktestAssumption, NEW links \in CorpusLinks
    PROVE  IsCorpus(links)
<1>1. CASE links = {}
  BY <1>1, FS_EmptySet DEF IsCorpus
<1>2. CASE links # {}
  BY <1>2 DEF CorpusLinks, BacktestAssumption
<1> QED
  BY <1>1, <1>2

\* A request reads on.
LEMMA ReadsOn ==
    ASSUME IInv, TableInv, NEW j \in Executor, NEW v, ReadOK(v),
           job' = [job EXCEPT ![j] = v], UNCHANGED <<now, benchmark, runs, saved>>
    PROVE  TableInv'
<1>1. \A k \in Executor : job'[k] = IF k = j THEN v ELSE job[k]
  BY DEF IInv, Requests
<1>2. \A k \in Executor : ReadOK(job'[k])
  BY <1>1 DEF TableInv
<1> QED
  BY <1>2 DEF TableInv, SavedIn

\* A saved result stays that of a run that has ended.
LEMMA SavedStay ==
    ASSUME TableInv,
           \A s \in saved : \/ runs'[s.run][s.index] = runs[s.run][s.index]
                            \/ Ended(runs'[s.run][s.index]),
           \A s \in saved : DOMAIN runs[s.run] \subseteq DOMAIN runs'[s.run]
    PROVE  \A s \in saved : SavedIn(s)'
BY DEF TableInv, SavedIn

LEMMA LinksOfLatest ==
    ASSUME IInv
    PROVE  Links(LatestCorpus) \in CorpusLinks
<1>1. imports = <<>> \/ Len(imports) \in 1..Len(imports)
  BY DEF IInv, Requests
<1>2. LatestCorpus = None \/ LatestCorpus \in DOMAIN Manifest
  BY <1>1 DEF IInv, Requests, LatestCorpus
<1> QED
  BY <1>2 DEF Links, CorpusLinks

LEMMA InsertionKeepsTables ==
    ASSUME IInv, TableInv, NEW j \in Executor, InsertRun(j)
    PROVE  TableInv'
<1> DEFINE f == job[j].run
<1>1. f \in Fingerprint /\ runs[f] \in Seq(RunStatus) /\ ReadOK(job[j]) /\ job[j].at = "loaded"
  BY DEF InsertRun, IInv, Requests, TableInv
<1>2. CASE Conflicts(f)
  BY <1>2, ReadsOn DEF InsertRun, ReadOK, NoJob, Step
<1>3. CASE ~Conflicts(f)
  <2> DEFINE v == [at |-> "replaying", run |-> f, links |-> job[j].links, cases |-> job[j].cases,
                   rows |-> job[j].rows, evidence |-> job[j].evidence, index |-> Len(runs[f]) + 1]
  <2>1. /\ runs' = [runs EXCEPT ![f] = Append(runs[f], "RUNNING")]
        /\ job' = [job EXCEPT ![j] = v] /\ UNCHANGED <<now, benchmark, saved>>
    BY <1>3 DEF InsertRun
  <2>2. ReadOK(v)
    BY <1>1 DEF ReadOK, Step
  <2> HIDE DEF v
  <2>3. \A k \in Executor : ReadOK(job'[k])
    BY <2>1, <2>2 DEF TableInv, IInv, Requests
  <2>4. \A s \in saved : SavedIn(s)'
    <3>1. ASSUME NEW s \in saved
          PROVE  /\ runs'[s.run][s.index] = runs[s.run][s.index]
                 /\ DOMAIN runs[s.run] \subseteq DOMAIN runs'[s.run]
      <4>1. s.run \in Fingerprint /\ s.index \in DOMAIN runs[s.run]
        BY DEF TableInv, SavedFrom, SavedIn
      <4>2. runs'[s.run] = IF s.run = f THEN Append(runs[f], "RUNNING") ELSE runs[s.run]
        BY <1>1, <2>1, <4>1 DEF IInv, Requests
      <4> QED
        BY <1>1, <4>1, <4>2
    <3> QED
      BY <3>1, SavedStay
  <2> QED
    BY <2>1, <2>3, <2>4 DEF TableInv
<1> QED
  BY <1>2, <1>3

\* Whatever status a request gives its run, the run has ended.
LEMMA StatusKeepsTables ==
    ASSUME IInv, TableInv, NEW j \in Executor, Claims(j), NEW status, Ended(status),
           SetStatus(j, status), NEW v, ReadOK(v), job' = [job EXCEPT ![j] = v]
    PROVE  /\ \A k \in Executor : ReadOK(job'[k])
           /\ \A s \in saved : SavedIn(s)'
           /\ job[j].index \in DOMAIN runs'[job[j].run]
           /\ runs'[job[j].run][job[j].index] = status
<1> DEFINE f == job[j].run
           n == job[j].index
<1>1. f \in Fingerprint /\ n \in DOMAIN runs[f]
  BY DEF IInv, Requests, Owners, Claims
<1>2. runs' = [runs EXCEPT ![f] = [runs[f] EXCEPT ![n] = status]]
  BY DEF SetStatus
<1>3. \A k \in Executor : ReadOK(job'[k])
  BY DEF TableInv, IInv, Requests
<1>4. \A g \in Fingerprint : runs'[g] = IF g = f THEN [runs[f] EXCEPT ![n] = status] ELSE runs[g]
  BY <1>1, <1>2 DEF IInv, Requests
<1>5. ASSUME NEW s \in saved
      PROVE  /\ \/ runs'[s.run][s.index] = runs[s.run][s.index]
                \/ Ended(runs'[s.run][s.index])
             /\ DOMAIN runs[s.run] \subseteq DOMAIN runs'[s.run]
  <2>1. s.run \in Fingerprint /\ s.index \in DOMAIN runs[s.run]
    BY DEF TableInv, SavedFrom, SavedIn
  <2> QED
    BY <1>1, <1>4, <2>1
<1>6. \A s \in saved : SavedIn(s)'
  BY <1>5, SavedStay
<1> QED
  BY <1>1, <1>3, <1>4, <1>6

LEMMA SavingKeepsTables ==
    ASSUME IInv, TableInv, NEW j \in Executor, SaveRun(j) \/ FailRun(j)
    PROVE  TableInv'
<1>0. Claims(j) /\ Ended("SUCCESS") /\ Ended("FAILED") /\ ReadOK(NoJob)
  BY DEF SaveRun, FailRun, Claims, Ended, ReadOK, NoJob, Step
<1>1. CASE FailRun(j)
  <2>1. /\ SetStatus(j, "FAILED") /\ job' = [job EXCEPT ![j] = NoJob]
        /\ UNCHANGED <<now, benchmark, saved>>
    BY <1>1 DEF FailRun
  <2>2. (\A k \in Executor : ReadOK(job'[k])) /\ (\A s \in saved : SavedIn(s)')
    BY <1>0, <2>1, StatusKeepsTables
  <2> QED
    BY <2>1, <2>2 DEF TableInv
<1>2. CASE SaveRun(j)
  <2> DEFINE b == job[j]
             judged == CaseResults(b.cases, b.rows, b.evidence, b.links, b.run[1])
             new == [run |-> b.run, index |-> b.index, cases |-> b.cases, rows |-> b.rows,
                     evidence |-> b.evidence, links |-> b.links,
                     results |-> judged, metrics |-> AggregateResults(judged)]
  <2>1. /\ b.at = "replaying" /\ SetStatus(j, "SUCCESS") /\ saved' = saved \cup {new}
        /\ UNCHANGED <<now, benchmark>>
    BY <1>2 DEF SaveRun
  <2>2. SavedFrom(new)
    <3>1. b.run \in Fingerprint /\ ReadOK(b)
      BY <2>1 DEF IInv, Requests, TableInv
    <3> QED
      BY <2>1, <3>1 DEF SavedFrom, ReadOK
  <2>3. PICK v \in {NoJob, [at |-> "unclear", run |-> b.run, index |-> b.index]} :
            job' = [job EXCEPT ![j] = v]
    BY <1>2 DEF SaveRun
  <2>4. ReadOK(v)
    BY <1>0, <2>3 DEF ReadOK, Step
  <2>5. /\ \A k \in Executor : ReadOK(job'[k])
        /\ \A s \in saved : SavedIn(s)'
        /\ new.index \in DOMAIN runs'[new.run] /\ runs'[new.run][new.index] = "SUCCESS"
    BY <1>0, <2>1, <2>3, <2>4, StatusKeepsTables
  <2> HIDE DEF new
  <2>6. \A s \in saved' : SavedFrom(s) /\ SavedIn(s)'
    BY <2>1, <2>2, <2>5 DEF TableInv, SavedIn, Ended
  <2> QED
    BY <2>1, <2>5, <2>6 DEF TableInv
<1> QED
  BY <1>1, <1>2

LEMMA TableStep ==
    ASSUME IInv, TableInv, [Next]_vars
    PROVE  TableInv'
<1>1. CASE UNCHANGED vars
  BY <1>1 DEF vars, TableInv, SavedIn
<1>2. CASE DayPasses
  BY <1>2 DEF DayPasses, TableInv, SavedIn
<1>3. CASE SeedBenchmark
  <2>1. benchmark' \subseteq Case /\ UNCHANGED <<now, imports, runs, saved, job>>
    BY <1>3 DEF SeedBenchmark, Earliest, TableInv
  <2> QED
    BY <2>1 DEF TableInv, SavedIn
<1>4. ASSUME NEW m \in DOMAIN Manifest, ImportCorpus(m)
      PROVE  TableInv'
  BY <1>4 DEF ImportCorpus, TableInv, SavedIn
<1>5. ASSUME NEW j \in Executor, NEW w \in Window, StartRun(j, w)
      PROVE  TableInv'
  BY <1>5, LinksOfLatest, ReadsOn DEF StartRun, ReadOK, Step
<1>6. ASSUME NEW j \in Executor, LookUpRun(j) \/ CrashRun(j)
      PROVE  TableInv'
  BY <1>6, ReadsOn DEF LookUpRun, CrashRun, NoJob, TableInv, ReadOK, Step
<1>7. ASSUME NEW j \in Executor, LoadCases(j)
      PROVE  TableInv'
  <2> DEFINE earlier(c, d) == c.outcome < d.outcome \/ (c.outcome = d.outcome /\ c.id < d.id)
             cases == Earliest(benchmark, MaxCases, earlier)
             v == IF cases = {} THEN NoJob
                  ELSE [at |-> "cases", run |-> job[j].run, links |-> job[j].links,
                        cases |-> cases]
  <2>1. cases \subseteq Case
    BY DEF Earliest, TableInv
  <2>2. ReadOK(job[j]) /\ job[j].at = "missing"
    BY <1>7 DEF LoadCases, TableInv
  <2>3. job' = [job EXCEPT ![j] = v] /\ UNCHANGED <<now, benchmark, runs, saved>>
    BY <1>7 DEF LoadCases
  <2> HIDE DEF cases
  <2>4. ReadOK(v)
    BY <2>1, <2>2 DEF ReadOK, NoJob, Step
  <2> HIDE DEF v
  <2> QED
    BY <2>3, <2>4, ReadsOn
<1>8. ASSUME NEW j \in Executor, LoadInputs(j)
      PROVE  TableInv'
  <2>1. ReadOK(job[j]) /\ job[j].at = "cases"
    BY <1>8 DEF LoadInputs, TableInv
  <2>2. LiveRows \subseteq SourceRow
    BY DEF LiveRows
  <2> DEFINE retrieved == {e \in Evidence : e.retrieved <= now /\ e.retrieved <= job[j].run[1].asOf}
             earlier(e, d) == e.retrieved < d.retrieved \/ (e.retrieved = d.retrieved /\ e.id < d.id)
             v == [at |-> "loaded", run |-> job[j].run, links |-> job[j].links,
                   cases |-> job[j].cases, rows |-> LiveRows,
                   evidence |-> Earliest(retrieved, MaxSignals, earlier)]
  <2>3. ReadOK(v)
    BY <2>1, <2>2 DEF ReadOK, Step
  <2>4. job' = [job EXCEPT ![j] = v] /\ UNCHANGED <<now, benchmark, runs, saved>>
    BY <1>8 DEF LoadInputs
  <2> HIDE DEF v
  <2> QED
    BY <2>3, <2>4, ReadsOn
<1>9. ASSUME NEW j \in Executor, InsertRun(j) \/ SaveRun(j) \/ FailRun(j)
      PROVE  TableInv'
  BY <1>9, InsertionKeepsTables, SavingKeepsTables
<1> QED
  BY <1>1, <1>2, <1>3, <1>4, <1>5, <1>6, <1>7, <1>8, <1>9 DEF Next

THEOREM TableInvariance ==
    ASSUME BacktestAssumption
    PROVE  Spec => [](IInv /\ TableInv)
<1>1. Init => TableInv
  BY DEF Init, TableInv, ReadOK, NoJob, Step, BacktestAssumption
<1>2. IInv /\ TableInv /\ [Next]_vars => TableInv'
  BY TableStep
<1> QED
  BY Inductive, <1>1, <1>2, PTL DEF Spec

\* A request has an entry of the ledger from its insertion to its end, which is
\* RUNNING all that time, and every saved result is of a run that has ended.
THEOREM TypeCorrect ==
    ASSUME BacktestAssumption
    PROVE  Spec => []TypeOK
<1>1. IInv /\ TableInv => TypeOK
  BY DEF IInv, Requests, Owners, Claims, Mark, RunStatus, TableInv, ReadOK, SavedIn, Ended,
         TypeOK
<1> QED
  BY <1>1, TableInvariance, PTL

\* No result of a case depends on rows, decisions, links or evidence that came
\* after the case's outcome or the day asked for, nor on the register, whatever
\* benchmark, corpus and tables the requests had read, unless their inputs were
\* Crowded or a row of them had been Rewritten after that day.
THEOREM ReplaysAreBlind ==
    ASSUME ReplayAssumption, BacktestAssumption
    PROVE  Spec => []BacktestsAreBlind
<1>1. TableInv => BacktestsAreBlind
  <2> SUFFICES ASSUME TableInv, NEW s \in saved, NEW c \in s.cases, ~Crowded(s),
                      ~Rewritten(s, Cutoff(c, s.run[1])), NEW x \in s.results, x.case = c.id,
                      NEW y \in CaseResults(s.cases, KnownRows(s.rows, Cutoff(c, s.run[1])),
                                            KnownEvidence(s.evidence, Cutoff(c, s.run[1])),
                                            KnownLinks(s.links, Cutoff(c, s.run[1])), s.run[1]),
                      y.case = c.id
               PROVE  x = y
    BY DEF BacktestsAreBlind
  <2>1. /\ s.run[1] \in Window /\ s.cases \in SUBSET Case /\ s.rows \in SUBSET SourceRow
        /\ s.links \in CorpusLinks /\ x \in CaseResults(s.cases, s.rows, s.evidence, s.links, s.run[1])
    BY DEF TableInv, SavedFrom, Fingerprint
  <2>2. IsCorpus(s.links)
    BY <2>1, LinksAreCorpora
  <2>3. Cardinality(s.rows) + Cardinality(s.links) <= MaxSignals
    <3>1. IsFiniteSet(s.rows) /\ IsFiniteSet(s.links)
      BY <2>1, <2>2, FS_Subset DEF IsCorpus, BacktestAssumption
    <3> QED
      BY <3>1, FS_CardinalityType DEF Crowded, ReplayAssumption
  <2>4. InPlace(s.links, s.rows)
    <3> SUFFICES ASSUME NEW l \in s.links, NEW r \in s.rows, l.row.id = r.id
                 PROVE  HistoricalAvailability(l.row) <= HistoricalAvailability(r)
      BY DEF InPlace
    <3>1. IsRow(l.row) /\ IsRow(r)
      BY <2>1, <2>2, StoredRow DEF IsCorpus
    <3>2. HistoricalAvailability(l.row) \in Nat /\ HistoricalAvailability(r) \in Nat
      BY <3>1 DEF IsRow, HistoricalAvailability
    <3> QED
      BY <3>2 DEF Crowded
  <2>5. \A r \in s.rows : Kept(r, s.cases, s.run[1], Cutoff(c, s.run[1]))
    BY DEF Rewritten, Kept
  <2> QED
    BY <2>1, <2>2, <2>3, <2>4, <2>5, ReplayIsBlind
<1> QED
  BY <1>1, TableInvariance, PTL
------------------------------------------------------------------------------
(* The services together.  What is proved of a component is proved of an     *)
(* instance of it here: every definition of the one is that of the other.    *)

Backfill == INSTANCE PlanningBackfillProofs
Recovery == INSTANCE RecoveryAndCleanupProofs WITH MaxAttempts <- MaxRecoveries

\* The backfill that runs is the one that PlanningBackfillProofs is about.
LEMMA SameBackfill ==
    /\ H!BackfillAssumption => Backfill!BackfillAssumption
    /\ H!Init => Backfill!Init
    /\ [H!Next]_(H!vars) => [Backfill!Next]_(Backfill!vars)
    /\ Backfill!TypeOK => H!TypeOK
    /\ Backfill!CompleteIsCovered => H!CompleteIsCovered
<1>1. H!BackfillAssumption => Backfill!BackfillAssumption
  BY DEF H!BackfillAssumption, Backfill!BackfillAssumption, H!RunStatus,
         Backfill!RunStatus
<1>2. H!Init => Backfill!Init
  BY DEF H!Init, Backfill!Init, H!Chunks, Backfill!Chunks, H!Idle, Backfill!Idle,
         H!ChunksOf, Backfill!ChunksOf
<1>3. H!Next => Backfill!Next
  BY DEF H!Next, Backfill!Next, H!StartBackfill, Backfill!StartBackfill, H!SendFirstChunk,
         Backfill!SendFirstChunk, H!FirstChunkFails, Backfill!FirstChunkFails,
         H!Recalculate, Backfill!Recalculate, H!Receive, Backfill!Receive,
         H!CollectStarts, Backfill!CollectStarts, H!CollectSucceeds,
         Backfill!CollectSucceeds, H!CollectFails, Backfill!CollectFails,
         H!UpdateRunProgress, Backfill!UpdateRunProgress, H!SendNext, Backfill!SendNext,
         H!SendNextFails, Backfill!SendNextFails, H!FinishBackfill,
         Backfill!FinishBackfill, H!FinishFailed, Backfill!FinishFailed, H!Ends,
         Backfill!Ends, H!Stops, Backfill!Stops, H!GivesUp, Backfill!GivesUp, H!Written,
         Backfill!Written, H!ChunkPayload, Backfill!ChunkPayload, H!RunStatus,
         Backfill!RunStatus, H!At, Backfill!At, H!AlreadyCollected,
         Backfill!AlreadyCollected, H!Message, Backfill!Message, H!Goes, Backfill!Goes,
         H!IsLast, Backfill!IsLast, H!Idle, Backfill!Idle, H!Chunks, Backfill!Chunks,
         H!ChunksOf, Backfill!ChunksOf
<1>4. UNCHANGED H!vars => UNCHANGED Backfill!vars
  BY DEF H!vars, Backfill!vars
<1>5. Backfill!TypeOK => H!TypeOK
  BY DEF H!TypeOK, Backfill!TypeOK, H!RunStatus, Backfill!RunStatus, H!Chunks,
         Backfill!Chunks, H!ChunkPayload, Backfill!ChunkPayload, H!At, Backfill!At,
         H!Message, Backfill!Message, H!ChunksOf, Backfill!ChunksOf
<1>6. Backfill!CompleteIsCovered => H!CompleteIsCovered
  BY DEF H!CompleteIsCovered, Backfill!CompleteIsCovered
<1> QED
  BY <1>1, <1>2, <1>3, <1>4, <1>5, <1>6

\* The recovery that runs is the one that RecoveryAndCleanupProofs is about.
LEMMA SameRecovery ==
    /\ O!OriginAssumption => Recovery!OriginAssumption
    /\ O!Init => Recovery!Init
    /\ [O!Next]_(O!vars) => [Recovery!Next]_(Recovery!vars)
    /\ Recovery!TypeOK => O!TypeOK
    /\ Recovery!OriginsAreNotForgotten => O!OriginsAreNotForgotten
<1>1. O!OriginAssumption => Recovery!OriginAssumption
  BY DEF O!OriginAssumption, Recovery!OriginAssumption, O!Kinds, Recovery!Kinds,
         O!IsFiniteSet, Recovery!IsFiniteSet
<1>2. O!Init => Recovery!Init
  BY DEF O!Init, Recovery!Init, O!NotStarted, Recovery!NotStarted
<1>3. O!Next => Recovery!Next
  BY DEF O!Next, Recovery!Next, O!QueueReads, Recovery!QueueReads, O!QueueInserts,
         Recovery!QueueInserts, O!QueueSends, Recovery!QueueSends, O!QueueSendFails,
         Recovery!QueueSendFails, O!QueuerCrashes, Recovery!QueuerCrashes,
         O!RetryComesDue, Recovery!RetryComesDue, O!RecoverOrigin, Recovery!RecoverOrigin,
         O!RecoveryErrs, Recovery!RecoveryErrs, O!RecoveryUnreported,
         Recovery!RecoveryUnreported, O!ApplyResult, Recovery!ApplyResult, O!StoreOrigin,
         Recovery!StoreOrigin, O!ReconcileOrigin, Recovery!ReconcileOrigin,
         O!ReconcileFollowUp, Recovery!ReconcileFollowUp, O!BackfillReads,
         Recovery!BackfillReads, O!BackfillWrites, Recovery!BackfillWrites, O!Unresolved,
         Recovery!Unresolved, O!Retries, Recovery!Retries, O!Mine, Recovery!Mine,
         O!Selected, Recovery!Selected, O!Report, Recovery!Report, O!StillOpen,
         Recovery!StillOpen, O!OriginFrom, Recovery!OriginFrom, O!rest, Recovery!rest,
         O!OfKind, Recovery!OfKind, O!NotStarted, Recovery!NotStarted, O!Single,
         Recovery!Single, O!Cardinality, Recovery!Cardinality, O!Revise, Recovery!Revise, O!Kinds,
         Recovery!Kinds, O!Contradicts, Recovery!Contradicts, O!applications,
         Recovery!applications
<1>4. UNCHANGED O!vars => UNCHANGED Recovery!vars
  BY DEF O!vars, Recovery!vars, O!rest, Recovery!rest, O!applications,
         Recovery!applications
<1>5. Recovery!TypeOK => O!TypeOK
  BY DEF O!TypeOK, Recovery!TypeOK, O!Status, Recovery!Status, O!Kinds, Recovery!Kinds
<1>6. Recovery!OriginsAreNotForgotten => O!OriginsAreNotForgotten
  BY DEF O!OriginsAreNotForgotten, Recovery!OriginsAreNotForgotten, O!Unresolved,
         Recovery!Unresolved
<1> QED
  BY <1>1, <1>2, <1>3, <1>4, <1>5, <1>6

\* The cleanups that run are those that RecoveryAndCleanupProofs is about.
LEMMA SameCleanup ==
    /\ C!CleanupAssumption => Recovery!C!CleanupAssumption
    /\ C!Init => Recovery!C!Init
    /\ [C!Next]_(C!vars) => [Recovery!C!Next]_(Recovery!C!vars)
    /\ Recovery!C!TypeOK => C!TypeOK
<1>1. C!CleanupAssumption => Recovery!C!CleanupAssumption
  BY DEF C!CleanupAssumption, Recovery!C!CleanupAssumption, C!Kind, Recovery!C!Kind,
         C!Review, Recovery!C!Review, C!Stage, Recovery!C!Stage
<1>2. C!Init => Recovery!C!Init
  BY DEF C!Init, Recovery!C!Init, C!SystemLink, Recovery!C!SystemLink, C!NoLink,
         Recovery!C!NoLink, C!NewOpportunity, Recovery!C!NewOpportunity, C!Derived,
         Recovery!C!Derived, C!NoTask, Recovery!C!NoTask, C!Active, Recovery!C!Active,
         C!Foundations, Recovery!C!Foundations, C!Linked, Recovery!C!Linked,
         C!RelationState, Recovery!C!RelationState, C!Approved, Recovery!C!Approved
<1>3. C!Next => Recovery!C!Next
  BY DEF C!Next, Recovery!C!Next, C!CleanupReads, Recovery!C!CleanupReads, C!DriftReads,
         Recovery!C!DriftReads, C!BootstrapReads, Recovery!C!BootstrapReads, C!Ends,
         Recovery!C!Ends, C!DriftWrites, Recovery!C!DriftWrites, C!LinkWrites,
         Recovery!C!LinkWrites, C!RecomputeReads, Recovery!C!RecomputeReads,
         C!CleanupRestores, Recovery!C!CleanupRestores, C!CleanupResolves,
         Recovery!C!CleanupResolves, C!BootstrapWrites, Recovery!C!BootstrapWrites,
         C!RecomputeWrites, Recovery!C!RecomputeWrites, C!LinkReads, Recovery!C!LinkReads,
         C!AdminMerges, Recovery!C!AdminMerges, C!Publication, Recovery!C!Publication,
         C!SetPublication, Recovery!C!SetPublication, C!CustomerSaves,
         Recovery!C!CustomerSaves, C!WatchStarts, Recovery!C!WatchStarts,
         C!MatchIsSuggested, Recovery!C!MatchIsSuggested, C!MatchIsReviewed,
         Recovery!C!MatchIsReviewed, C!AutomationBlocked, Recovery!C!AutomationBlocked,
         C!AdminUnlinks, Recovery!C!AdminUnlinks, C!Kind, Recovery!C!Kind,
         C!EvidenceChanges, Recovery!C!EvidenceChanges, C!Begin, Recovery!C!Begin,
         C!Restorable, Recovery!C!Restorable, C!AutoResolves, Recovery!C!AutoResolves,
         C!Corrects, Recovery!C!Corrects, C!Derived, Recovery!C!Derived, C!NoTask,
         Recovery!C!NoTask, C!rows, Recovery!C!rows, C!StillCorrects,
         Recovery!C!StillCorrects, C!Unfinished, Recovery!C!Unfinished, C!Unsafe,
         Recovery!C!Unsafe, C!Fills, Recovery!C!Fills, C!Current, Recovery!C!Current,
         C!Changes, Recovery!C!Changes, C!Approved, Recovery!C!Approved, C!Happens,
         Recovery!C!Happens, C!IsOrphan, Recovery!C!IsOrphan, C!RootCause,
         Recovery!C!RootCause, C!States, Recovery!C!States, C!Drifts, Recovery!C!Drifts,
         C!Foundations, Recovery!C!Foundations, C!Touched, Recovery!C!Touched, C!Active,
         Recovery!C!Active, C!AdminLinked, Recovery!C!AdminLinked, C!Duplicate,
         Recovery!C!Duplicate, C!Linked, Recovery!C!Linked, C!RelationState,
         Recovery!C!RelationState, C!Rank, Recovery!C!Rank, C!Cardinality,
         Recovery!C!Cardinality
<1>4. UNCHANGED C!vars => UNCHANGED Recovery!C!vars
  BY DEF C!vars, Recovery!C!vars
<1>5. Recovery!C!TypeOK => C!TypeOK
  BY DEF C!TypeOK, Recovery!C!TypeOK, C!Row, Recovery!C!Row, C!Kind, Recovery!C!Kind,
         C!Review, Recovery!C!Review, C!Stage, Recovery!C!Stage, C!Publication,
         Recovery!C!Publication
<1> QED
  BY <1>1, <1>2, <1>3, <1>4, <1>5

\* Whichever service a behaviour is of, it is a behaviour of each: a step of one
\* leaves the tables of the others alone.
THEOREM ServicesImplement ==
    ServicesSpec => Spec /\ H!Spec /\ O!Spec /\ C!Spec
<1>1. ServicesInit => Init /\ H!Init /\ O!Init /\ C!Init
  BY DEF ServicesInit
<1>2. BacktestStep => /\ Next
                      /\ UNCHANGED H!vars /\ UNCHANGED O!vars /\ UNCHANGED C!vars
  BY DEF BacktestStep, Backtests, Next, chains, origins, cleanups, H!vars, O!vars, O!rest,
         O!applications, C!vars
<1>3. CleanupStep => /\ C!Next
                     /\ UNCHANGED vars /\ UNCHANGED H!vars /\ UNCHANGED O!vars
  BY DEF CleanupStep, Cleanups, C!Next, chains, origins, H!vars, O!vars, O!rest,
         O!applications
<1>4. OriginStep => /\ O!Next
                    /\ UNCHANGED vars /\ UNCHANGED H!vars /\ UNCHANGED C!vars
  BY DEF OriginStep, Origins, O!Next, chains, cleanups, H!vars, C!vars
<1>5. ChainStep => /\ H!Next
                   /\ UNCHANGED vars /\ UNCHANGED O!vars /\ UNCHANGED C!vars
  BY DEF ChainStep, Chains, H!Next, origins, cleanups, O!vars, O!rest,
         O!applications, C!vars
<1>6. UNCHANGED tables => /\ UNCHANGED vars /\ UNCHANGED H!vars
                          /\ UNCHANGED O!vars /\ UNCHANGED C!vars
  BY DEF tables, chains, origins, cleanups, H!vars, O!vars, O!rest,
         O!applications, C!vars
<1>7. [ServicesNext]_tables => /\ [Next]_vars /\ [H!Next]_(H!vars)
                               /\ [O!Next]_(O!vars) /\ [C!Next]_(C!vars)
  BY <1>2, <1>3, <1>4, <1>5, <1>6 DEF ServicesNext
<1> QED
  BY <1>1, <1>7, PTL DEF ServicesSpec, Spec, H!Spec, O!Spec, C!Spec

LEMMA ServicesAre ==
    ServicesSpec => Backfill!Spec /\ Recovery!Spec /\ Recovery!C!Spec
<1> USE SameBackfill, SameRecovery, SameCleanup
<1>1. H!Spec => Backfill!Spec
  BY PTL DEF H!Spec, Backfill!Spec
<1>2. O!Spec => Recovery!Spec
  BY PTL DEF O!Spec, Recovery!Spec
<1>3. C!Spec => Recovery!C!Spec
  BY PTL DEF C!Spec, Recovery!C!Spec
<1> QED
  BY <1>1, <1>2, <1>3, ServicesImplement

\* The tables of every service have their types, of the one that runs as well.
THEOREM ServicesTypeCorrect == ServicesSpec => []ServicesTypeOK
<1> USE ServicesAssumption
<1>1. Spec => []TypeOK
  BY TypeCorrect
<1>2. Backfill!Spec => []Backfill!TypeOK
  BY SameBackfill, Backfill!TypeCorrect
<1>3. Recovery!Spec => []Recovery!TypeOK
  BY SameRecovery, Recovery!TypeCorrect
<1>4. Recovery!C!Spec => []Recovery!C!TypeOK
  BY SameCleanup, Recovery!CleanupTypeCorrect
<1>5. TypeOK /\ Backfill!TypeOK /\ Recovery!TypeOK /\ Recovery!C!TypeOK => ServicesTypeOK
  BY SameBackfill, SameRecovery, SameCleanup DEF ServicesTypeOK
<1> QED
  BY <1>1, <1>2, <1>3, <1>4, <1>5, ServicesImplement, ServicesAre, PTL

\* A backfill is complete, and opportunities are recalculated from it, only when
\* the provider has answered for every day, for any chunks, losses and repeats.
THEOREM BackfillsCover == ServicesSpec => []CompleteIsCovered
<1>1. Backfill!Spec => []Backfill!CompleteIsCovered
  BY ServicesAssumption, SameBackfill, Backfill!CompleteCovers
<1>2. Backfill!CompleteIsCovered => CompleteIsCovered
  BY SameBackfill DEF CompleteIsCovered
<1> QED
  BY <1>1, <1>2, ServicesAre, PTL

\* A family that has its origin is not taken for one without, in whatever order
\* and however often results come, and whatever revisions make of the stored
\* applications, unless two of these have contradicted each other.
THEOREM OriginsRemain == ServicesSpec => []OriginsAreNotForgotten
<1>1. Recovery!Spec => []Recovery!OriginsAreNotForgotten
  BY ServicesAssumption, SameRecovery, Recovery!OriginsStay
<1>2. Recovery!OriginsAreNotForgotten => OriginsAreNotForgotten
  BY SameRecovery DEF OriginsAreNotForgotten
<1> QED
  BY <1>1, <1>2, ServicesAre, PTL

\* No job takes an opportunity in use out of the lists, whatever became of it
\* between the job's reads and its writes.
THEOREM CleanupsSpareTheUsed == ServicesSpec => CleanupSparesTheUsed
<1>1. Recovery!C!Spec => Recovery!C!CleanupSparesTheUsed
  BY ServicesAssumption, SameCleanup, Recovery!UsedAreSpared
<1>2. Recovery!C!CleanupSparesTheUsed => C!CleanupSparesTheUsed
  BY DEF C!CleanupSparesTheUsed, Recovery!C!CleanupSparesTheUsed, C!Falls,
         Recovery!C!Falls, C!vars, Recovery!C!vars
<1> QED
  BY <1>1, <1>2, ServicesAre DEF CleanupSparesTheUsed

\* A correction of the drift is of evidence as it is when the job writes.
THEOREM CorrectionsHold == ServicesSpec => CorrectionsAreCurrent
<1>1. Recovery!C!Spec => Recovery!C!CorrectionsAreCurrent
  BY ServicesAssumption, SameCleanup, Recovery!CorrectionsCurrent
<1>2. Recovery!C!CorrectionsAreCurrent => C!CorrectionsAreCurrent
  BY DEF C!CorrectionsAreCurrent, Recovery!C!CorrectionsAreCurrent, C!vars,
         Recovery!C!vars
<1> QED
  BY <1>1, <1>2, ServicesAre DEF CorrectionsAreCurrent
================================================================================
