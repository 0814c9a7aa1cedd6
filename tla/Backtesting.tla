----------------------------- MODULE Backtesting -----------------------------
(***************************************************************************)
(* Backtests of the Care benchmark: app/backtest_repository.py,            *)
(* app/historical_research_repository.py and migrations 0019 to 0021.      *)
(*                                                                         *)
(* An administrator seeds the benchmark from the Ofsted register, imports  *)
(* curated corpora and asks for runs.  Several requests may execute at a   *)
(* time; each reads the corpus, the ledger of runs, the cases and the      *)
(* source rows in transactions of their own, enters its run in the ledger, *)
(* and saves all results at once, or fails, or is cut off at any point;    *)
(* the answer of the COMMIT that saves them may be lost.                   *)
(***************************************************************************)
EXTENDS HistoricalReplay

CONSTANTS
    Executor,       \* requests executing at a time
    SourceRow,      \* the versions of the stored source rows, see LiveRows
    Evidence,       \* Companies House evidence, by its retrieval
    Case,           \* benchmark cases; from: the Ofsted row a case is seeded from
    Manifest,       \* the bundled corpora, oldest first: version, cases, links
    Window,         \* the bounds asked for: asOf and lookback
    MaxCases,       \* max_cases, and the limit of a seeding
    FirstDay, LastDay,  \* bound: the days that pass
    MaxAttempts     \* bound: runs entered in the ledger

CorpusVersions == {Manifest[m].version : m \in DOMAIN Manifest}

\* What identifies a run: its bounds and the corpus it reads.
Fingerprint == Window \X (CorpusVersions \cup {None})

IsRow(r) == r.id \in Nat /\ r.discovered \in Nat /\ r.published \in Nat \cup {None}

\* What a run may read of raw_signals: only applications are decided on.
IsStoredRow(r) ==
    /\ IsRow(r) /\ r.source \in {"planning", "recruitment", "ofsted"}
    /\ r.refused \in BOOLEAN /\ (r.refused => r.source = "planning")

\* Of planning and recruitment, one record under each identity.
IsCorpus(links) ==
    /\ IsFiniteSet(links)
    /\ \A l \in links : /\ l.row.curated /\ IsRow(l.row)
                        /\ l.row.source \in {"planning", "recruitment"}
    /\ \A k, l \in links : k.row.id = l.row.id => k.row = l.row

\* What an instance gives the constants satisfies (see Services).
BacktestAssumption ==
    /\ MaxCases \in Nat \ {0} /\ MaxAttempts \in Nat \ {0}
    /\ FirstDay \in Nat /\ LastDay \in Nat
    /\ IsFiniteSet(SourceRow) /\ \A r \in SourceRow : ~r.curated /\ IsStoredRow(r)
    /\ \A r, q \in SourceRow : r.id = q.id => r.source = q.source
    /\ \A r, q \in SourceRow : r.id = q.id /\ r.discovered = q.discovered => r = q
    /\ \A c \in Case : c.id \in Nat /\ c.outcome \in Nat
    /\ \A c, d \in Case : c.id = d.id => c = d
    /\ \A w \in Window : w.asOf \in Nat /\ w.lookback \in Nat
    /\ \A m \in DOMAIN Manifest : IsCorpus(Manifest[m].links)

VARIABLES
    now,            \* today
    benchmark,      \* benchmark_cases
    imports,        \* benchmark_research_runs that are COMPLETE, oldest first
    runs,           \* backtest_runs: the statuses under each fingerprint
    saved,          \* backtest_case_results with the metrics of their run, and
                    \* (history) what the run had read
    job             \* what each request executes

vars == <<now, benchmark, imports, runs, saved, job>>

NoJob == [at |-> "idle"]

Init ==
    /\ now = FirstDay
    /\ benchmark = {c \in Case : c.from = None}
    /\ imports = <<>>
    /\ runs = [f \in Fingerprint |-> <<>>]
    /\ saved = {}
    /\ job = [j \in Executor |-> NoJob]

\* raw_signals: a revision of a planning row takes the place of its version
\* before, and the day it was observed that of its discovery.
LiveRows ==
    {r \in SourceRow : /\ r.discovered <= now
                       /\ \A s \in SourceRow : s.id = r.id /\ s.discovered <= now
                                                 => s.discovered <= r.discovered}

DayPasses ==
    /\ now < LastDay
    /\ now' = now + 1
    /\ UNCHANGED <<benchmark, imports, runs, saved, job>>

\* The latest registrations of the register become cases, each of them once.
SeedBenchmark ==
    LET found == {c \in Case : \E r \in LiveRows : r.source = "ofsted" /\ c.from = r.id}
        later(c, d) == c.outcome > d.outcome \/ (c.outcome = d.outcome /\ c.id < d.id)
    IN /\ benchmark' = benchmark \cup Earliest(found, MaxCases, later)
       /\ UNCHANGED <<now, imports, runs, saved, job>>

\* One transaction: the manifest is new, covers exactly the benchmark, and
\* changes no record of an earlier import of its version.
ImportCorpus(m) ==
    LET known == UNION {Manifest[imports[i]].links : i \in
                            {i \in DOMAIN imports :
                                Manifest[imports[i]].version = Manifest[m].version}}
    IN /\ m \notin Range(imports)
       /\ Manifest[m].cases = {c.id : c \in benchmark}
       /\ \A k \in known, l \in Manifest[m].links : k.row.id = l.row.id => k.row = l.row
       /\ imports' = Append(imports, m)
       /\ UNCHANGED <<now, benchmark, runs, saved, job>>
------------------------------------------------------------------------------
\* Rows by the day they were observed, then by their ids.
Observed(r, s) == r.discovered < s.discovered \/ (r.discovered = s.discovered /\ r.id < s.id)

\* The links of a corpus to the cases, those that count, with their records.
HistoricalCorpusInputs(cases, links) ==
    LET counts(l) == \E c \in cases :
                        /\ c.id = l.case
                        /\ EvidenceEligibility(c, l.row, l.confidence, l.trusted) = "ELIGIBLE"
        earlier(k, l) == Observed(k.row, l.row) \/ (k.row = l.row /\ k.case < l.case)
    IN Earliest({l \in links : counts(l)}, MaxSignals, earlier)

\* The stored rows a run asks for, by the day they were observed last.
Queried(r, cases, w) ==
    /\ r.discovered >= Smallest({c.outcome : c \in cases}) - w.lookback
    /\ r.discovered <= w.asOf

InputRows(cases, rows, w) ==
    Earliest({r \in rows : Queried(r, cases, w)}, MaxSignals, Observed)

\* The curated records first, then the stored rows they do not stand for.
CombinedInputs(curated, stored) ==
    LET fresh == {r \in stored : \A l \in curated : l.row.id # r.id}
        earlier(r, s) == (r.curated /\ ~s.curated) \/ (r.curated = s.curated /\ Observed(r, s))
    IN Earliest({l.row : l \in curated} \cup fresh, MaxSignals, earlier)

\* A linked record within the window makes up for an incomplete archive.
Covered(c, curated, w) ==
    \/ c.covered
    \/ \E l \in curated : /\ l.case = c.id
                          /\ l.row.discovered >= c.outcome - w.lookback
                          /\ l.row.discovered <= ReplayEnd(c, w.asOf)

\* The results of all cases, from the tables as they were read.
CaseResults(cases, rows, evidence, links, w) ==
    LET curated == HistoricalCorpusInputs(cases, links)
        signals == CombinedInputs(curated, InputRows(cases, rows, w))
        labels(c) == {l.row.id : l \in {k \in curated : k.case = c.id}}
        result(c) == ReplayCase(c, signals, evidence, w, labels(c), Covered(c, curated, w))
    IN {result(c) : c \in cases}
------------------------------------------------------------------------------
Live(status) == status \in {"RUNNING", "SUCCESS"}

Entries == UNION {{f} \X DOMAIN runs[f] : f \in Fingerprint}

HasLiveRun(f) == \E i \in DOMAIN runs[f] : Live(runs[f][i])

LatestCorpus == IF imports = <<>> THEN None ELSE imports[Len(imports)]

CorpusVersion(m) == IF m = None THEN None ELSE Manifest[m].version

Links(m) == IF m = None THEN {} ELSE Manifest[m].links

\* execute_backtest fixes the corpus and with it the fingerprint ...
StartRun(j, w) ==
    /\ job[j].at = "idle"
    /\ job' = [job EXCEPT ![j] = [at |-> "keyed", run |-> <<w, CorpusVersion(LatestCorpus)>>,
                                  links |-> Links(LatestCorpus)]]
    /\ UNCHANGED <<now, benchmark, imports, runs, saved>>

\* ... answers with the run that has it, if there is one ...
LookUpRun(j) ==
    /\ job[j].at = "keyed"
    /\ job' = [job EXCEPT ![j] =
                 IF HasLiveRun(job[j].run) THEN NoJob
                 ELSE [at |-> "missing", run |-> job[j].run, links |-> job[j].links]]
    /\ UNCHANGED <<now, benchmark, imports, runs, saved>>

\* ... reads the earliest cases, and has nothing to do without any ...
LoadCases(j) ==
    LET earlier(c, d) == c.outcome < d.outcome \/ (c.outcome = d.outcome /\ c.id < d.id)
        cases == Earliest(benchmark, MaxCases, earlier)
    IN /\ job[j].at = "missing"
       /\ job' = [job EXCEPT ![j] =
                    IF cases = {} THEN NoJob
                    ELSE [at |-> "cases", run |-> job[j].run, links |-> job[j].links,
                          cases |-> cases]]
       /\ UNCHANGED <<now, benchmark, imports, runs, saved>>

\* ... then the source rows and the evidence of that day ...
LoadInputs(j) ==
    LET retrieved == {e \in Evidence : e.retrieved <= now /\ e.retrieved <= job[j].run[1].asOf}
        earlier(e, d) == e.retrieved < d.retrieved \/ (e.retrieved = d.retrieved /\ e.id < d.id)
    IN /\ job[j].at = "cases"
       /\ job' = [job EXCEPT ![j] =
                    [at |-> "loaded", run |-> job[j].run, links |-> job[j].links,
                     cases |-> job[j].cases, rows |-> LiveRows,
                     evidence |-> Earliest(retrieved, MaxSignals, earlier)]]
       /\ UNCHANGED <<now, benchmark, imports, runs, saved>>

\* The partial unique index of migration 0021: one live run of a fingerprint.
ConflictsBug(f) == FALSE
Conflicts(f) == HasLiveRun(f)

\* ... and enters its run, unless a run of the same fingerprint came first.
InsertRun(j) ==
    LET f == job[j].run
    IN /\ job[j].at = "loaded"
       /\ IF Conflicts(f)
            THEN /\ job' = [job EXCEPT ![j] = NoJob]
                 /\ UNCHANGED runs
            ELSE /\ Cardinality(Entries) < MaxAttempts
                 /\ runs' = [runs EXCEPT ![f] = Append(runs[f], "RUNNING")]
                 /\ job' = [job EXCEPT ![j] =
                              [at |-> "replaying", run |-> f, links |-> job[j].links,
                               cases |-> job[j].cases, rows |-> job[j].rows,
                               evidence |-> job[j].evidence, index |-> Len(runs[f]) + 1]]
       /\ UNCHANGED <<now, benchmark, imports, saved>>

\* UPDATE backtest_runs SET status ... WHERE id = the run the request entered.
SetStatusBug(j, status) == UNCHANGED runs
SetStatus(j, status) ==
    runs' = [runs EXCEPT ![job[j].run] = [runs[job[j].run] EXCEPT ![job[j].index] = status]]

\* One transaction saves all results and the SUCCESS; the request may not hear
\* that it was committed.
SaveRun(j) ==
    LET b == job[j]
        results == CaseResults(b.cases, b.rows, b.evidence, b.links, b.run[1])
    IN /\ b.at = "replaying"
       /\ SetStatus(j, "SUCCESS")
       /\ saved' = saved \cup
            {[run |-> b.run, index |-> b.index, cases |-> b.cases, rows |-> b.rows,
              evidence |-> b.evidence, links |-> b.links,
              results |-> results, metrics |-> AggregateResults(results)]}
       /\ \E next \in {NoJob, [at |-> "unclear", run |-> b.run, index |-> b.index]} :
             job' = [job EXCEPT ![j] = next]
       /\ UNCHANGED <<now, benchmark, imports>>

\* The replay or the saving raised, the answer of the COMMIT may have been lost:
\* the run is FAILED, whatever its status was, and what was saved stays.
FailRun(j) ==
    /\ job[j].at \in {"replaying", "unclear"}
    /\ SetStatus(j, "FAILED")
    /\ job' = [job EXCEPT ![j] = NoJob]
    /\ UNCHANGED <<now, benchmark, imports, saved>>

\* The Lambda is cut off: a run it entered keeps its status for good.
CrashRun(j) ==
    /\ job[j].at # "idle"
    /\ job' = [job EXCEPT ![j] = NoJob]
    /\ UNCHANGED <<now, benchmark, imports, runs, saved>>

Next ==
    \/ DayPasses
    \/ SeedBenchmark
    \/ \E m \in DOMAIN Manifest : ImportCorpus(m)
    \/ \E j \in Executor :
          \/ \E w \in Window : StartRun(j, w)
          \/ LookUpRun(j)
          \/ LoadCases(j)
          \/ LoadInputs(j)
          \/ InsertRun(j)
          \/ SaveRun(j)
          \/ FailRun(j)
          \/ CrashRun(j)

Spec == Init /\ [][Next]_vars
------------------------------------------------------------------------------
Step == {"idle", "keyed", "missing", "cases", "loaded", "replaying", "unclear"}

\* The tables have their types, a request works on an entry of the ledger
\* from its insertion to its end, and what is saved is of a run that ended
\* (as a FAILED one, if the answer of its COMMIT was lost).
TypeOK ==
    /\ now \in Nat
    /\ benchmark \subseteq Case
    /\ imports \in Seq(DOMAIN Manifest)
    /\ runs \in [Fingerprint -> Seq({"RUNNING", "SUCCESS", "FAILED"})]
    /\ \A j \in Executor :
          /\ job[j].at \in Step
          /\ job[j].at # "idle" => job[j].run \in Fingerprint
          /\ job[j].at \in {"replaying", "unclear"} =>
                /\ job[j].index \in DOMAIN runs[job[j].run]
                /\ runs[job[j].run][job[j].index] =
                      IF job[j].at = "replaying" THEN "RUNNING" ELSE "SUCCESS"
    /\ \A s \in saved : runs[s.run][s.index] \in {"SUCCESS", "FAILED"}

\* The day a case's question ends at.
Cutoff(c, w) == IF c.outcome < w.asOf THEN c.outcome ELSE w.asOf

\* The versions a record had before the one that is stored.
VersionsBefore(r) == {q \in SourceRow : q.id = r.id /\ q.discovered < r.discovered}

\* A version was known from the day it was observed; the first one of a record,
\* from the day the record was published on if that is earlier.
KnownBy(r, day) ==
    \/ r.discovered <= day
    \/ VersionsBefore(r) = {} /\ r.published # None /\ r.published <= day

\* What had been published or observed by then, the register aside: of each
\* record its latest version that was known.
KnownVersions(r, day) ==
    {q \in {r} \cup VersionsBefore(r) : q.source # "ofsted" /\ KnownBy(q, day)}
KnownRows(rows, day) ==
    UNION {{q \in KnownVersions(r, day) :
               \A p \in KnownVersions(r, day) : p.discovered <= q.discovered} : r \in rows}
KnownEvidence(evidence, day) == {e \in evidence : e.retrieved <= day}
KnownLinks(links, day) ==
    {l \in links : /\ l.row.source # "ofsted"
                   /\ \/ l.row.discovered <= day
                      \/ l.row.published # None /\ l.row.published <= day}

\* More rows than max_signals crowd each other out, and a curated snapshot
\* takes the place of a stored row, whichever of them was available first.
Crowded(s) ==
    \/ Cardinality(s.rows) + Cardinality(s.links) > MaxSignals
    \/ \E l \in s.links, r \in s.rows :
          l.row.id = r.id /\ HistoricalAvailability(l.row) > HistoricalAvailability(r)

\* What a row says beside its decision.
Content(r) == <<r.id, r.source, r.published, r.decision, r.kind, r.postcode, r.who, r.near,
                r.company, r.curated>>

\* store_planning_revision leaves nothing of the version before.  A version that
\* was observed after the day stands for an earlier one of other content, or
\* without a date of its own, or the query sees one of the two and not the other.
Rewritten(s, day) ==
    \E r \in s.rows : \E q \in VersionsBefore(r) :
        /\ r.source # "ofsted" /\ r.discovered > day
        /\ \/ Content(q) # Content(r)
           \/ r.published = None
           \/ ~Queried(q, s.cases, s.run[1]) \/ ~Queried(r, s.cases, s.run[1])

\* Nothing that became known after a case's outcome, or after the day the run
\* asks for, changes what the run says of the case: neither a row, a decision
\* on an application that was known, a piece of evidence or a link, nor the
\* register the outcome is taken from.  The result is the one the run would
\* have had of the tables of that day, unless its inputs were Crowded or a
\* record in them had been Rewritten since: an application stays dated by its
\* publication, so that its later text is taken for known.
BacktestsAreBlind ==
    \A s \in saved : \A c \in s.cases :
        LET w == s.run[1]
            day == Cutoff(c, w)
            blind == CaseResults(s.cases, KnownRows(s.rows, day),
                                 KnownEvidence(s.evidence, day), KnownLinks(s.links, day), w)
        IN ~Crowded(s) /\ ~Rewritten(s, day) =>
               \A x \in s.results, y \in blind : x.case = c.id /\ y.case = c.id => x = y

\* The runs that SUCCEEDED and whose request does not know it.
Unanswered == {<<job[j].run, job[j].index>> : j \in {k \in Executor : job[k].at = "unclear"}}

Ledger == INSTANCE IdempotentRuns
              WITH Key <- Fingerprint, attempts <- runs, unanswered <- Unanswered

\* The ledger of backtest runs, with the requests that race for it, implements
\* the idempotent attempts: identical runs are made once, and once more only
\* when a request did not learn that its run had been saved.
BacktestsAreIdempotent == Ledger!Spec
==============================================================================
