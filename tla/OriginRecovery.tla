---------------------------- MODULE OriginRecovery ----------------------------
(***************************************************************************)
(* The search for the application that a stored Care follow-up refers to:  *)
(* the recovery attempts and the origin of a planning family in            *)
(* app/repository.py, the exact-reference lookup of app/collector.py and   *)
(* app/planning_origin.py, the results app/worker.py applies.              *)
(*                                                                         *)
(* One family is modelled: a unique constraint keeps families apart and    *)
(* every statement below names one of them.  A reconciliation is one step, *)
(* as its first statement locks the family's row until it commits.         *)
(***************************************************************************)
EXTENDS Naturals, FiniteSets, Sequences

CONSTANTS
    Origin,         \* applications that carry the reference
    KindOf,         \* what the facts of an application make it when it is stored
    RevisedTo,      \* RevisedTo[x]: what they may make it later
    Provided,       \* the applications that the provider's search may return
    Collected,      \* the applications that polling finds by itself
    SameAuthority, SamePostcode, SameAddress,   \* those that match the follow-up
    Queuer,         \* requests that queue a recovery
    None,
    MaxAttempts,    \* bound: recovery attempts
    MaxResults      \* bound: different results reported

Kinds == {"FOUNDATION", "NEGATIVE", "OTHER"}

\* What an instance gives the constants satisfies (see Services).
OriginAssumption ==
    /\ IsFiniteSet(Origin)
    /\ KindOf \in [Origin -> Kinds] /\ RevisedTo \in [Origin -> SUBSET Kinds]
    /\ SameAuthority \cup SamePostcode \cup SameAddress \subseteq Origin
    /\ Provided \cup Collected \subseteq Origin
    /\ None \notin Origin /\ MaxAttempts \in Nat /\ MaxResults \in Nat

VARIABLES
    family,         \* origin_status and primary_signal_id
    stored,         \* applications that are signals
    facts,          \* what the facts of an application make it now
    versions,       \* what they have made it since it was stored
    contradicted,   \* (history) two stored applications have contradicted each other
    indexed,        \* those whose normalised reference is stored
    attempts,       \* planning_origin_recovery_attempts, in order of insertion
    latest,         \* the attempt with the latest attempted_at, 0 if there is none
    queuer,         \* what each queueing request does
    requests,       \* attempts whose message has been sent to the collector
    results,        \* results sent to the worker
    arriving,       \* signals sent to the ingestion
    backfill        \* the backfill of another follow-up: the facts it has read

applications == <<stored, facts, versions, contradicted>>

rest == <<applications, indexed, attempts, latest, queuer, requests, results, arriving,
          backfill>>

vars == <<family, rest>>

NotStarted == [at |-> "before", facts |-> <<>>]

\* A follow-up of an application nobody has stored has made the family.
Init ==
    /\ family = [status |-> "MISSING", primary |-> None]
    /\ stored = {} /\ indexed = {} /\ arriving = {}
    /\ facts = KindOf /\ versions = [x \in Origin |-> {}] /\ contradicted = FALSE
    /\ attempts = <<>> /\ latest = 0
    /\ queuer = [q \in Queuer |-> "idle"]
    /\ requests = {} /\ results = {}
    /\ backfill = NotStarted

Single(S) == Cardinality(S) = 1
OfKind(S, of, kind) == {x \in S : of[x] = kind}
Contradicts(S, of) ==
    \E kind \in {"FOUNDATION", "NEGATIVE"} : Cardinality(OfKind(S, of, kind)) > 1
Unresolved == family.status \in {"MISSING", "AMBIGUOUS"}
------------------------------------------------------------------------------
Retries(attempt) ==
    \/ attempt.status = "PROVIDER_ERROR"
    \/ attempt.status = "NOT_FOUND" /\ attempt.due

\* queue_planning_origin_recovery: the latest attempt decides, and no lock is taken.
QueueReads(q, force) ==
    /\ queuer[q] = "idle" /\ Unresolved
    /\ ~force /\ latest > 0 => Retries(attempts[latest])
    /\ queuer' = [queuer EXCEPT ![q] = "read"]
    /\ UNCHANGED <<family, applications, indexed, attempts, latest, requests, results, arriving,
                   backfill>>

QueueInserts(q) ==
    /\ queuer[q] = "read" /\ Len(attempts) < MaxAttempts
    /\ attempts' = Append(attempts, [status |-> "QUEUED", due |-> FALSE,
                                     recovered |-> None, by |-> q])
    /\ latest' = Len(attempts) + 1
    /\ queuer' = [queuer EXCEPT ![q] = "inserted"]
    /\ UNCHANGED <<family, applications, indexed, requests, results, arriving, backfill>>

\* The attempt a request has just committed.
Mine(q) == CHOOSE a \in DOMAIN attempts :
              /\ attempts[a].by = q
              /\ \A b \in DOMAIN attempts : attempts[b].by = q => b <= a

QueueSends(q) ==
    /\ queuer[q] = "inserted"
    /\ requests' = requests \cup {Mine(q)}
    /\ queuer' = [queuer EXCEPT ![q] = "idle"]
    /\ UNCHANGED <<family, applications, indexed, attempts, latest, results, arriving, backfill>>

QueueSendFails(q) ==
    /\ queuer[q] = "inserted"
    /\ attempts' = [attempts EXCEPT ![Mine(q)].status = "PROVIDER_ERROR"]
    /\ queuer' = [queuer EXCEPT ![q] = "idle"]
    /\ UNCHANGED <<family, applications, indexed, latest, requests, results, arriving, backfill>>

\* Cut off after the commit, a request leaves an attempt QUEUED for good.
QueuerCrashes(q) ==
    /\ queuer[q] # "idle"
    /\ queuer' = [queuer EXCEPT ![q] = "idle"]
    /\ UNCHANGED <<family, applications, indexed, attempts, latest, requests, results, arriving,
                   backfill>>

\* The 30 days after an attempt that found nothing are over.
RetryComesDue(a) ==
    /\ attempts[a].status = "NOT_FOUND" /\ ~attempts[a].due
    /\ attempts' = [attempts EXCEPT ![a].due = TRUE]
    /\ UNCHANGED <<family, applications, indexed, latest, queuer, requests, results, arriving,
                   backfill>>
------------------------------------------------------------------------------
\* resolve_origin_candidate: the first context that leaves one candidate.
Selected(found, truncated) ==
    LET local == found \cap SameAuthority
        pool == IF local = {} THEN found ELSE local
        atPostcode == pool \cap SamePostcode
        near == IF atPostcode = {} THEN pool ELSE atPostcode
        contexts == <<found, local, atPostcode, near \cap SameAddress>>
        deciding == {i \in DOMAIN contexts : Single(contexts[i])}
    IN IF truncated \/ deciding = {} THEN {}
       ELSE contexts[CHOOSE i \in deciding : \A j \in deciding : i <= j]

\* recover_planning_origin, for a message of which there may be several
\* deliveries: it queues the application's signal, then reports.
Report(a, sent, reports) ==
    /\ a \in requests
    /\ arriving' = arriving \cup sent
    /\ results' = results \cup {[attempt |-> a, status |-> status] : status \in reports}
    /\ Cardinality(results') <= MaxResults
    /\ UNCHANGED <<family, applications, indexed, attempts, latest, queuer, requests, backfill>>

RecoverOrigin(a, found, truncated, care) ==
    LET one == IF care THEN Selected(found, truncated) ELSE {}
        status == IF found = {} THEN "NOT_FOUND" ELSE IF one = {} THEN "AMBIGUOUS" ELSE "FOUND"
    IN Report(a, one, {status})

\* The provider, or the sending of the signal, failed: it may have been sent.
RecoveryErrs(a, sent) == Report(a, sent, {"PROVIDER_ERROR"})

\* The report failed: the message will be delivered again.
RecoveryUnreported(a, x) == x \notin arriving /\ Report(a, {x}, {})

\* update_planning_origin_recovery: results come late, twice or out of order.
StillOpenBug == TRUE
StillOpen == Unresolved

ApplyResult(m) ==
    /\ attempts' = [attempts EXCEPT ![m.attempt].status = m.status,
                                    ![m.attempt].due = FALSE,
                                    ![m.attempt].recovered = None]
    /\ latest' = m.attempt
    /\ family' = IF StillOpen /\ m.status # "FOUND"
                   THEN [family EXCEPT !.status = IF m.status = "AMBIGUOUS" THEN "AMBIGUOUS"
                                                  ELSE "MISSING"]
                   ELSE family
    /\ UNCHANGED <<applications, indexed, queuer, requests, results, arriving, backfill>>

StoreOrigin(x) ==
    /\ x \in arriving \cup Collected /\ x \notin stored
    /\ stored' = stored \cup {x}
    /\ versions' = [versions EXCEPT ![x] = {facts[x]}]
    /\ contradicted' = (contradicted \/ Contradicts(stored', facts))
    /\ UNCHANGED <<family, facts, indexed, attempts, latest, queuer, requests, results, arriving,
                   backfill>>

\* A revision, or a new classification, of a stored application: from now on
\* its facts make something else of it, and nothing that it made is undone.
Revise(x, kind) ==
    /\ x \in stored /\ kind \in RevisedTo[x] \ {facts[x]}
    /\ facts' = [facts EXCEPT ![x] = kind]
    /\ versions' = [versions EXCEPT ![x] = versions[x] \cup {kind}]
    /\ contradicted' = (contradicted \/ Contradicts(stored, facts'))
    /\ UNCHANGED <<family, stored, indexed, attempts, latest, queuer, requests, results,
                   arriving, backfill>>
------------------------------------------------------------------------------
\* reconcile_planning_family_signal of an application: it is the primary one.
\* Its row was read before anything was locked, and may have been revised since.
ReconcileOrigin(x) ==
    /\ x \in stored
    /\ indexed' = indexed \cup {x}
    /\ attempts' = [a \in DOMAIN attempts |->
                      IF attempts[a].status = "FOUND" /\ attempts[a].recovered = None
                        THEN [attempts[a] EXCEPT !.recovered = x] ELSE attempts[a]]
    /\ \E kind \in versions[x] :
          family' = CASE kind = "FOUNDATION" -> [status |-> "RESOLVED", primary |-> x]
                      [] kind = "NEGATIVE" -> [status |-> "NEGATIVE", primary |-> x]
                      [] OTHER -> family
    /\ UNCHANGED <<applications, latest, queuer, requests, results, arriving, backfill>>

\* What a set of applications with such facts makes of the family.
OriginFrom(candidates, of) ==
    LET foundations == OfKind(candidates, of, "FOUNDATION")
        negatives == OfKind(candidates, of, "NEGATIVE")
    IN CASE Single(foundations) ->
              [status |-> "RESOLVED", primary |-> CHOOSE x \in foundations : TRUE]
         [] ~Single(foundations)
              /\ (Cardinality(foundations) > 1 \/ Cardinality(negatives) > 1) ->
              [status |-> "AMBIGUOUS", primary |-> family.primary]
         [] foundations = {} /\ Single(negatives) ->
              [status |-> "NEGATIVE", primary |-> CHOOSE x \in negatives : TRUE]
         [] OTHER -> family

\* The same of the follow-up, from the applications whose reference is stored,
\* read as they are with the family's row locked.
ReconcileFollowUp ==
    /\ family' = OriginFrom(indexed, facts)
    /\ UNCHANGED rest

\* backfill_historical_planning_family_metadata, of a follow-up that has no
\* relationship yet: it reads all applications long before it writes, and leaves
\* conflicting ones alone.
BackfillReads ==
    /\ backfill.at = "before"
    /\ backfill' = [at |-> "read", facts |-> [x \in stored |-> facts[x]]]
    /\ UNCHANGED <<family, applications, indexed, attempts, latest, queuer, requests, results,
                   arriving>>

BackfillWrites ==
    LET candidates == DOMAIN backfill.facts
        conflicting == Contradicts(candidates, backfill.facts)
    IN /\ backfill.at = "read"
       /\ backfill' = IF conflicting THEN NotStarted ELSE [at |-> "done", facts |-> <<>>]
       /\ family' = IF conflicting THEN family ELSE OriginFrom(candidates, backfill.facts)
       /\ UNCHANGED <<applications, indexed, attempts, latest, queuer, requests, results,
                      arriving>>

Next ==
    \/ \E q \in Queuer :
          \/ \E force \in BOOLEAN : QueueReads(q, force)
          \/ QueueInserts(q)
          \/ QueueSends(q)
          \/ QueueSendFails(q)
          \/ QueuerCrashes(q)
    \/ \E a \in DOMAIN attempts :
          \/ RetryComesDue(a)
          \/ \E found \in SUBSET Provided, truncated, care \in BOOLEAN :
                RecoverOrigin(a, found, truncated, care)
          \/ \E sent \in {{}} \cup {{x} : x \in Provided} : RecoveryErrs(a, sent)
          \/ \E x \in Provided : RecoveryUnreported(a, x)
    \/ \E m \in results : ApplyResult(m)
    \/ \E x \in Origin :
          \/ StoreOrigin(x)
          \/ ReconcileOrigin(x)
          \/ \E kind \in Kinds : Revise(x, kind)
    \/ ReconcileFollowUp
    \/ BackfillReads
    \/ BackfillWrites

Spec == Init /\ [][Next]_vars
------------------------------------------------------------------------------
Status == {"QUEUED", "FOUND", "NOT_FOUND", "AMBIGUOUS", "PROVIDER_ERROR"}

\* The tables have their types, every message is of an attempt, and only an
\* attempt that found an application has a recovered signal.
TypeOK ==
    /\ family \in [status: {"MISSING", "AMBIGUOUS", "RESOLVED", "NEGATIVE"},
                   primary: Origin \cup {None}]
    /\ indexed \subseteq stored /\ stored \cup arriving \subseteq Origin
    /\ facts \in [Origin -> Kinds] /\ contradicted \in BOOLEAN
    /\ versions \in [Origin -> SUBSET Kinds]
    /\ DOMAIN backfill.facts \subseteq Origin
    /\ attempts \in Seq([status: Status, due: BOOLEAN, recovered: Origin \cup {None},
                         by: Queuer])
    /\ latest \in {0} \cup DOMAIN attempts
    /\ requests \cup {m.attempt : m \in results} \subseteq DOMAIN attempts
    /\ \A a \in DOMAIN attempts :
          attempts[a].recovered # None => attempts[a].status = "FOUND"

\* However late, however often and in whatever order the results of recovery
\* attempts arrive, and whatever revisions make of the applications meanwhile, a
\* family that has its origin is not taken for one without, unless two stored
\* applications have contradicted each other: the family is AMBIGUOUS from then
\* on, until an application or the follow-up is reconciled again, and a late
\* result makes it MISSING.
OriginsAreNotForgotten ==
    Unresolved /\ family.primary # None => contradicted
==============================================================================
