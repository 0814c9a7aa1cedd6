------------------------ MODULE RecoveryAndCleanupProofs ------------------------
(***************************************************************************)
(* Two services of the administrator, for any applications, opportunities, *)
(* signals, requests and jobs: a family keeps the origin it has found, a   *)
(* cleanup spares what is in use when it writes, and a correction is of    *)
(* what the evidence says then.                                            *)
(***************************************************************************)
EXTENDS OriginRecovery, FiniteSetTheorems, SequenceTheorems, TLAPS

Attempt == [status: Status, due: BOOLEAN, recovered: Origin \cup {None}, by: Queuer]
FamilyRow == [status: {"MISSING", "AMBIGUOUS", "RESOLVED", "NEGATIVE"}, primary: Origin \cup {None}]

\* A family without an origin never had one, or two applications have
\* contradicted one another, which is not forgotten.
Open(row) == row.status \in {"MISSING", "AMBIGUOUS"} /\ row.primary # None
FamilyInv ==
    /\ Open(family) => contradicted
    /\ Contradicts(stored, facts) => contradicted

\* The attempt that a request has inserted last.
Last(q, a) ==
    /\ a \in DOMAIN attempts /\ attempts[a].by = q
    /\ \A b \in DOMAIN attempts : attempts[b].by = q => b <= a

\* What was not sent was not answered, and the attempt a request is about to
\* send is one of these.
AttemptsInv ==
    /\ \A a \in DOMAIN attempts : attempts[a].status = "FOUND" => a \in requests
    /\ results \subseteq [attempt: requests, status: Status \ {"QUEUED"}]
    /\ \A q \in Queuer : queuer[q] = "inserted" => \E a \in Nat : Last(q, a) /\ a \notin requests

IInv ==
    /\ TypeOK
    /\ IsFiniteSet(stored)
    /\ queuer \in [Queuer -> {"idle", "read", "inserted"}]
    /\ FamilyInv /\ AttemptsInv
------------------------------------------------------------------------------
(* Applications and what they make of a family. *)

LEMMA MoreContradict ==
    ASSUME NEW some, NEW more, NEW of, IsFiniteSet(more), some \subseteq more,
           Contradicts(some, of)
    PROVE  Contradicts(more, of)
<1>1. PICK kind \in {"FOUNDATION", "NEGATIVE"} : Cardinality(OfKind(some, of, kind)) > 1
  BY DEF Contradicts
<1>2. /\ OfKind(some, of, kind) \subseteq OfKind(more, of, kind)
      /\ OfKind(more, of, kind) \subseteq more
  BY DEF OfKind
<1>3. IsFiniteSet(OfKind(more, of, kind))
  BY <1>2, FS_Subset
<1>4. /\ IsFiniteSet(OfKind(some, of, kind))
      /\ Cardinality(OfKind(some, of, kind)) <= Cardinality(OfKind(more, of, kind))
  BY <1>2, <1>3, FS_Subset
<1>5. /\ Cardinality(OfKind(some, of, kind)) \in Nat
      /\ Cardinality(OfKind(more, of, kind)) \in Nat
  BY <1>3, <1>4, FS_CardinalityType
<1> QED
  BY <1>1, <1>4, <1>5 DEF Contradicts

LEMMA OneOf ==
    ASSUME NEW some, Single(some)
    PROVE  (CHOOSE x \in some : TRUE) \in some
<1>1. some # {}
  BY FS_EmptySet DEF Single
<1> QED
  BY <1>1

\* What applications make of a family: with a contradiction, or a found origin.
LEMMA FromCandidates ==
    ASSUME OriginAssumption, family \in FamilyRow, NEW some, some \subseteq Origin, NEW of
    PROVE  /\ OriginFrom(some, of) \in FamilyRow
           /\ Open(OriginFrom(some, of)) => \/ OriginFrom(some, of) = family
                                           \/ Contradicts(some, of)
<1> DEFINE foundations == OfKind(some, of, "FOUNDATION")
           negatives == OfKind(some, of, "NEGATIVE")
           from == OriginFrom(some, of)
<1>1. foundations \subseteq Origin /\ negatives \subseteq Origin
  BY DEF OfKind
<1>2. CASE Single(foundations)
  <2>1. from = [status |-> "RESOLVED", primary |-> CHOOSE x \in foundations : TRUE]
    <3>1. foundations # {}
      BY <1>2, OneOf
    <3> QED
      BY <1>2, <3>1 DEF OriginFrom
  <2> QED
    BY <1>1, <1>2, <2>1, OneOf DEF FamilyRow, Open
<1>3. CASE ~Single(foundations)
           /\ (Cardinality(foundations) > 1 \/ Cardinality(negatives) > 1)
  <2>1. from = [status |-> "AMBIGUOUS", primary |-> family.primary]
    BY <1>3, FS_EmptySet DEF OriginFrom, Single
  <2> QED
    BY <1>3, <2>1 DEF FamilyRow, Contradicts
<1>4. CASE /\ ~Single(foundations)
           /\ ~(Cardinality(foundations) > 1 \/ Cardinality(negatives) > 1)
           /\ foundations = {} /\ Single(negatives)
  <2>1. from = [status |-> "NEGATIVE", primary |-> CHOOSE x \in negatives : TRUE]
    BY <1>4 DEF OriginFrom
  <2> QED
    BY <1>1, <1>4, <2>1, OneOf DEF FamilyRow, Open
<1>5. CASE /\ ~Single(foundations)
           /\ ~(Cardinality(foundations) > 1 \/ Cardinality(negatives) > 1)
           /\ ~(foundations = {} /\ Single(negatives))
  <2>1. from = family
    BY <1>5 DEF OriginFrom
  <2> QED
    BY <2>1
<1> QED
  BY <1>2, <1>3, <1>4, <1>5

\* Applications are stored or revised while the family stays as it is, or the
\* family is written while they do.
LEMMA FamilyKept ==
    ASSUME OriginAssumption, IInv, UNCHANGED applications,
           \/ family' = family
           \/ \E some \in SUBSET Origin : \E of :
                 /\ family' = OriginFrom(some, of)
                 /\ Contradicts(some, of) => contradicted
           \/ family' \in FamilyRow /\ (Open(family') => Open(family))
    PROVE  FamilyInv' /\ family' \in FamilyRow
<1>1. family \in FamilyRow /\ FamilyInv
  BY DEF IInv, TypeOK, FamilyRow
<1>2. contradicted' = contradicted /\ stored' = stored /\ facts' = facts
  BY DEF applications
<1>3. CASE family' = family
  BY <1>1, <1>2, <1>3 DEF FamilyInv, applications
<1>4. ASSUME NEW some \in SUBSET Origin, NEW of, family' = OriginFrom(some, of),
             Contradicts(some, of) => contradicted
      PROVE  FamilyInv' /\ family' \in FamilyRow
  <2>1. family' \in FamilyRow /\ (Open(family') => family' = family \/ Contradicts(some, of))
    BY <1>1, <1>4, FromCandidates
  <2> QED
    BY <1>1, <1>2, <1>4, <2>1 DEF FamilyInv
<1>5. CASE family' \in FamilyRow /\ (Open(family') => Open(family))
  BY <1>1, <1>2, <1>5 DEF FamilyInv
<1> QED
  BY <1>3, <1>4, <1>5

\* resolve_origin_candidate selects from what was found.
LEMMA SelectedFound ==
    ASSUME NEW found, NEW truncated
    PROVE  Selected(found, truncated) \subseteq found
<1> DEFINE local == found \cap SameAuthority
           pool == IF local = {} THEN found ELSE local
           atPostcode == pool \cap SamePostcode
           near == IF atPostcode = {} THEN pool ELSE atPostcode
           contexts == <<found, local, atPostcode, near \cap SameAddress>>
           deciding == {i \in DOMAIN contexts : Single(contexts[i])}
           least(i) == i \in deciding /\ \A j \in deciding : i <= j
<1>1. DOMAIN contexts = 1..4 /\ \A i \in 1..4 : contexts[i] \subseteq found
  OBVIOUS
<1>2. ASSUME deciding # {}
      PROVE  \E i \in deciding : \A j \in deciding : i <= j
  <2>1. deciding \subseteq 1..4
    BY <1>1
  <2> HIDE DEF deciding
  <2>2. \A j \in deciding : j = 1 \/ j = 2 \/ j = 3 \/ j = 4
    BY <2>1
  <2>3. CASE 1 \in deciding
    BY <2>2, <2>3
  <2>4. CASE 1 \notin deciding /\ 2 \in deciding
    BY <2>2, <2>4
  <2>5. CASE 1 \notin deciding /\ 2 \notin deciding /\ 3 \in deciding
    BY <2>2, <2>5
  <2>6. CASE 1 \notin deciding /\ 2 \notin deciding /\ 3 \notin deciding
    <3>1. deciding = {4}
      BY <1>2, <2>2, <2>6
    <3> QED
      BY <3>1
  <2> QED
    BY <2>3, <2>4, <2>5, <2>6
<1>3. ASSUME deciding # {}
      PROVE  contexts[CHOOSE i \in deciding : \A j \in deciding : i <= j] \subseteq found
  <2>1. (CHOOSE i \in deciding : \A j \in deciding : i <= j) \in deciding
    <3> HIDE DEF deciding
    <3> QED
      BY <1>2, <1>3
  <2> HIDE DEF contexts
  <2> QED
    BY <1>1, <2>1
<1>4. Selected(found, truncated) =
          IF truncated \/ deciding = {} THEN {}
          ELSE contexts[CHOOSE i \in deciding : \A j \in deciding : i <= j]
  BY DEF Selected
<1> HIDE DEF deciding, contexts
<1> QED
  BY <1>3, <1>4
------------------------------------------------------------------------------
(* Attempts. *)

LEMMA LastIsMine ==
    ASSUME TypeOK, NEW q, NEW a, Last(q, a)
    PROVE  Mine(q) = a
<1>1. DOMAIN attempts = 1..Len(attempts) /\ Len(attempts) \in Nat
  BY DEF TypeOK
<1>2. \A b \in DOMAIN attempts : attempts[b].by = q /\ a <= b => b = a
  BY <1>1 DEF Last
<1> QED
  BY <1>1, <1>2 DEF Last, Mine

\* What TypeOK says of attempts and messages.
AttemptsTyped ==
    /\ attempts \in Seq(Attempt) /\ latest \in {0} \cup DOMAIN attempts
    /\ requests \cup {m.attempt : m \in results} \subseteq DOMAIN attempts
    /\ \A a \in DOMAIN attempts :
          attempts[a].recovered # None => attempts[a].status = "FOUND"

\* Attempts as they were, or one of them changed: who made it stays.
LEMMA AttemptsRest ==
    ASSUME IInv, attempts' = attempts, requests' = requests, results' = results,
           queuer' \in [Queuer -> {"idle", "read", "inserted"}],
           \A q \in Queuer : queuer'[q] = "inserted" => queuer[q] = "inserted"
    PROVE  AttemptsInv'
BY DEF IInv, AttemptsInv, Last

LEMMA AttemptChanges ==
    ASSUME IInv, requests' = requests, results' = results,
           queuer' \in [Queuer -> {"idle", "read", "inserted"}],
           \A q \in Queuer : queuer'[q] = "inserted" => queuer[q] = "inserted",
           attempts' = [a \in DOMAIN attempts |-> attempts'[a]],
           latest' \in {0} \cup DOMAIN attempts,
           \A a \in DOMAIN attempts :
               /\ attempts'[a] \in Attempt /\ attempts'[a].by = attempts[a].by
               /\ attempts'[a].status = "FOUND" => a \in requests
               /\ attempts'[a].recovered # None => attempts'[a].status = "FOUND"
    PROVE  AttemptsInv' /\ AttemptsTyped'
<1>1. attempts \in Seq(Attempt)
  BY DEF IInv, TypeOK, Attempt
<1>2. DOMAIN attempts = 1..Len(attempts) /\ Len(attempts) \in Nat
  BY <1>1
<1>3. attempts' \in [1..Len(attempts) -> Attempt]
  BY <1>2
<1>4. attempts' \in Seq(Attempt) /\ DOMAIN attempts' = DOMAIN attempts
  BY <1>2, <1>3
<1>5. \A q, a : Last(q, a)' <=> Last(q, a)
  BY <1>4 DEF Last
<1>6. AttemptsInv'
  BY <1>4, <1>5 DEF IInv, AttemptsInv
<1>7. AttemptsTyped'
  BY <1>4 DEF AttemptsTyped, IInv, TypeOK
<1> QED
  BY <1>6, <1>7
------------------------------------------------------------------------------
(* One lemma per action. *)

\* A step that changes only what a request does.
LEMMA RequestsKeep ==
    ASSUME IInv, NEW q \in Queuer,
           (\E force \in BOOLEAN : QueueReads(q, force)) \/ QueuerCrashes(q)
    PROVE  IInv'
<1>1. UNCHANGED <<family, applications, indexed, attempts, latest, requests, results, arriving, backfill>>
  BY DEF QueueReads, QueuerCrashes
<1>2. /\ queuer' \in [Queuer -> {"idle", "read", "inserted"}]
      /\ \A p \in Queuer : queuer'[p] = "inserted" => queuer[p] = "inserted"
  BY DEF IInv, QueueReads, QueuerCrashes
<1>3. AttemptsInv'
  BY <1>1, <1>2, AttemptsRest
<1> QED
  BY <1>1, <1>2, <1>3 DEF IInv, TypeOK, FamilyInv, applications

LEMMA QueueInsertsKeeps ==
    ASSUME OriginAssumption, IInv, NEW q \in Queuer, QueueInserts(q)
    PROVE  IInv'
<1> DEFINE new == [status |-> "QUEUED", due |-> FALSE, recovered |-> None, by |-> q]
<1>0. PICK n \in Nat : n = Len(attempts) + 1
  BY DEF IInv, TypeOK, applications
<1>1. attempts \in Seq(Attempt) /\ new \in Attempt /\ Len(attempts) \in Nat
  BY DEF IInv, TypeOK, Attempt, Status
<1>2. /\ attempts' = Append(attempts, new) /\ latest' = n
      /\ queuer' = [queuer EXCEPT ![q] = "inserted"] /\ queuer[q] = "read"
      /\ UNCHANGED <<family, applications, indexed, requests, results, arriving, backfill>>
  BY <1>0 DEF QueueInserts
<1> HIDE DEF new
<1>3. /\ attempts' \in Seq(Attempt) /\ DOMAIN attempts' = 1..n /\ DOMAIN attempts = 1..n - 1
      /\ attempts'[n] = new /\ \A a \in DOMAIN attempts : attempts'[a] = attempts[a]
  BY <1>0, <1>1, <1>2
<1>4. requests \subseteq DOMAIN attempts /\ n \notin requests
  BY <1>1, <1>3 DEF IInv, TypeOK
<1>5. ASSUME NEW p \in Queuer, queuer'[p] = "inserted"
      PROVE  \E a \in Nat : Last(p, a)' /\ a \notin requests
  <2>1. CASE p = q
    <3>1. Last(p, n)'
      <4>1. n \in DOMAIN attempts' /\ \A b \in DOMAIN attempts' : b <= n
        BY <1>0, <1>1, <1>3
      <4>2. attempts'[n].by = p
        BY <1>3, <2>1 DEF new
      <4> QED
        BY <4>1, <4>2 DEF Last
    <3> QED
      BY <1>1, <1>4, <3>1
  <2>2. CASE p # q
    <3>1. queuer[p] = "inserted"
      BY <1>2, <1>5, <2>2 DEF IInv
    <3>2. PICK a \in Nat : Last(p, a) /\ a \notin requests
      BY <3>1 DEF IInv, AttemptsInv
    <3>3. new.by = q
      BY DEF new
    <3>4. \A b \in DOMAIN attempts' : attempts'[b].by = p => b \in DOMAIN attempts
      BY <1>1, <1>3, <2>2, <3>3
    <3>5. Last(p, a)'
      BY <1>1, <1>3, <3>2, <3>4 DEF Last
    <3> QED
      BY <3>2, <3>5
  <2> QED
    BY <2>1, <2>2
<1>6. AttemptsInv'
  <2>1. \A a \in DOMAIN attempts' : attempts'[a].status = "FOUND" => a \in requests
    BY <1>1, <1>3 DEF IInv, AttemptsInv, new
  <2> QED
    BY <1>2, <1>5, <2>1 DEF IInv, AttemptsInv
<1>7. TypeOK'
  <2>1. \A a \in DOMAIN attempts' :
           attempts'[a].recovered # None => attempts'[a].status = "FOUND"
    BY <1>1, <1>3 DEF IInv, TypeOK, new
  <2>2. latest' \in {0} \cup DOMAIN attempts'
    BY <1>1, <1>2, <1>3
  <2>3. requests' \cup {m.attempt : m \in results'} \subseteq DOMAIN attempts'
    BY <1>1, <1>2, <1>3 DEF IInv, TypeOK
  <2> QED
    BY <1>2, <1>3, <2>1, <2>2, <2>3 DEF IInv, TypeOK, Attempt, applications
<1> QED
  BY <1>2, <1>6, <1>7 DEF IInv, FamilyInv, applications

LEMMA QueueSendsKeeps ==
    ASSUME IInv, NEW q \in Queuer, QueueSends(q)
    PROVE  IInv'
<1>1. PICK a \in Nat : Last(q, a) /\ a \notin requests
  BY DEF QueueSends, IInv, AttemptsInv
<1>2. /\ requests' = requests \cup {a} /\ queuer' = [queuer EXCEPT ![q] = "idle"]
      /\ UNCHANGED <<family, applications, indexed, attempts, latest, results, arriving, backfill>>
  BY <1>1, LastIsMine DEF QueueSends, IInv
<1>3. ASSUME NEW p \in Queuer, queuer'[p] = "inserted"
      PROVE  \E b \in Nat : Last(p, b)' /\ b \notin requests'
  <2>1. p # q /\ queuer[p] = "inserted"
    BY <1>2, <1>3 DEF IInv
  <2>2. PICK b \in Nat : Last(p, b) /\ b \notin requests
    BY <2>1 DEF IInv, AttemptsInv
  <2>3. b # a
    BY <1>1, <2>1, <2>2 DEF Last
  <2>4. Last(p, b)'
    BY <1>2, <2>2 DEF Last
  <2> QED
    BY <1>2, <2>2, <2>3, <2>4
<1>4. AttemptsInv'
  BY <1>2, <1>3 DEF IInv, AttemptsInv
<1>5. TypeOK'
  BY <1>1, <1>2 DEF IInv, TypeOK, Last, applications
<1> QED
  BY <1>2, <1>4, <1>5 DEF IInv, FamilyInv, applications

LEMMA QueueSendFailsKeeps ==
    ASSUME IInv, NEW q \in Queuer, QueueSendFails(q)
    PROVE  IInv'
<1>1. PICK a \in Nat : Last(q, a) /\ a \notin requests
  BY DEF QueueSendFails, IInv, AttemptsInv
<1>2. /\ attempts' = [attempts EXCEPT ![a].status = "PROVIDER_ERROR"]
      /\ queuer' = [queuer EXCEPT ![q] = "idle"]
      /\ UNCHANGED <<family, applications, indexed, latest, requests, results, arriving, backfill>>
  BY <1>1, LastIsMine DEF QueueSendFails, IInv
<1>3. a \in DOMAIN attempts /\ attempts \in Seq(Attempt)
  BY <1>1 DEF Last, IInv, TypeOK, Attempt
<1>4. attempts[a].recovered = None
  BY <1>1, <1>3 DEF IInv, TypeOK, AttemptsInv
<1>5. \A b \in DOMAIN attempts :
          attempts'[b] = IF b = a THEN [attempts[b] EXCEPT !.status = "PROVIDER_ERROR"]
                         ELSE attempts[b]
  BY <1>2, <1>3
<1>6. ASSUME NEW b \in DOMAIN attempts
      PROVE  /\ attempts'[b] \in Attempt /\ attempts'[b].by = attempts[b].by
             /\ attempts'[b].status = "FOUND" => b \in requests
             /\ attempts'[b].recovered # None => attempts'[b].status = "FOUND"
  <2>1. attempts[b] \in Attempt
    BY <1>3
  <2>2. CASE b = a
    BY <1>4, <1>5, <2>1, <2>2 DEF Attempt, Status
  <2>3. CASE b # a
    BY <1>5, <2>1, <2>3 DEF IInv, TypeOK, AttemptsInv
  <2> QED
    BY <2>2, <2>3
<1>7. attempts' = [b \in DOMAIN attempts |-> attempts'[b]]
  BY <1>2
<1>8. AttemptsInv' /\ AttemptsTyped'
  <2>1. /\ queuer' \in [Queuer -> {"idle", "read", "inserted"}]
        /\ \A p \in Queuer : queuer'[p] = "inserted" => queuer[p] = "inserted"
    BY <1>2 DEF IInv
  <2>2. latest' \in {0} \cup DOMAIN attempts /\ requests' = requests /\ results' = results
    BY <1>2 DEF IInv, TypeOK
  <2> QED
    BY <1>6, <1>7, <2>1, <2>2, AttemptChanges
<1>9. queuer' \in [Queuer -> {"idle", "read", "inserted"}]
  BY <1>2 DEF IInv
<1> QED
  BY <1>2, <1>8, <1>9 DEF IInv, TypeOK, FamilyInv, AttemptsTyped, Attempt, applications

LEMMA RetryComesDueKeeps ==
    ASSUME IInv, NEW a \in DOMAIN attempts, RetryComesDue(a)
    PROVE  IInv'
<1>1. /\ attempts' = [attempts EXCEPT ![a].due = TRUE]
      /\ UNCHANGED <<family, applications, indexed, latest, queuer, requests, results, arriving, backfill>>
  BY DEF RetryComesDue
<1>2. attempts \in Seq(Attempt)
  BY DEF IInv, TypeOK, Attempt
<1>3. ASSUME NEW b \in DOMAIN attempts
      PROVE  /\ attempts'[b] \in Attempt /\ attempts'[b].by = attempts[b].by
             /\ attempts'[b].status = attempts[b].status
             /\ attempts'[b].recovered = attempts[b].recovered
  <2>1. attempts[b] \in Attempt
    BY <1>2
  <2> QED
    BY <1>1, <2>1 DEF Attempt
<1>4. attempts' = [b \in DOMAIN attempts |-> attempts'[b]]
  BY <1>1
<1>5. AttemptsInv' /\ AttemptsTyped'
  BY <1>1, <1>3, <1>4, AttemptChanges DEF IInv, TypeOK, AttemptsInv
<1> QED
  BY <1>1, <1>5 DEF IInv, TypeOK, FamilyInv, AttemptsTyped, Attempt, applications

\* A message of the collector, and a signal that it may have sent.
LEMMA ReportKeeps ==
    ASSUME IInv, NEW a, NEW sent, sent \subseteq Origin, NEW reports,
           reports \subseteq Status \ {"QUEUED"}, Report(a, sent, reports)
    PROVE  IInv'
<1>1. /\ arriving' = arriving \cup sent /\ a \in requests
      /\ results' = results \cup {[attempt |-> a, status |-> status] : status \in reports}
      /\ UNCHANGED <<family, applications, indexed, attempts, latest, queuer, requests, backfill>>
  BY DEF Report
<1>2. results' \subseteq [attempt: requests, status: Status \ {"QUEUED"}]
  BY <1>1 DEF IInv, AttemptsInv
<1>3. AttemptsInv'
  BY <1>1, <1>2 DEF IInv, AttemptsInv, Last
<1>4. requests \subseteq DOMAIN attempts
  BY DEF IInv, TypeOK
<1>5. requests' \cup {m.attempt : m \in results'} \subseteq DOMAIN attempts'
  BY <1>1, <1>2, <1>4
<1>6. stored' \cup arriving' \subseteq Origin /\ DOMAIN backfill'.facts \subseteq Origin
  BY <1>1 DEF IInv, TypeOK, applications
<1> QED
  BY <1>1, <1>3, <1>5, <1>6 DEF IInv, TypeOK, FamilyInv, applications

LEMMA CollectorKeeps ==
    ASSUME OriginAssumption, IInv, NEW a \in DOMAIN attempts,
           \/ \E found \in SUBSET Provided, truncated, care \in BOOLEAN :
                 RecoverOrigin(a, found, truncated, care)
           \/ \E sent \in {{}} \cup {{x} : x \in Provided} : RecoveryErrs(a, sent)
           \/ \E x \in Provided : RecoveryUnreported(a, x)
    PROVE  IInv'
<1> USE DEF Status
<1>1. Provided \subseteq Origin
  BY DEF OriginAssumption
<1>2. ASSUME NEW found \in SUBSET Provided, NEW truncated \in BOOLEAN, NEW care \in BOOLEAN,
             RecoverOrigin(a, found, truncated, care)
      PROVE  IInv'
  <2> DEFINE one == IF care THEN Selected(found, truncated) ELSE {}
             status == IF found = {} THEN "NOT_FOUND"
                       ELSE IF one = {} THEN "AMBIGUOUS" ELSE "FOUND"
  <2>1. one \subseteq Origin
    BY <1>1, SelectedFound
  <2>2. Report(a, one, {status}) /\ {status} \subseteq Status \ {"QUEUED"}
    BY <1>2 DEF RecoverOrigin
  <2> HIDE DEF one, status
  <2> QED
    BY <2>1, <2>2, ReportKeeps
<1>3. ASSUME NEW sent \in {{}} \cup {{x} : x \in Provided}, RecoveryErrs(a, sent)
      PROVE  IInv'
  <2>1. sent \subseteq Origin
    BY <1>1
  <2> QED
    BY <1>3, <2>1, ReportKeeps DEF RecoveryErrs
<1>4. ASSUME NEW x \in Provided, RecoveryUnreported(a, x)
      PROVE  IInv'
  <2>1. {x} \subseteq Origin
    BY <1>1
  <2> QED
    BY <1>4, <2>1, ReportKeeps DEF RecoveryUnreported
<1> QED
  BY <1>2, <1>3, <1>4

\* A late result reopens no family: it only names what is unresolved anyway.
LEMMA ApplyResultKeeps ==
    ASSUME OriginAssumption, IInv, NEW m \in results, ApplyResult(m)
    PROVE  IInv'
<1>1. PICK a \in requests : a = m.attempt
  BY DEF IInv, AttemptsInv
<1>2. m.status \in Status \ {"QUEUED"} /\ a \in DOMAIN attempts /\ attempts \in Seq(Attempt)
  BY <1>1 DEF IInv, AttemptsInv, TypeOK, Attempt
<1>3. /\ attempts' = [attempts EXCEPT ![a].status = m.status, ![a].due = FALSE,
                                      ![a].recovered = None]
      /\ latest' = a
      /\ UNCHANGED <<applications, indexed, queuer, requests, results, arriving, backfill>>
  BY <1>1 DEF ApplyResult
<1>4. ASSUME NEW b \in DOMAIN attempts
      PROVE  /\ attempts'[b] \in Attempt /\ attempts'[b].by = attempts[b].by
             /\ attempts'[b].status = "FOUND" => b \in requests
             /\ attempts'[b].recovered # None => attempts'[b].status = "FOUND"
  <2>1. attempts[b] \in Attempt
    BY <1>2
  <2>2. CASE b = a
    <3>1. attempts'[a] = [attempts[a] EXCEPT !.status = m.status, !.due = FALSE, !.recovered = None]
      BY <1>2, <1>3
    <3> QED
      BY <1>2, <2>1, <2>2, <3>1 DEF Attempt
  <2>3. CASE b # a
    <3>1. attempts'[b] = attempts[b]
      BY <1>3, <2>3
    <3> QED
      BY <2>1, <3>1 DEF IInv, TypeOK, AttemptsInv
  <2> QED
    BY <2>2, <2>3
<1>5. AttemptsInv' /\ AttemptsTyped'
  <2>1. attempts' = [b \in DOMAIN attempts |-> attempts'[b]]
    BY <1>3
  <2>2. latest' \in {0} \cup DOMAIN attempts
    BY <1>2, <1>3
  <2> QED
    BY <1>3, <1>4, <2>1, <2>2, AttemptChanges DEF IInv
<1>6. FamilyInv' /\ family' \in FamilyRow
  <2>1. family \in FamilyRow
    BY DEF IInv, TypeOK, FamilyRow
  <2>2. family' \in FamilyRow /\ (Open(family') => Open(family))
    BY <2>1 DEF ApplyResult, StillOpen, Unresolved, Open, FamilyRow
  <2> QED
    BY <1>3, <2>2, FamilyKept DEF IInv, TypeOK
<1> QED
  BY <1>3, <1>5, <1>6 DEF IInv, TypeOK, AttemptsTyped, Attempt, FamilyRow, applications

\* An application is stored or revised: a contradiction that comes of it counts.
LEMMA ApplicationsKeep ==
    ASSUME OriginAssumption, IInv, NEW x \in Origin,
           StoreOrigin(x) \/ \E kind \in Kinds : Revise(x, kind)
    PROVE  IInv'
<1>1. UNCHANGED <<family, indexed, attempts, latest, queuer, requests, results, arriving,
                  backfill>>
  BY DEF StoreOrigin, Revise
<1>2. /\ stored' = stored \/ stored' = stored \cup {x}
      /\ facts' \in [Origin -> Kinds] /\ versions' \in [Origin -> SUBSET Kinds]
  BY DEF StoreOrigin, Revise, IInv, TypeOK
<1>3. contradicted' = (contradicted \/ Contradicts(stored', facts'))
  BY DEF StoreOrigin, Revise
<1>4. IsFiniteSet(stored') /\ indexed \subseteq stored' /\ stored' \subseteq Origin
  BY <1>2, FS_AddElement DEF IInv, TypeOK
<1>5. FamilyInv'
  BY <1>1, <1>3 DEF IInv, FamilyInv
<1>6. AttemptsInv'
  BY <1>1, AttemptsRest DEF IInv
<1>7. contradicted' \in BOOLEAN
  BY <1>3 DEF IInv, TypeOK, Contradicts
<1> QED
  BY <1>1, <1>2, <1>4, <1>5, <1>6, <1>7 DEF IInv, TypeOK

LEMMA ReconcileOriginKeeps ==
    ASSUME OriginAssumption, IInv, NEW x \in Origin, ReconcileOrigin(x)
    PROVE  IInv'
<1>1. /\ attempts' = [a \in DOMAIN attempts |->
                         IF attempts[a].status = "FOUND" /\ attempts[a].recovered = None
                         THEN [attempts[a] EXCEPT !.recovered = x] ELSE attempts[a]]
      /\ indexed' = indexed \cup {x} /\ x \in stored
      /\ UNCHANGED <<applications, latest, queuer, requests, results, arriving, backfill>>
  BY DEF ReconcileOrigin
<1>2. attempts \in Seq(Attempt)
  BY DEF IInv, TypeOK, Attempt
<1>3. ASSUME NEW b \in DOMAIN attempts
      PROVE  /\ attempts'[b] \in Attempt /\ attempts'[b].by = attempts[b].by
             /\ attempts'[b].status = "FOUND" => b \in requests
             /\ attempts'[b].recovered # None => attempts'[b].status = "FOUND"
  <2>1. attempts[b] \in Attempt
    BY <1>2
  <2>2. CASE attempts[b].status = "FOUND" /\ attempts[b].recovered = None
    <3>1. attempts'[b] = [attempts[b] EXCEPT !.recovered = x]
      BY <1>1, <2>2
    <3> QED
      BY <2>1, <2>2, <3>1 DEF Attempt, IInv, AttemptsInv
  <2>3. CASE ~(attempts[b].status = "FOUND" /\ attempts[b].recovered = None)
    <3>1. attempts'[b] = attempts[b]
      BY <1>1, <2>3
    <3> QED
      BY <2>1, <3>1 DEF IInv, TypeOK, AttemptsInv
  <2> QED
    BY <2>2, <2>3
<1>4. AttemptsInv' /\ AttemptsTyped'
  <2>1. attempts' = [b \in DOMAIN attempts |-> attempts'[b]]
    BY <1>1
  <2>2. latest' \in {0} \cup DOMAIN attempts
    BY <1>1 DEF IInv, TypeOK
  <2> QED
    BY <1>1, <1>3, <2>1, <2>2, AttemptChanges DEF IInv
<1>5. FamilyInv' /\ family' \in FamilyRow
  <2>1. family \in FamilyRow
    BY DEF IInv, TypeOK, FamilyRow
  <2>2. \/ family' = family
        \/ family' = [status |-> "RESOLVED", primary |-> x]
        \/ family' = [status |-> "NEGATIVE", primary |-> x]
    BY DEF ReconcileOrigin
  <2>3. family' = family \/ (family' \in FamilyRow /\ ~Open(family'))
    BY <2>2 DEF FamilyRow, Open
  <2> QED
    BY <1>1, <2>1, <2>3, FamilyKept DEF IInv, TypeOK
<1> QED
  BY <1>1, <1>4, <1>5 DEF IInv, TypeOK, AttemptsTyped, Attempt, FamilyRow, applications

LEMMA ReconcileFollowUpKeeps ==
    ASSUME OriginAssumption, IInv, ReconcileFollowUp
    PROVE  IInv'
<1>1. family' = OriginFrom(indexed, facts) /\ UNCHANGED rest
  BY DEF ReconcileFollowUp
<1>2. indexed \in SUBSET Origin /\ (Contradicts(indexed, facts) => contradicted)
  BY MoreContradict DEF IInv, TypeOK, FamilyInv
<1>3. FamilyInv' /\ family' \in FamilyRow
  BY <1>1, <1>2, FamilyKept DEF rest
<1>4. AttemptsInv'
  BY <1>1, AttemptsRest DEF IInv, rest
<1> QED
  BY <1>1, <1>3, <1>4 DEF IInv, TypeOK, rest, applications, FamilyRow

\* The backfill writes nothing of applications that contradicted each other
\* when it read them.
LEMMA BackfillKeeps ==
    ASSUME OriginAssumption, IInv, BackfillReads \/ BackfillWrites
    PROVE  IInv'
<1>1. UNCHANGED <<applications, indexed, attempts, latest, queuer, requests, results, arriving>>
  BY DEF BackfillReads, BackfillWrites
<1>2. DOMAIN backfill'.facts \subseteq Origin
  BY DEF BackfillReads, BackfillWrites, NotStarted, IInv, TypeOK
<1>3. \/ family' = family
      \/ /\ family' = OriginFrom(DOMAIN backfill.facts, backfill.facts)
         /\ ~Contradicts(DOMAIN backfill.facts, backfill.facts)
  BY DEF BackfillReads, BackfillWrites
<1>4. FamilyInv' /\ family' \in FamilyRow
  <2>1. DOMAIN backfill.facts \in SUBSET Origin
    BY DEF IInv, TypeOK
  <2> QED
    BY <1>1, <1>3, <2>1, FamilyKept
<1>5. AttemptsInv'
  BY <1>1, AttemptsRest DEF IInv
<1> QED
  BY <1>1, <1>2, <1>4, <1>5 DEF IInv, TypeOK, applications, FamilyRow
------------------------------------------------------------------------------
LEMMA InitInv ==
    ASSUME OriginAssumption, Init
    PROVE  IInv
<1> USE DEF Init, NotStarted
<1>1. IsFiniteSet(stored)
  BY FS_EmptySet
<1>2. FamilyInv
  <2>1. ASSUME NEW kind
        PROVE  Cardinality(OfKind(stored, facts, kind)) = 0
    <3>1. OfKind(stored, facts, kind) = {}
      BY DEF OfKind
    <3> QED
      BY <3>1, FS_EmptySet
  <2>2. ~Contradicts(stored, facts)
    BY <2>1 DEF Contradicts
  <2>3. ~Open(family)
    BY DEF Open
  <2> QED
    BY <2>2, <2>3 DEF FamilyInv
<1>3. TypeOK
  <2>1. facts \in [Origin -> Kinds] /\ versions \in [Origin -> SUBSET Kinds]
    BY DEF OriginAssumption
  <2>2. DOMAIN backfill.facts \subseteq Origin
    OBVIOUS
  <2>3. /\ attempts \in Seq([status: Status, due: BOOLEAN, recovered: Origin \cup {None},
                             by: Queuer])
        /\ DOMAIN attempts = {}
    OBVIOUS
  <2> QED
    BY <2>1, <2>2, <2>3 DEF TypeOK
<1> QED
  BY <1>1, <1>2, <1>3 DEF IInv, AttemptsInv

LEMMA NextInv ==
    ASSUME OriginAssumption, IInv, [Next]_vars
    PROVE  IInv'
<1>1. CASE UNCHANGED vars
  BY <1>1, AttemptsRest DEF vars, rest, IInv, TypeOK, FamilyInv, applications
<1>2. ASSUME NEW q \in Queuer,
             \/ \E force \in BOOLEAN : QueueReads(q, force)
             \/ QueueInserts(q) \/ QueueSends(q) \/ QueueSendFails(q) \/ QueuerCrashes(q)
      PROVE  IInv'
  BY <1>2, RequestsKeep, QueueInsertsKeeps, QueueSendsKeeps, QueueSendFailsKeeps
<1>3. ASSUME NEW a \in DOMAIN attempts,
             \/ RetryComesDue(a)
             \/ \E found \in SUBSET Provided, truncated, care \in BOOLEAN :
                   RecoverOrigin(a, found, truncated, care)
             \/ \E sent \in {{}} \cup {{x} : x \in Provided} : RecoveryErrs(a, sent)
             \/ \E x \in Provided : RecoveryUnreported(a, x)
      PROVE  IInv'
  BY <1>3, RetryComesDueKeeps, CollectorKeeps
<1>4. CASE \E m \in results : ApplyResult(m)
  BY <1>4, ApplyResultKeeps
<1>5. ASSUME NEW x \in Origin,
             \/ StoreOrigin(x) \/ ReconcileOrigin(x)
             \/ \E kind \in Kinds : Revise(x, kind)
      PROVE  IInv'
  BY <1>5, ApplicationsKeep, ReconcileOriginKeeps
<1>6. CASE ReconcileFollowUp \/ BackfillReads \/ BackfillWrites
  BY <1>6, ReconcileFollowUpKeeps, BackfillKeeps
<1> QED
  BY <1>1, <1>2, <1>3, <1>4, <1>5, <1>6 DEF Next

\* A family without an origin never had one or has contradicting applications;
\* an attempt that nobody was asked about has found nothing.
THEOREM Invariance ==
    ASSUME OriginAssumption
    PROVE  Spec => []IInv
<1>1. Init => IInv
  BY InitInv
<1>2. IInv /\ [Next]_vars => IInv'
  BY NextInv
<1> QED
  BY <1>1, <1>2, PTL DEF Spec

\* Every message is of an attempt, and only an attempt that found an
\* application, for as long as it says so, has the signal recovered by it.
THEOREM TypeCorrect ==
    ASSUME OriginAssumption
    PROVE  Spec => []TypeOK
<1>1. IInv => TypeOK
  BY DEF IInv
<1> QED
  BY <1>1, Invariance, PTL

\* A family that has its origin stays RESOLVED or NEGATIVE, whichever results
\* arrive late, twice or out of order, whatever revisions make of the stored
\* applications and whatever a backfill or a reconciliation has read before,
\* unless two stored applications have contradicted each other.
THEOREM OriginsStay ==
    ASSUME OriginAssumption
    PROVE  Spec => []OriginsAreNotForgotten
<1>1. IInv => OriginsAreNotForgotten
  BY DEF IInv, FamilyInv, Open, Unresolved, OriginsAreNotForgotten
<1> QED
  BY <1>1, Invariance, PTL
------------------------------------------------------------------------------
(* The cleanups of opportunities, which share no table with the recovery.    *)

CONSTANTS Opportunity, Signal, KindsOf, FirstSignals, FirstLinks, Alike, Worker, MaxEvents
VARIABLES opportunity, link, signal, task, events

C == INSTANCE OpportunityCleanup

\* What a job has read: stages for opportunities, or the two ends of a link.
Plans == UNION {[some -> C!Stage] : some \in SUBSET Opportunity}
Task ==
    {C!NoTask}
    \cup [at: {"cleanup"}, restore: SUBSET Opportunity, resolve: SUBSET Opportunity]
    \cup [at: {"drift"}, plan: SUBSET Opportunity]
    \cup [at: {"bootstrap", "recompute"}, plan: Plans]
    \cup [at: {"link"}, to: Opportunity, of: Signal]

\* What is or was published has been shown.
RowOK(row) ==
    /\ row \in C!Row
    /\ row.status = "REJECTED" => row.resolved # None
    /\ row.saved \/ row.publication = "PUBLISHED" => row.shown

LinkTable == [Opportunity -> [Signal -> [status: {"NONE", "ACTIVE", "REJECTED"}, admin: BOOLEAN]]]

CleanupInv ==
    /\ opportunity = [o \in Opportunity |-> opportunity[o]]
    /\ \A o \in Opportunity : RowOK(opportunity[o])
    /\ link \in LinkTable
    /\ signal \in [Signal -> [kind: C!Kind, review: C!Review]]
    /\ task \in [Worker -> Task]

\* What a step may do to a row: nobody but the cleanup rejects it, and nobody
\* but the correction of drift takes its opening from it.
RowMay(o) ==
    /\ opportunity[o].status # "REJECTED" /\ opportunity'[o].status = "REJECTED" => ~C!Unsafe(o)
    /\ opportunity[o].opening /\ ~opportunity'[o].opening =>
          C!Corrects(o) /\ opportunity[o].publication = "DRAFT"

CleanupStep == CleanupInv' /\ \A o \in Opportunity : RowMay(o)

LEMMA StagesDerived ==
    ASSUME NEW o
    PROVE  C!Derived(o) \in C!Stage
BY DEF C!Derived, C!Stage

\* A step that touches no row.
LEMMA RowsRest ==
    ASSUME CleanupInv, opportunity' = opportunity, link' \in LinkTable,
           signal' \in [Signal -> [kind: C!Kind, review: C!Review]], task' \in [Worker -> Task]
    PROVE  CleanupStep
BY DEF CleanupInv, CleanupStep, RowMay

\* A step that touches one.
LEMMA OneRow ==
    ASSUME CleanupInv, NEW o \in Opportunity, NEW row, RowOK(row),
           opportunity' = [opportunity EXCEPT ![o] = row],
           row.opening = opportunity[o].opening,
           opportunity[o].status # "REJECTED" /\ row.status = "REJECTED" => ~C!Unsafe(o),
           UNCHANGED <<link, signal>>, task' \in [Worker -> Task]
    PROVE  CleanupStep
<1>1. \A p \in Opportunity : opportunity'[p] = IF p = o THEN row ELSE opportunity[p]
  BY DEF CleanupInv
<1>2. \A p \in Opportunity : RowMay(p)
  BY <1>1 DEF RowMay
<1>3. opportunity' = [p \in Opportunity |-> opportunity'[p]]
  BY DEF CleanupInv
<1>4. \A p \in Opportunity : RowOK(opportunity'[p])
  BY <1>1 DEF CleanupInv
<1> QED
  BY <1>2, <1>3, <1>4 DEF CleanupInv, CleanupStep

LEMMA ReadsKeep ==
    ASSUME CleanupInv, NEW w \in Worker,
           \/ C!CleanupReads(w) \/ C!DriftReads(w) \/ C!BootstrapReads(w) \/ C!Ends(w)
           \/ \E o \in Opportunity : C!RecomputeReads(w, o)
           \/ \E o \in Opportunity, s \in Signal : C!LinkReads(w, o, s)
    PROVE  CleanupStep
<1>1. ASSUME NEW t \in Task, C!Begin(w, t)
      PROVE  CleanupStep
  <2>1. task' \in [Worker -> Task]
    BY <1>1 DEF C!Begin, CleanupInv
  <2> QED
    BY <1>1, <2>1, RowsRest DEF C!Begin, C!rows, CleanupInv
<1>2. CASE C!CleanupReads(w)
  <2> DEFINE t == [at |-> "cleanup", restore |-> {o \in Opportunity : C!Restorable(o)},
                   resolve |-> {o \in Opportunity : C!AutoResolves(o)}]
  <2>1. t \in Task
    BY DEF Task
  <2>2. C!Begin(w, t)
    BY <1>2 DEF C!CleanupReads
  <2> QED
    BY <1>1, <2>1, <2>2
<1>3. CASE C!DriftReads(w)
  <2> DEFINE t == [at |-> "drift", plan |-> {o \in Opportunity : C!Corrects(o)}]
  <2>1. t \in Task
    BY DEF Task
  <2>2. C!Begin(w, t)
    BY <1>3 DEF C!DriftReads
  <2> QED
    BY <1>1, <2>1, <2>2
<1>4. CASE C!BootstrapReads(w)
  <2> DEFINE unset == {o \in Opportunity : opportunity[o].stage = None}
             plan == [o \in unset |-> C!Derived(o)]
  <2>1. plan \in Plans
    <3>1. plan \in [unset -> C!Stage]
      BY StagesDerived
    <3>2. unset \in SUBSET Opportunity
      OBVIOUS
    <3> QED
      BY <3>1, <3>2 DEF Plans
  <2>2. C!Begin(w, [at |-> "bootstrap", plan |-> plan])
    BY <1>4 DEF C!BootstrapReads
  <2> HIDE DEF plan
  <2> QED
    BY <1>1, <2>1, <2>2 DEF Task
<1>5. CASE C!Ends(w)
  <2>1. task' \in [Worker -> Task]
    BY <1>5 DEF C!Ends, CleanupInv, Task
  <2> QED
    BY <1>5, <2>1, RowsRest DEF C!Ends, C!rows, CleanupInv
<1>6. ASSUME NEW o \in Opportunity, C!RecomputeReads(w, o)
      PROVE  CleanupStep
  <2> DEFINE plan == [p \in {o} |-> C!Derived(o)]
  <2>1. plan \in Plans
    <3>1. plan \in [{o} -> C!Stage]
      BY StagesDerived
    <3>2. {o} \in SUBSET Opportunity
      OBVIOUS
    <3> QED
      BY <3>1, <3>2 DEF Plans
  <2>2. C!Begin(w, [at |-> "recompute", plan |-> plan])
    BY <1>6 DEF C!RecomputeReads
  <2> HIDE DEF plan
  <2> QED
    BY <1>1, <2>1, <2>2 DEF Task
<1>7. ASSUME NEW o \in Opportunity, NEW s \in Signal, C!LinkReads(w, o, s)
      PROVE  CleanupStep
  BY <1>1, <1>7 DEF C!LinkReads, Task
<1> QED
  BY <1>2, <1>3, <1>4, <1>5, <1>6, <1>7

\* A job forgets what it has done.
LEMMA TaskTyped ==
    ASSUME CleanupInv, NEW w \in Worker
    PROVE  /\ task[w].at = "cleanup" =>
                 \A some \in SUBSET Opportunity :
                     /\ [task[w] EXCEPT !.restore = some] \in Task
                     /\ [task[w] EXCEPT !.resolve = some] \in Task
           /\ task[w].at \in {"bootstrap", "recompute"} => task[w].plan \in Plans
           /\ task[w].at = "bootstrap" =>
                 \A plan \in Plans : [task[w] EXCEPT !.plan = plan] \in Task
           /\ task[w].at = "link" => task[w].to \in Opportunity /\ task[w].of \in Signal
<1>1. task[w] \in Task
  BY DEF CleanupInv
<1>2. CASE task[w].at = "cleanup"
  <2>1. task[w] \in [at: {"cleanup"}, restore: SUBSET Opportunity, resolve: SUBSET Opportunity]
    BY <1>1, <1>2 DEF Task, C!NoTask
  <2> QED
    BY <1>2, <2>1 DEF Task
<1>3. CASE task[w].at \in {"bootstrap", "recompute"}
  <2>1. task[w] \in [at: {"bootstrap", "recompute"}, plan: Plans]
    BY <1>1, <1>3 DEF Task, C!NoTask
  <2> QED
    BY <1>3, <2>1 DEF Task
<1>4. CASE task[w].at = "link"
  BY <1>1, <1>4 DEF Task, C!NoTask
<1> QED
  BY <1>2, <1>3, <1>4

LEMMA PlanStages ==
    ASSUME NEW plan \in Plans
    PROVE  /\ DOMAIN plan \subseteq Opportunity
           /\ \A o \in DOMAIN plan : plan[o] \in C!Stage
           /\ \A some \in SUBSET DOMAIN plan : [p \in some |-> plan[p]] \in Plans
<1>1. PICK some \in SUBSET Opportunity : plan \in [some -> C!Stage]
  BY DEF Plans
<1> QED
  BY <1>1 DEF Plans

LEMMA CleanupKeeps ==
    ASSUME C!CleanupAssumption, CleanupInv, NEW w \in Worker,
           NEW o \in Opportunity, C!CleanupRestores(w, o) \/ C!CleanupResolves(w, o)
    PROVE  CleanupStep
<1> DEFINE row == opportunity[o]
<1>1. RowOK(row) /\ row \in C!Row
  BY DEF CleanupInv, RowOK
<1>2. CASE C!CleanupRestores(w, o)
  <2>1. task[w].at = "cleanup" /\ task' = [task EXCEPT ![w].restore = task[w].restore \ {o}]
        /\ task[w].restore \subseteq Opportunity /\ UNCHANGED <<link, signal>>
    BY <1>2 DEF C!CleanupRestores, CleanupInv, Task, C!NoTask
  <2>2. task' \in [Worker -> Task]
    BY <2>1, TaskTyped DEF CleanupInv
  <2>3. CASE opportunity' = opportunity
    BY <2>1, <2>2, <2>3, RowsRest DEF CleanupInv
  <2>4. CASE row.status = "REJECTED" /\ opportunity' = [opportunity EXCEPT ![o].status = row.resolved]
    <3> DEFINE new == [row EXCEPT !.status = row.resolved]
    <3>1. row.resolved = "UNREVIEWED"
      BY <1>1, <2>4 DEF RowOK, C!Row
    <3>2. RowOK(new) /\ new.opening = row.opening /\ new.status = "UNREVIEWED"
      BY <1>1, <3>1 DEF RowOK, C!Row
    <3>3. opportunity' = [opportunity EXCEPT ![o] = new]
      BY <2>4 DEF CleanupInv
    <3> HIDE DEF new
    <3> QED
      BY <2>1, <2>2, <3>2, <3>3, OneRow
  <2> QED
    BY <1>2, <2>3, <2>4 DEF C!CleanupRestores
<1>3. CASE C!CleanupResolves(w, o)
  <2>1. task[w].at = "cleanup" /\ task' = [task EXCEPT ![w].resolve = task[w].resolve \ {o}]
        /\ task[w].resolve \subseteq Opportunity /\ UNCHANGED <<link, signal>>
    BY <1>3 DEF C!CleanupResolves, CleanupInv, Task, C!NoTask
  <2>2. task' \in [Worker -> Task]
    BY <2>1, TaskTyped DEF CleanupInv
  <2>3. CASE opportunity' = opportunity
    BY <2>1, <2>2, <2>3, RowsRest DEF CleanupInv
  <2>4. CASE /\ ~C!Unsafe(o)
             /\ opportunity' = [opportunity EXCEPT ![o].status = "REJECTED",
                                                   ![o].resolved = row.status]
    <3> DEFINE new == [row EXCEPT !.status = "REJECTED", !.resolved = row.status]
    <3>1. row.status = "UNREVIEWED" /\ None # "UNREVIEWED"
      BY <1>1, <2>4 DEF C!Row, C!Unsafe, C!Current, C!CleanupAssumption
    <3>2. RowOK(new) /\ new.opening = row.opening
      BY <1>1, <3>1 DEF RowOK, C!Row
    <3>3. opportunity' = [opportunity EXCEPT ![o] = new]
      BY <2>4 DEF CleanupInv
    <3> HIDE DEF new
    <3> QED
      BY <2>1, <2>2, <2>4, <3>2, <3>3, OneRow
  <2> QED
    BY <1>3, <2>3, <2>4 DEF C!CleanupResolves
<1> QED
  BY <1>2, <1>3

LEMMA DriftKeeps ==
    ASSUME CleanupInv, NEW w \in Worker, C!DriftWrites(w)
    PROVE  CleanupStep
<1>1. /\ UNCHANGED <<link, signal>> /\ task' = [task EXCEPT ![w] = C!NoTask]
      /\ opportunity' = [o \in Opportunity |->
             IF C!StillCorrects(o, task[w].plan) THEN [opportunity[o] EXCEPT !.opening = FALSE]
             ELSE opportunity[o]]
  BY DEF C!DriftWrites
<1>2. task' \in [Worker -> Task]
  BY <1>1 DEF CleanupInv, Task
<1>3. ASSUME NEW o \in Opportunity
      PROVE  RowOK(opportunity'[o]) /\ RowMay(o)
  <2>1. RowOK(opportunity[o])
    BY DEF CleanupInv
  <2>2. CASE C!StillCorrects(o, task[w].plan)
    <3>1. opportunity'[o] = [opportunity[o] EXCEPT !.opening = FALSE]
      BY <1>1, <2>2
    <3> QED
      BY <2>1, <2>2, <3>1 DEF RowOK, C!Row, RowMay, C!StillCorrects
  <2>3. CASE ~C!StillCorrects(o, task[w].plan)
    BY <1>1, <2>1, <2>3 DEF RowMay
  <2> QED
    BY <2>2, <2>3
<1>4. opportunity' = [o \in Opportunity |-> opportunity'[o]]
  BY <1>1
<1> QED
  BY <1>1, <1>2, <1>3, <1>4 DEF CleanupInv, CleanupStep

LEMMA StagesKeep ==
    ASSUME CleanupInv, NEW w \in Worker, NEW o \in Opportunity,
           C!BootstrapWrites(w, o) \/ C!RecomputeWrites(w, o)
    PROVE  CleanupStep
<1> DEFINE row == opportunity[o] stage == task[w].plan[o]
<1>1. RowOK(row) /\ row \in C!Row
  BY DEF CleanupInv, RowOK
<1>2. /\ task[w].at \in {"bootstrap", "recompute"} /\ o \in DOMAIN task[w].plan
      /\ UNCHANGED <<link, signal>>
  BY DEF C!BootstrapWrites, C!RecomputeWrites
<1>3. task[w].plan \in Plans /\ stage \in C!Stage
  BY <1>2, TaskTyped, PlanStages
<1>4. CASE C!BootstrapWrites(w, o)
  <2> DEFINE later == [p \in DOMAIN task[w].plan \ {o} |-> task[w].plan[p]]
             new == [row EXCEPT !.stage = stage]
  <2>1. later \in Plans
    BY <1>3, PlanStages
  <2>2. task' \in [Worker -> Task]
    <3>1. task[w].at = "bootstrap" /\ task' = [task EXCEPT ![w].plan = later]
      BY <1>4 DEF C!BootstrapWrites
    <3> HIDE DEF later
    <3> QED
      BY <2>1, <3>1, TaskTyped DEF CleanupInv
  <2>3. RowOK(new) /\ new.opening = row.opening /\ new.status = row.status
    BY <1>1, <1>3 DEF RowOK, C!Row
  <2>4. opportunity' = opportunity \/ opportunity' = [opportunity EXCEPT ![o] = new]
    BY <1>4 DEF C!BootstrapWrites
  <2> HIDE DEF new
  <2> QED
    BY <1>2, <2>2, <2>3, <2>4, OneRow, RowsRest DEF CleanupInv
<1>5. CASE C!RecomputeWrites(w, o)
  <2> DEFINE new == [row EXCEPT !.stage = stage, !.watched = row.watched /\ stage # "STOPPED"]
  <2>1. task' \in [Worker -> Task]
    BY <1>5 DEF C!RecomputeWrites, CleanupInv, Task
  <2>2. RowOK(new) /\ new.opening = row.opening /\ new.status = row.status
    BY <1>1, <1>3 DEF RowOK, C!Row
  <2>3. opportunity' = [opportunity EXCEPT ![o] = new]
    BY <1>5 DEF C!RecomputeWrites, CleanupInv
  <2> HIDE DEF new
  <2> QED
    BY <1>2, <2>1, <2>2, <2>3, OneRow
<1> QED
  BY <1>4, <1>5

LEMMA LinksKeep ==
    ASSUME CleanupInv,
           \/ \E w \in Worker : C!LinkWrites(w)
           \/ \E o \in Opportunity, s \in Signal : C!AdminUnlinks(o, s)
    PROVE  CleanupStep
<1>1. ASSUME NEW w \in Worker, C!LinkWrites(w)
      PROVE  CleanupStep
  <2> DEFINE o == task[w].to
             s == task[w].of
  <2>1. /\ task[w].at = "link" /\ task' = [task EXCEPT ![w] = C!NoTask]
        /\ link' = [link EXCEPT ![o][s] = [status |-> "ACTIVE", admin |-> TRUE]]
        /\ UNCHANGED <<opportunity, signal>>
    BY <1>1 DEF C!LinkWrites
  <2>2. o \in Opportunity /\ s \in Signal
    BY <2>1, TaskTyped
  <2>3. task' \in [Worker -> Task]
    BY <2>1 DEF CleanupInv, Task
  <2> HIDE DEF o, s
  <2>4. link' \in LinkTable
    BY <2>1, <2>2 DEF CleanupInv, LinkTable
  <2> QED
    BY <2>1, <2>3, <2>4, RowsRest DEF CleanupInv
<1>2. ASSUME NEW o \in Opportunity, NEW s \in Signal, C!AdminUnlinks(o, s)
      PROVE  CleanupStep
  <2>1. link' \in LinkTable
    BY <1>2 DEF C!AdminUnlinks, CleanupInv, LinkTable
  <2> QED
    BY <1>2, <2>1, RowsRest DEF C!AdminUnlinks, CleanupInv
<1> QED
  BY <1>1, <1>2

LEMMA EvidenceKeeps ==
    ASSUME C!CleanupAssumption, CleanupInv, NEW s \in Signal, NEW kind \in C!Kind,
           NEW review \in {"APPROVED", "REJECTED"}, C!EvidenceChanges(s, kind, review)
    PROVE  CleanupStep
<1>1. signal' \in [Signal -> [kind: C!Kind, review: C!Review]]
  BY DEF C!EvidenceChanges, CleanupInv, C!Review
<1> QED
  BY <1>1, RowsRest DEF C!EvidenceChanges, CleanupInv

\* What people change in a row.
LEMMA PeopleKeep ==
    ASSUME CleanupInv, NEW o \in Opportunity,
           \/ C!AdminMerges(o) \/ C!CustomerSaves(o) \/ C!WatchStarts(o)
           \/ C!MatchIsSuggested(o) \/ C!MatchIsReviewed(o)
           \/ \E publication \in C!Publication : C!SetPublication(o, publication)
           \/ \E b \in BOOLEAN : C!AutomationBlocked(o, b)
    PROVE  CleanupStep
<1> DEFINE row == opportunity[o]
<1>1. RowOK(row) /\ row \in C!Row
  BY DEF CleanupInv, RowOK
<1>2. ASSUME NEW new, C!Changes(o, new), RowOK(new), new.opening = row.opening,
             new.status \in {row.status, "MERGED"}
      PROVE  CleanupStep
  BY <1>2, OneRow DEF C!Changes, CleanupInv
<1>3. CASE C!AdminMerges(o)
  <2> DEFINE new == [row EXCEPT !.status = "MERGED", !.touched = TRUE]
  <2>1. RowOK(new) /\ new.opening = row.opening /\ new.status = "MERGED"
    BY <1>1 DEF RowOK, C!Row
  <2>2. C!Changes(o, new)
    BY <1>3 DEF C!AdminMerges
  <2> HIDE DEF new
  <2> QED
    BY <1>2, <2>1, <2>2
<1>4. CASE C!CustomerSaves(o)
  <2> DEFINE new == [row EXCEPT !.saved = TRUE]
  <2>1. RowOK(new) /\ new.opening = row.opening /\ new.status = row.status
    BY <1>1, <1>4 DEF RowOK, C!Row, C!CustomerSaves
  <2>2. C!Changes(o, new)
    BY <1>4 DEF C!CustomerSaves
  <2> HIDE DEF new
  <2> QED
    BY <1>2, <2>1, <2>2
<1>5. CASE C!WatchStarts(o)
  <2> DEFINE new == [row EXCEPT !.watched = TRUE]
  <2>1. RowOK(new) /\ new.opening = row.opening /\ new.status = row.status
    BY <1>1 DEF RowOK, C!Row
  <2>2. C!Changes(o, new)
    BY <1>5 DEF C!WatchStarts
  <2> HIDE DEF new
  <2> QED
    BY <1>2, <2>1, <2>2
<1>6. ASSUME NEW m \in BOOLEAN, C!Changes(o, [row EXCEPT !.matching = m])
      PROVE  CleanupStep
  <2> DEFINE new == [row EXCEPT !.matching = m]
  <2>1. RowOK(new) /\ new.opening = row.opening /\ new.status = row.status
    BY <1>1 DEF RowOK, C!Row
  <2> HIDE DEF new
  <2> QED
    BY <1>2, <1>6, <2>1 DEF new
<1>7. ASSUME NEW publication \in C!Publication, C!SetPublication(o, publication)
      PROVE  CleanupStep
  <2> DEFINE new == [row EXCEPT !.publication = publication, !.touched = TRUE,
                                !.shown = row.shown \/ publication = "PUBLISHED"]
  <2>1. new.opening = row.opening /\ new.status = row.status
    BY <1>1 DEF C!Row
  <2>2. RowOK(new)
    BY <1>1 DEF RowOK, C!Row
  <2>3. C!Changes(o, new)
    BY <1>7 DEF C!SetPublication
  <2> HIDE DEF new
  <2> QED
    BY <1>2, <2>1, <2>2, <2>3
<1>8. ASSUME NEW b \in BOOLEAN, C!AutomationBlocked(o, b)
      PROVE  CleanupStep
  <2> DEFINE new == [row EXCEPT !.blocked = b, !.touched = TRUE, !.watched = row.watched /\ ~b]
  <2>1. RowOK(new) /\ new.opening = row.opening /\ new.status = row.status
    BY <1>1 DEF RowOK, C!Row
  <2>2. C!Changes(o, new)
    BY <1>8 DEF C!AutomationBlocked
  <2> HIDE DEF new
  <2> QED
    BY <1>2, <2>1, <2>2
<1>9. CASE C!MatchIsSuggested(o) \/ C!MatchIsReviewed(o)
  BY <1>6, <1>9 DEF C!MatchIsSuggested, C!MatchIsReviewed
<1> QED
  BY <1>3, <1>4, <1>5, <1>7, <1>8, <1>9

LEMMA CleanupInit ==
    ASSUME C!CleanupAssumption, C!Init
    PROVE  CleanupInv
<1>1. opportunity \in [Opportunity -> {C!NewOpportunity(stage) : stage \in {None, "STOPPED"}}]
  BY DEF C!Init
<1>2. ASSUME NEW o \in Opportunity
      PROVE  RowOK(opportunity[o])
  <2>1. PICK stage \in {None, "STOPPED"} : opportunity[o] = C!NewOpportunity(stage)
    BY <1>1
  <2> QED
    BY <2>1 DEF RowOK, C!NewOpportunity, C!Row, C!Stage, C!Publication
<1>3. link \in LinkTable
  BY DEF C!Init, LinkTable, C!SystemLink, C!NoLink
<1>4. signal \in [Signal -> [kind: C!Kind, review: C!Review]]
  BY DEF C!Init, C!CleanupAssumption
<1>5. task \in [Worker -> Task]
  BY DEF C!Init, Task
<1> QED
  BY <1>1, <1>2, <1>3, <1>4, <1>5 DEF CleanupInv

LEMMA CleanupNext ==
    ASSUME C!CleanupAssumption, CleanupInv, [C!Next]_(C!vars)
    PROVE  CleanupStep
<1>1. CASE UNCHANGED C!vars
  BY <1>1, RowsRest DEF C!vars, CleanupInv
<1>2. ASSUME NEW w \in Worker,
             \/ C!CleanupReads(w) \/ C!DriftReads(w) \/ C!BootstrapReads(w) \/ C!Ends(w)
             \/ C!DriftWrites(w) \/ C!LinkWrites(w)
      PROVE  CleanupStep
  BY <1>2, ReadsKeep, DriftKeeps, LinksKeep
<1>3. ASSUME NEW w \in Worker, NEW o \in Opportunity,
             \/ C!RecomputeReads(w, o) \/ C!CleanupRestores(w, o) \/ C!CleanupResolves(w, o)
             \/ C!BootstrapWrites(w, o) \/ C!RecomputeWrites(w, o)
             \/ \E s \in Signal : C!LinkReads(w, o, s)
      PROVE  CleanupStep
  BY <1>3, ReadsKeep, CleanupKeeps, StagesKeep
<1>4. ASSUME NEW o \in Opportunity,
             \/ C!AdminMerges(o) \/ C!CustomerSaves(o) \/ C!WatchStarts(o)
             \/ C!MatchIsSuggested(o) \/ C!MatchIsReviewed(o)
             \/ \E publication \in C!Publication : C!SetPublication(o, publication)
             \/ \E b \in BOOLEAN : C!AutomationBlocked(o, b)
             \/ \E s \in Signal : C!AdminUnlinks(o, s)
      PROVE  CleanupStep
  BY <1>4, PeopleKeep, LinksKeep
<1>5. ASSUME NEW s \in Signal, NEW kind \in C!Kind, NEW review \in {"APPROVED", "REJECTED"},
             C!EvidenceChanges(s, kind, review)
      PROVE  CleanupStep
  BY <1>5, EvidenceKeeps
<1> QED
  BY <1>1, <1>2, <1>3, <1>4, <1>5 DEF C!Next

\* The rows keep their types, a row is REJECTED only by the cleanup, which has
\* noted what it was before, and what is saved or published has been shown.
THEOREM CleanupInvariance ==
    ASSUME C!CleanupAssumption
    PROVE  C!Spec => []CleanupInv
<1>1. C!Init => CleanupInv
  BY CleanupInit
<1>2. CleanupInv /\ [C!Next]_(C!vars) => CleanupInv'
  BY CleanupNext DEF CleanupStep
<1> QED
  BY <1>1, <1>2, PTL DEF C!Spec

\* Only the cleanup's own rejections, each with the status to restore, are in
\* the table, and a customer has saved nothing that was never shown.
THEOREM CleanupTypeCorrect ==
    ASSUME C!CleanupAssumption
    PROVE  C!Spec => []C!TypeOK
<1>1. CleanupInv => C!TypeOK
  <2> SUFFICES ASSUME CleanupInv
               PROVE  C!TypeOK
    OBVIOUS
  <2>1. opportunity \in [Opportunity -> C!Row]
    BY DEF CleanupInv, RowOK
  <2> QED
    BY <2>1 DEF CleanupInv, RowOK, LinkTable, C!TypeOK
<1> QED
  BY <1>1, CleanupInvariance, PTL

\* The cleanup looks again at each row it has locked: it rejects nothing that
\* came to be merged, published, saved, watched, blocked, offered as a match or
\* linked by a person since the inventory was read.
THEOREM UsedAreSpared ==
    ASSUME C!CleanupAssumption
    PROVE  C!Spec => C!CleanupSparesTheUsed
<1> DEFINE Spared ==
             \A o \in Opportunity : C!Falls(o) =>
                /\ opportunity[o].status # "MERGED"
                /\ opportunity[o].publication = "DRAFT" /\ ~opportunity[o].shown
                /\ ~opportunity[o].saved /\ ~opportunity[o].watched
                /\ ~opportunity[o].blocked /\ ~opportunity[o].matching
                /\ \A s \in Signal : ~link[o][s].admin
<1>1. CleanupInv /\ [C!Next]_(C!vars) => [Spared]_(C!vars)
  <2> SUFFICES ASSUME CleanupInv, [C!Next]_(C!vars), NEW o \in Opportunity, C!Falls(o)
               PROVE  /\ opportunity[o].status # "MERGED"
                      /\ opportunity[o].publication = "DRAFT" /\ ~opportunity[o].shown
                      /\ ~opportunity[o].saved /\ ~opportunity[o].watched
                      /\ ~opportunity[o].blocked /\ ~opportunity[o].matching
                      /\ \A s \in Signal : ~link[o][s].admin
    OBVIOUS
  <2>1. ~C!Unsafe(o)
    BY CleanupNext DEF CleanupStep, RowMay, C!Falls
  <2> QED
    BY <2>1 DEF C!Unsafe, C!Current, C!AdminLinked
<1> QED
  BY <1>1, CleanupInvariance, PTL DEF C!Spec, C!CleanupSparesTheUsed

\* The correction of drift makes its plan again under the locks: an opening is
\* taken only from a draft that nobody has touched and no approved evidence
\* founds at that moment.
THEOREM CorrectionsCurrent ==
    ASSUME C!CleanupAssumption
    PROVE  C!Spec => C!CorrectionsAreCurrent
<1> DEFINE Corrected ==
             \A o \in Opportunity : opportunity[o].opening /\ ~opportunity'[o].opening =>
                /\ opportunity[o].publication = "DRAFT" /\ ~opportunity[o].touched
                /\ \A s \in Signal : /\ ~link[o][s].admin
                                     /\ signal[s] = [kind |-> "FOUNDATION", review |-> "APPROVED"]
                                          => link[o][s].status # "ACTIVE"
<1>1. CleanupInv /\ [C!Next]_(C!vars) => [Corrected]_(C!vars)
  <2> SUFFICES ASSUME CleanupInv, [C!Next]_(C!vars), NEW o \in Opportunity,
                      opportunity[o].opening /\ ~opportunity'[o].opening
               PROVE  /\ opportunity[o].publication = "DRAFT" /\ ~opportunity[o].touched
                      /\ \A s \in Signal :
                            /\ ~link[o][s].admin
                            /\ signal[s] = [kind |-> "FOUNDATION", review |-> "APPROVED"]
                                 => link[o][s].status # "ACTIVE"
    OBVIOUS
  <2>1. C!Corrects(o) /\ opportunity[o].publication = "DRAFT"
    BY CleanupNext DEF CleanupStep, RowMay
  <2>2. ~opportunity[o].touched /\ \A s \in Signal : ~link[o][s].admin
    BY <2>1 DEF C!Corrects, C!Touched, C!AdminLinked
  <2>3. ASSUME NEW s \in Signal, signal[s] = [kind |-> "FOUNDATION", review |-> "APPROVED"],
               link[o][s].status = "ACTIVE"
        PROVE  FALSE
    <3>1. s \in C!Approved(o) /\ s \in C!Active(o) /\ s \in C!Linked(o)
      BY <2>3 DEF C!Approved, C!Active, C!Linked
    <3>2. C!RelationState(o, s) = "FOUNDATIONAL"
      BY <2>3, <3>1 DEF C!RelationState
    <3> QED
      BY <2>1, <3>1, <3>2 DEF C!Corrects, C!Foundations
  <2> QED
    BY <2>1, <2>2, <2>3
<1> QED
  BY <1>1, CleanupInvariance, PTL DEF C!Spec, C!CorrectionsAreCurrent
==============================================================================
