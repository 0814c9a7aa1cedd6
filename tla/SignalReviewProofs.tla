--------------------------- MODULE SignalReviewProofs ---------------------------
(***************************************************************************)
(* For any signals, contents, answers of the model, workers and number of  *)
(* events: the review rows keep their types, the decisions of people stand *)
(* against every automatic policy, and what is held out is left to people. *)
(***************************************************************************)
EXTENDS SignalReview, TLAPS

Status == {"PENDING", "APPROVED", "REJECTED"}
Mark == [policy: Marker, outcome: {"QA_HOLDOUT", "APPROVED", "REJECTED"}]
Facts == {ClassifySignal(k.vertical, k.source, c) : k \in Kind, c \in Content}
Row == [status: Status, reviewedBy: {"NOBODY", "human", "system"}, facts: Facts,
        markers: SUBSET Mark]
Answer == [status: {"SUCCEEDED", "FAILED"}, recommendation: Recommendation,
           confidence: Confidence]

\* What a holdout says of the signal that carries it: it is in the bucket of one
\* in ten, and on a children's home's application one of the policies that look
\* for each other's markers left it.
HeldOut(s, row) ==
    \A m \in row.markers : m.outcome = "QA_HOLDOUT" =>
        QaHoldout(kind[s], 10) /\ (CarePlanning(s) => m.policy \in CareMarkers)

Good(s, row) == row \in Row /\ RowOK(row) /\ HeldOut(s, row)

\* What any step may make of the row of a signal.
MayBecome(s, new) ==
    \/ new = rows[s]
    \/ rows[s] = None
    \/ /\ new.reviewedBy = "human"
       /\ new.facts = rows[s].facts /\ new.markers = rows[s].markers
    \/ rows[s].status = "PENDING" /\ new.status = "PENDING"
    \/ /\ kind[s].source = "ofsted"
       /\ new.status = rows[s].status /\ new.reviewedBy = rows[s].reviewedBy
    \/ /\ batch # None /\ batch.op = "recalculate"
       /\ \E item \in batch.todo : item.signal = s /\ new = RecalculatedFrom(item, rows[s])
    \/ /\ rows[s].status = "PENDING"
       /\ (\E m \in rows[s].markers : m.outcome = "QA_HOLDOUT") =>
             [policy |-> "automatic_review", outcome |-> "REJECTED"] \in new.markers

Fine(s, new) == (new # None => Good(s, new)) /\ MayBecome(s, new)

Tables ==
    /\ kind \in [Signal -> Kind]
    /\ content \in [Signal -> Content]
    /\ assessments \in [Signal -> Answer \cup {None}]
    /\ messages \in [Signal -> Nat]
    /\ events \in 0..MaxEvents

RowsInv ==
    /\ rows = [s \in Signal |-> rows[s]]
    /\ \A s \in Signal : rows[s] # None => Good(s, rows[s])

Job == [step: Step, signal: Signal \cup {None}, content: Content \cup {None},
        verdict: Answer \cup {None}, manual: BOOLEAN]

\* A worker has a signal, until the row is judged the content it read, and
\* until it is saved the answer of the model.
Working(j) ==
    /\ j.step # "idle" => j.signal \in Signal
    /\ j.step \in {"save", "triage"} => j.content \in Content
    /\ j.step = "saveReview" => j.verdict \in Answer

JobsInv == job \in [Worker -> Job] /\ \A w \in Worker : Working(job[w])

BatchOps == Policy \cup {"cleanup", "reprocess", "reclassify", "recalculate"}

\* A batch remembers rows as they once were; only a recalculation begins without.
ItemInv(item) ==
    /\ item.signal \in Signal
    /\ item.content \in Content
    /\ item.row # None => Good(item.signal, item.row)

BatchInv ==
    batch # None =>
        /\ batch = [op |-> batch.op, todo |-> batch.todo]
        /\ batch.op \in BatchOps
        /\ \A item \in batch.todo :
              ItemInv(item) /\ (batch.op # "recalculate" => item.row # None)

IInv == Tables /\ RowsInv /\ JobsInv /\ BatchInv
------------------------------------------------------------------------------
(* Classification and policies *)

LEMMA SubtypeTyped ==
    ASSUME NEW c
    PROVE  CarePlanningSubtype(c) \in Subtype
<1>1. LawfulnessSubtype(c) \in Subtype
  BY DEF LawfulnessSubtype, Subtype
<1>2. ProposalSubtype(c) \in Subtype
  BY <1>1 DEF ProposalSubtype, Subtype
<1> QED
  BY <1>2 DEF CarePlanningSubtype, Subtype

LEMMA FactsTyped ==
    ASSUME NEW vertical, NEW source, NEW c
    PROVE  ClassifySignal(vertical, source, c).subtype \in Subtype \cup {"NONE"}
<1>1. CarePlanningFacts(c).subtype \in Subtype
  BY SubtypeTyped DEF CarePlanningFacts
<1>2. CareOtherFacts(source, c).subtype = "NONE"
  BY DEF CareOtherFacts, NoFacts
<1>3. NurseryPlanningFacts(c).subtype = "NONE"
  BY DEF NurseryPlanningFacts, NoFacts
<1>4. NurseryRecruitmentFacts(c).subtype = "NONE"
  BY DEF NurseryRecruitmentFacts, NoFacts
<1>5. [NoFacts EXCEPT !.falsePositive = LikelyFalsePositive(c)].subtype = "NONE"
  BY DEF NoFacts
<1> QED
  BY <1>1, <1>2, <1>3, <1>4, <1>5 DEF ClassifySignal

\* The outcomes a policy can have.
LEMMA OutcomeTyped ==
    ASSUME NEW policy \in Policy, NEW k, NEW c, NEW row, NEW ai
    PROVE  PolicyOutcome(policy, k, c, row, ai) \in
               {"INELIGIBLE", "QA_HOLDOUT", "APPROVED", "REJECTED"}
BY DEF Policy, Marker, PolicyOutcome, Outcome

\* A policy that holds a signal out does so in the bucket of one in ten, and on
\* a children's home's application it is one of the policies with a marker there.
LEMMA HoldoutBucket ==
    ASSUME NEW policy \in Policy, NEW k \in Kind, NEW c, NEW row, NEW ai,
           PolicyOutcome(policy, k, c, row, ai) = "QA_HOLDOUT"
    PROVE  /\ QaHoldout(k, 10)
           /\ (k.vertical = "CHILDRENS_HOME" /\ k.source = "planning" => policy \in CareMarkers)
<1>1. k \in [vertical: Vertical, source: Source, bucket: 0..19]
  BY ReviewConstants
<1>2. QaHoldout(k, 20) => QaHoldout(k, 10)
  BY <1>1 DEF QaHoldout
<1>3. QaHoldout(k, 10)
  BY <1>2 DEF Policy, Marker, PolicyOutcome, Outcome
<1>4. ASSUME k.vertical = "CHILDRENS_HOME", policy \notin CareMarkers
      PROVE  FALSE
  BY <1>4 DEF Policy, Marker, CareMarkers, PolicyOutcome, Outcome, NurseryLossCandidate,
       NurseryArboricultureCandidate, NurseryExtensionCandidate, NurseryPlanningPending,
       RoutineRecruitmentCandidate
<1> QED
  BY <1>3, <1>4

\* A policy does not decide a signal that carries a holdout: most have the same
\* bucket, and the one that holds out fewer looks for the others' markers.
LEMMA HoldoutIsRespected ==
    ASSUME NEW policy \in Policy, NEW s \in Signal, NEW c, NEW row, NEW ai,
           HeldOut(s, row), NEW m \in row.markers, m.outcome = "QA_HOLDOUT"
    PROVE  PolicyOutcome(policy, kind[s], c, row, ai) \in {"INELIGIBLE", "QA_HOLDOUT"}
<1>1. QaHoldout(kind[s], 10) /\ (CarePlanning(s) => m.policy \in CareMarkers)
  BY DEF HeldOut
<1>2. CASE policy = "care_planning_ai_approval"
  <2>1. ~AiApprovalEligible(kind[s], c, row, ai)
    BY <1>1 DEF AiApprovalEligible, AssessedPending, CarePlanningPending, CarePlanning, Marked
  <2> QED
    BY <1>2, <2>1 DEF PolicyOutcome, Outcome
<1>3. CASE policy # "care_planning_ai_approval"
  BY <1>1, <1>3 DEF Policy, Marker, PolicyOutcome, Outcome
<1> QED
  BY <1>2, <1>3
------------------------------------------------------------------------------
(* What the operators on a row make of it *)

LEMMA ClassifiedIsFacts ==
    ASSUME Tables, NEW s \in Signal, NEW c \in Content
    PROVE  Classified(s, c) \in Facts /\ Classified(s, c).subtype \in Subtype \cup {"NONE"}
<1>1. kind[s] \in Kind
  BY DEF Tables
<1> QED
  BY <1>1, FactsTyped DEF Classified, Facts

LEMMA UnchangedIsFine ==
    ASSUME RowsInv, NEW s \in Signal
    PROVE  Fine(s, rows[s])
BY DEF RowsInv, Fine, MayBecome

LEMMA NewRowIsFine ==
    ASSUME Tables, NEW s \in Signal, rows[s] = None, NEW c \in Content
    PROVE  Fine(s, NewRow(s, c))
BY ClassifiedIsFacts DEF Fine, MayBecome, Good, Row, RowOK, HeldOut, NewRow, Status

\* A marker in place of the policy's earlier one.
LEMMA WithMarkerTyped ==
    ASSUME NEW s \in Signal, NEW row, Good(s, row), NEW policy \in Marker,
           NEW outcome \in {"QA_HOLDOUT", "APPROVED", "REJECTED"}
    PROVE  /\ WithMarker(row, policy, outcome) \subseteq Mark
           /\ [policy |-> policy, outcome |-> outcome] \in WithMarker(row, policy, outcome)
           /\ \A m \in WithMarker(row, policy, outcome) :
                 m \in row.markers \/ m = [policy |-> policy, outcome |-> outcome]
           /\ \A m, n \in WithMarker(row, policy, outcome) : m.policy = n.policy => m = n
<1>1. [policy |-> policy, outcome |-> outcome] \in Mark /\ row.markers \subseteq Mark
  BY DEF Mark, Good, Row
<1>2. \A m, n \in row.markers : m.policy = n.policy => m = n
  BY DEF Good, RowOK
<1> QED
  BY <1>1, <1>2 DEF WithMarker

LEMMA DecidedIsGood ==
    ASSUME NEW s \in Signal, NEW row, Good(s, row), NEW policy \in Marker,
           NEW status \in {"APPROVED", "REJECTED"}
    PROVE  Good(s, Decided(row, policy, status, status))
<1> DEFINE new == Decided(row, policy, status, status)
<1>1. /\ row \in Row /\ RowOK(row) /\ HeldOut(s, row)
      /\ new = [row EXCEPT !.status = status, !.reviewedBy = "system",
                           !.markers = WithMarker(row, policy, status)]
  BY DEF Good, Decided
<1>2. /\ WithMarker(row, policy, status) \subseteq Mark
      /\ \A m \in WithMarker(row, policy, status) :
            m \in row.markers \/ m = [policy |-> policy, outcome |-> status]
      /\ \A m, n \in WithMarker(row, policy, status) : m.policy = n.policy => m = n
  BY WithMarkerTyped
<1>3. /\ new.status = status /\ new.reviewedBy = "system" /\ new.facts = row.facts
      /\ new.markers = WithMarker(row, policy, status)
      /\ new \in Row
  BY <1>1, <1>2 DEF Row, Status
<1>4. RowOK(new)
  <2>1. \A m \in new.markers : m.policy \in Marker
    BY <1>2, <1>3 DEF Mark
  <2> QED
    BY <1>1, <1>2, <1>3, <2>1 DEF RowOK
<1>5. HeldOut(s, new)
  BY <1>1, <1>2, <1>3 DEF HeldOut
<1> QED
  BY <1>1, <1>3, <1>4, <1>5 DEF Good

\* A holdout is written on a row in its bucket and leaves it pending.
LEMMA HoldoutIsGood ==
    ASSUME NEW s \in Signal, NEW row, Good(s, row), NEW policy \in Marker,
           QaHoldout(kind[s], 10), CarePlanning(s) => policy \in CareMarkers
    PROVE  Good(s, [row EXCEPT !.markers = WithMarker(row, policy, "QA_HOLDOUT")])
<1> DEFINE new == [row EXCEPT !.markers = WithMarker(row, policy, "QA_HOLDOUT")]
<1>1. row \in Row /\ RowOK(row) /\ HeldOut(s, row)
  BY DEF Good
<1>2. /\ WithMarker(row, policy, "QA_HOLDOUT") \subseteq Mark
      /\ \A m \in WithMarker(row, policy, "QA_HOLDOUT") :
            m \in row.markers \/ m = [policy |-> policy, outcome |-> "QA_HOLDOUT"]
      /\ \A m, n \in WithMarker(row, policy, "QA_HOLDOUT") : m.policy = n.policy => m = n
  BY WithMarkerTyped
<1>3. /\ new.status = row.status /\ new.reviewedBy = row.reviewedBy
      /\ new.facts = row.facts
      /\ new.markers = WithMarker(row, policy, "QA_HOLDOUT")
      /\ new \in Row
  BY <1>1, <1>2 DEF Row
<1>4. RowOK(new)
  <2>1. \A m \in new.markers : m.policy \in Marker
    BY <1>2, <1>3 DEF Mark
  <2> QED
    BY <1>1, <1>2, <1>3, <2>1 DEF RowOK
<1>5. HeldOut(s, new)
  BY <1>1, <1>2, <1>3 DEF HeldOut
<1> QED
  BY <1>3, <1>4, <1>5 DEF Good

\* A policy's decision, judged on any content and any row with at least the
\* holdouts of the present one, is fine.
LEMMA WithOutcomeIsFine ==
    ASSUME Tables, RowsInv, NEW s \in Signal, NEW policy \in Policy,
           NEW outcome \in {"INELIGIBLE", "QA_HOLDOUT", "APPROVED", "REJECTED"},
           outcome = "QA_HOLDOUT" =>
               QaHoldout(kind[s], 10) /\ (CarePlanning(s) => policy \in CareMarkers),
           rows[s] # None /\ outcome \in {"APPROVED", "REJECTED"} =>
               \A m \in rows[s].markers : m.outcome # "QA_HOLDOUT"
    PROVE  Fine(s, WithOutcome(s, policy, outcome))
<1> DEFINE new == WithOutcome(s, policy, outcome)
<1>1. policy \in Marker
  BY DEF Policy
<1>2. CASE outcome = "INELIGIBLE" \/ ~StillPending(s)
  BY <1>2, UnchangedIsFine DEF WithOutcome
<1>3. CASE outcome = "QA_HOLDOUT" /\ StillPending(s)
  <2>1. rows[s] # None /\ rows[s].status = "PENDING" /\ Good(s, rows[s])
    BY <1>3 DEF StillPending, RowsInv
  <2>2. new = [rows[s] EXCEPT !.markers = WithMarker(rows[s], policy, "QA_HOLDOUT")]
    BY <1>3 DEF WithOutcome
  <2>3. new.status = rows[s].status
    BY <2>1, <2>2 DEF Good, Row
  <2> QED
    BY <1>1, <1>3, <2>1, <2>2, <2>3, HoldoutIsGood DEF Fine, MayBecome
<1>4. CASE outcome \in {"APPROVED", "REJECTED"} /\ StillPending(s)
  <2>1. rows[s] # None /\ rows[s].status = "PENDING" /\ Good(s, rows[s])
    BY <1>4 DEF StillPending, RowsInv
  <2>2. new = Decided(rows[s], policy, outcome, outcome)
    BY <1>4 DEF WithOutcome
  <2>3. MayBecome(s, new)
    BY <1>4, <2>1 DEF MayBecome
  <2> QED
    BY <1>1, <1>4, <2>1, <2>2, <2>3, DecidedIsGood DEF Fine
<1> QED
  BY <1>2, <1>3, <1>4

LEMMA AutoRejectedIsFine ==
    ASSUME Tables, RowsInv, NEW s \in Signal, NEW c
    PROVE  Fine(s, AutoRejected(s, c))
<1> DEFINE new == Decided(rows[s], "automatic_review", "REJECTED", "REJECTED")
<1>1. CASE ~(Rejects(s, c) /\ StillPending(s))
  BY <1>1, UnchangedIsFine DEF AutoRejected
<1>2. CASE Rejects(s, c) /\ StillPending(s)
  <2>1. rows[s] # None /\ rows[s].status = "PENDING" /\ Good(s, rows[s])
    BY <1>2 DEF StillPending, RowsInv
  <2>2. "automatic_review" \in Marker
    BY DEF Marker
  <2>3. new.markers = WithMarker(rows[s], "automatic_review", "REJECTED")
    BY <2>1 DEF Decided, Good, Row
  <2>4. [policy |-> "automatic_review", outcome |-> "REJECTED"] \in new.markers
    BY <2>3 DEF WithMarker
  <2>5. MayBecome(s, new)
    BY <2>1, <2>4 DEF MayBecome
  <2>6. Good(s, new)
    BY <2>1, <2>2, DecidedIsGood
  <2> QED
    BY <1>2, <2>5, <2>6 DEF AutoRejected, Fine
<1> QED
  BY <1>1, <1>2

LEMMA ReviewedIsFine ==
    ASSUME Tables, RowsInv, NEW s \in Signal, rows[s] # None,
           NEW status \in {"APPROVED", "REJECTED"}
    PROVE  Fine(s, [rows[s] EXCEPT !.status = status, !.reviewedBy = "human"])
<1> DEFINE new == [rows[s] EXCEPT !.status = status, !.reviewedBy = "human"]
<1>1. Good(s, rows[s])
  BY DEF RowsInv
<1>2. /\ new.status = status /\ new.reviewedBy = "human"
      /\ new.facts = rows[s].facts /\ new.markers = rows[s].markers
      /\ new \in Row
  BY <1>1 DEF Good, Row, Status
<1>3. RowOK(new) /\ HeldOut(s, new)
  BY <1>1, <1>2 DEF Good, RowOK, HeldOut
<1> QED
  BY <1>2, <1>3 DEF Fine, Good, MayBecome

\* New facts, with markers of which each holdout is in its bucket.
LEMMA NewFactsAreGood ==
    ASSUME Tables, NEW s \in Signal, NEW row, Good(s, row), NEW c \in Content,
           NEW old, Good(s, old), NEW markers \in SUBSET old.markers
    PROVE  Good(s, [row EXCEPT !.facts = Classified(s, c), !.markers = markers])
<1> DEFINE new == [row EXCEPT !.facts = Classified(s, c), !.markers = markers]
<1>1. /\ row \in Row /\ RowOK(row)
      /\ old \in Row /\ RowOK(old) /\ HeldOut(s, old)
  BY DEF Good
<1>2. /\ new.status = row.status /\ new.reviewedBy = row.reviewedBy
      /\ new.facts = Classified(s, c) /\ new.markers = markers
      /\ new \in Row
  BY <1>1, ClassifiedIsFacts DEF Row
<1>3. RowOK(new)
  BY <1>1, <1>2, ClassifiedIsFacts DEF RowOK
<1>4. HeldOut(s, new)
  BY <1>1, <1>2 DEF HeldOut
<1> QED
  BY <1>2, <1>3, <1>4 DEF Good
------------------------------------------------------------------------------
(* Steps *)

RowsStep ==
    /\ rows' = [s \in Signal |-> rows'[s]]
    /\ \A s \in Signal : Fine(s, rows'[s])

LEMMA RowsKept ==
    ASSUME RowsInv, RowsStep, kind' = kind
    PROVE  RowsInv'
BY DEF RowsInv, RowsStep, Fine, Good, HeldOut, CarePlanning

LEMMA RowsSame ==
    ASSUME RowsInv, rows' = rows
    PROVE  RowsStep
BY UnchangedIsFine DEF RowsInv, RowsStep

LEMMA RowChanges ==
    ASSUME RowsInv, NEW s \in Signal, NEW new, Fine(s, new),
           rows' = [rows EXCEPT ![s] = new]
    PROVE  RowsStep
<1>1. /\ rows' = [t \in Signal |-> rows'[t]]
      /\ \A t \in Signal : rows'[t] = IF t = s THEN new ELSE rows[t]
  BY DEF RowsInv
<1>2. \A t \in Signal : Fine(t, rows'[t])
  BY <1>1, UnchangedIsFine
<1> QED
  BY <1>1, <1>2 DEF RowsStep

LEMMA JobChanges ==
    ASSUME JobsInv, NEW w \in Worker, NEW j \in Job, Working(j), job' = [job EXCEPT ![w] = j]
    PROVE  JobsInv'
BY DEF JobsInv, Working

LEMMA JobsSame ==
    ASSUME JobsInv, job' = job
    PROVE  JobsInv'
BY DEF JobsInv, Working

LEMMA IdleWorks == Idle \in Job /\ Working(Idle)
BY DEF Idle, Job, Working, Step, LastSteps

\* A worker that goes on has what the next step needs.
LEMMA JobGoesOn ==
    ASSUME JobsInv, NEW w \in Worker, ~At(w, "idle"), NEW step \in Step \ {"save", "saveReview"},
           step = "triage" => job[w].content \in Content, GoTo(w, step)
    PROVE  JobsInv'
<1>1. job[w] \in Job /\ job[w].signal \in Signal
  BY DEF JobsInv, Working, At
<1>2. JobAt(w, step) \in Job
  BY <1>1, IdleWorks DEF JobAt, Job
<1>3. Working(JobAt(w, step))
  <2>1. CASE step = "idle"
    BY <2>1, IdleWorks DEF JobAt
  <2>2. CASE step \in LastSteps
    <3>1. JobAt(w, step) = [job[w] EXCEPT !.step = step, !.content = None, !.verdict = None]
      BY <2>2 DEF JobAt, LastSteps
    <3> QED
      BY <1>1, <2>2, <3>1 DEF Job, Working, LastSteps
  <2>3. CASE step \in {"triage", "assess"}
    <3>1. JobAt(w, step) = [job[w] EXCEPT !.step = step]
      BY <2>3 DEF JobAt, LastSteps
    <3> QED
      BY <1>1, <2>3, <3>1 DEF Job, Working
  <2> QED
    BY <2>1, <2>2, <2>3 DEF Step
<1> QED
  BY <1>2, <1>3, JobChanges DEF GoTo

LEMMA BatchSame ==
    ASSUME BatchInv, batch' = batch, kind' = kind
    PROVE  BatchInv'
<1> SUFFICES ASSUME batch # None PROVE BatchInv'
  BY DEF BatchInv
<1>1. \A item \in batch.todo : ItemInv(item)'
  BY DEF BatchInv, ItemInv, Good, HeldOut, CarePlanning
<1> QED
  BY <1>1 DEF BatchInv

LEMMA BatchShrinks ==
    ASSUME BatchInv, batch # None, NEW done, Finish(done), kind' = kind
    PROVE  BatchInv'
<1> SUFFICES ASSUME batch' # None PROVE BatchInv'
  BY DEF BatchInv
<1>1. /\ batch' = [op |-> batch.op, todo |-> batch.todo \ done]
      /\ batch.op \in BatchOps
  BY DEF BatchInv, Finish
<1>2. \A item \in batch.todo : ItemInv(item)'
  BY DEF BatchInv, ItemInv, Good, HeldOut, CarePlanning
<1>3. batch'.op = batch.op /\ batch'.todo = batch.todo \ done
  BY <1>1
<1> QED
  BY <1>1, <1>2, <1>3 DEF BatchInv
------------------------------------------------------------------------------
(* The actions *)

Safe == IInv' /\ RowsStep

\* A step that leaves the rows and the batch alone.
LEMMA OnlyJobs ==
    ASSUME IInv, Tables', JobsInv', kind' = kind, rows' = rows, batch' = batch
    PROVE  Safe
BY RowsSame, RowsKept, BatchSame DEF IInv, Safe

LEMMA EventCounts ==
    ASSUME Tables, Event
    PROVE  events' \in 0..MaxEvents
BY ReviewConstants DEF Tables, Event

LEMMA ReviseSafe ==
    ASSUME IInv, NEW s \in Signal, NEW c \in Content, Revise(s, c)
    PROVE  Safe
<1>1. Tables'
  <2>1. content' \in [Signal -> Content] /\ messages' \in [Signal -> Nat]
    BY DEF IInv, Tables, Revise
  <2> QED
    BY <2>1, EventCounts DEF IInv, Tables, Revise
<1> QED
  BY <1>1, OnlyJobs, JobsSame DEF IInv, Revise

LEMMA ReceiveSafe ==
    ASSUME IInv, NEW w \in Worker, NEW s \in Signal, Receive(w, s)
    PROVE  Safe
<1> DEFINE j == [Idle EXCEPT !.step = "save", !.signal = s, !.content = content[s]]
<1>1. Tables'
  BY DEF IInv, Tables, Receive
<1>2. content[s] \in Content
  BY DEF IInv, Tables
<1>3. job' = [job EXCEPT ![w] = j]
  BY DEF Receive
<1>4. j \in Job /\ Working(j)
  BY <1>2 DEF Idle, Job, Working, Step
<1> QED
  BY <1>1, <1>3, <1>4, OnlyJobs, JobChanges DEF IInv, Receive

LEMMA SaveEnrichmentSafe ==
    ASSUME IInv, NEW w \in Worker, SaveEnrichment(w)
    PROVE  Safe
<1> DEFINE s == job[w].signal
           c == job[w].content
           new == IF rows[s] = None THEN NewRow(s, c)
                  ELSE IF kind[s].source = "ofsted"
                  THEN [rows[s] EXCEPT !.facts = Classified(s, c), !.markers = {}]
                  ELSE rows[s]
<1>1. s \in Signal /\ c \in Content
  BY DEF IInv, JobsInv, Working, SaveEnrichment, At
<1>2. Fine(s, new)
  <2>1. CASE rows[s] = None
    BY <1>1, <2>1, NewRowIsFine DEF IInv
  <2>2. CASE rows[s] # None /\ kind[s].source = "ofsted"
    <3>1. Good(s, rows[s])
      BY <1>1, <2>2 DEF IInv, RowsInv
    <3>2. Good(s, new)
      BY <1>1, <2>2, <3>1, NewFactsAreGood DEF IInv
    <3>3. new.status = rows[s].status /\ new.reviewedBy = rows[s].reviewedBy
      BY <2>2, <3>1 DEF Good, Row
    <3> QED
      BY <2>2, <3>2, <3>3 DEF Fine, MayBecome
  <2>3. CASE rows[s] # None /\ kind[s].source # "ofsted"
    BY <1>1, <2>3, UnchangedIsFine DEF IInv
  <2> QED
    BY <2>1, <2>2, <2>3
<1>3. rows' = [rows EXCEPT ![s] = new] /\ kind' = kind /\ batch' = batch
  BY DEF SaveEnrichment
<1>4. RowsStep
  <2> HIDE DEF s, new
  <2> QED
    BY <1>1, <1>2, <1>3, RowChanges DEF IInv
<1>5. JobsInv'
  <2>1. ~At(w, "idle")
    BY DEF SaveEnrichment, At
  <2> DEFINE step == IF kind[s].source = "planning" THEN "triage" ELSE "assess"
  <2>2. step \in {"triage", "assess"} /\ GoTo(w, step)
    BY DEF SaveEnrichment
  <2> HIDE DEF step
  <2> QED
    BY <1>1, <2>1, <2>2, JobGoesOn DEF IInv, Step
<1>6. Tables'
  BY DEF IInv, Tables, SaveEnrichment
<1> QED
  BY <1>3, <1>4, <1>5, <1>6, RowsKept, BatchSame DEF IInv, Safe

LEMMA TriageSafe ==
    ASSUME IInv, NEW w \in Worker, TriageOutcome(w)
    PROVE  Safe
<1> DEFINE s == job[w].signal
           new == AutoRejected(s, job[w].content)
<1>1. s \in Signal /\ ~At(w, "idle")
  BY DEF IInv, JobsInv, Working, TriageOutcome, At
<1>2. Fine(s, new)
  BY <1>1, AutoRejectedIsFine DEF IInv
<1>3. rows' = [rows EXCEPT ![s] = new] /\ kind' = kind /\ batch' = batch
  BY DEF TriageOutcome
<1>4. RowsStep
  <2> HIDE DEF s, new
  <2> QED
    BY <1>1, <1>2, <1>3, RowChanges DEF IInv
<1>5. JobsInv'
  BY <1>1, JobGoesOn DEF IInv, TriageOutcome, Step
<1>6. Tables'
  BY DEF IInv, Tables, TriageOutcome
<1> QED
  BY <1>3, <1>4, <1>5, <1>6, RowsKept, BatchSame DEF IInv, Safe

LEMMA NextPolicyTyped ==
    ASSUME NEW s, NEW saved, NEW manual, NEW ai
    PROVE  NextPolicy(s, saved, manual, ai) \in {"aiApproval", "safeApproval", "idle"}
BY DEF NextPolicy

LEMMA AssessSafe ==
    ASSUME IInv, NEW w \in Worker, Assess(w)
    PROVE  Safe
<1> DEFINE s == job[w].signal
<1>1. ~At(w, "idle")
  BY DEF Assess, At
<1>2. Tables' /\ kind' = kind /\ rows' = rows /\ batch' = batch
  BY DEF IInv, Tables, Assess
<1>3. JobsInv'
  <2>1. CASE GoTo(w, "idle")
    BY <1>1, <2>1, JobGoesOn DEF IInv, Step
  <2>2. CASE GoTo(w, NextPolicy(s, FALSE, job[w].manual, assessments[s]))
    <3> DEFINE step == NextPolicy(s, FALSE, job[w].manual, assessments[s])
    <3>1. step \in {"aiApproval", "safeApproval", "idle"} /\ GoTo(w, step)
      BY <2>2, NextPolicyTyped
    <3> HIDE DEF step
    <3> QED
      BY <1>1, <3>1, JobGoesOn DEF IInv, Step, LastSteps
  <2>3. CASE \E v \in Verdict : job' = [job EXCEPT ![w] =
                 [job[w] EXCEPT !.step = "saveReview",
                                !.verdict = Guarded(kind[s], job[w].content, v)]]
    <3> PICK v \in Verdict : job' = [job EXCEPT ![w] =
                 [job[w] EXCEPT !.step = "saveReview",
                                !.verdict = Guarded(kind[s], job[w].content, v)]]
      BY <2>3
    <3> DEFINE answer == Guarded(kind[s], job[w].content, v)
               j == [job[w] EXCEPT !.step = "saveReview", !.verdict = answer]
    <3>1. answer \in Answer
      BY ReviewConstants DEF Guarded, Answer, Recommendation
    <3>2. job[w] \in Job /\ job[w].signal \in Signal
      BY <1>1 DEF IInv, JobsInv, Working, At
    <3>3. j \in Job /\ Working(j)
      <4> HIDE DEF answer
      <4> QED
        BY <3>1, <3>2 DEF Job, Working, Step
    <3> HIDE DEF j, answer
    <3>4. job' = [job EXCEPT ![w] = j]
      BY DEF j, answer
    <3> QED
      BY <3>3, <3>4, JobChanges DEF IInv
  <2> QED
    BY <2>1, <2>2, <2>3 DEF Assess
<1> QED
  BY <1>2, <1>3, OnlyJobs

LEMMA SaveAiReviewSafe ==
    ASSUME IInv, NEW w \in Worker, SaveAiReview(w)
    PROVE  Safe
<1> DEFINE s == job[w].signal
           saved == assessments[s] = None
           ai == IF saved THEN job[w].verdict ELSE assessments[s]
           step == NextPolicy(s, saved, job[w].manual, ai)
<1>1. ~At(w, "idle") /\ s \in Signal /\ job[w].verdict \in Answer
  BY DEF IInv, JobsInv, Working, SaveAiReview, At
<1>2. ai \in Answer
  BY <1>1 DEF IInv, Tables
<1>3. assessments' = [assessments EXCEPT ![s] = ai] /\ GoTo(w, step)
  BY DEF SaveAiReview
<1>4. step \in {"aiApproval", "safeApproval", "idle"}
  BY NextPolicyTyped
<1> HIDE DEF step, ai
<1>5. JobsInv'
  BY <1>1, <1>3, <1>4, JobGoesOn DEF IInv, Step, LastSteps
<1>6. Tables'
  BY <1>2, <1>3 DEF IInv, Tables, SaveAiReview
<1> QED
  BY <1>5, <1>6, OnlyJobs DEF SaveAiReview

\* A policy that judges the row under its lock.
LEMMA PolicyIsFine ==
    ASSUME IInv, NEW s \in Signal, NEW policy \in Policy, ApplyPolicy(s, policy)
    PROVE  RowsStep
<1>1. CASE rows[s] = None
  BY <1>1, RowsSame DEF ApplyPolicy, IInv
<1>2. CASE rows[s] # None
  <2> DEFINE outcome == PolicyOutcome(policy, kind[s], content[s], rows[s], Assessment(s))
             new == WithOutcome(s, policy, outcome)
  <2>1. kind[s] \in Kind /\ Good(s, rows[s])
    BY <1>2 DEF IInv, Tables, RowsInv
  <2>2. outcome \in {"INELIGIBLE", "QA_HOLDOUT", "APPROVED", "REJECTED"}
    BY OutcomeTyped
  <2>3. outcome = "QA_HOLDOUT" =>
            QaHoldout(kind[s], 10) /\ (CarePlanning(s) => policy \in CareMarkers)
    BY <2>1, HoldoutBucket DEF CarePlanning
  <2>4. outcome \in {"APPROVED", "REJECTED"} =>
            \A m \in rows[s].markers : m.outcome # "QA_HOLDOUT"
    BY <2>1, HoldoutIsRespected DEF Good
  <2>5. rows' = [rows EXCEPT ![s] = new]
    BY <1>2 DEF ApplyPolicy
  <2> HIDE DEF outcome
  <2>6. Fine(s, new)
    BY <2>2, <2>3, <2>4, WithOutcomeIsFine DEF IInv
  <2> HIDE DEF new
  <2> QED
    BY <2>5, <2>6, RowChanges DEF IInv
<1> QED
  BY <1>1, <1>2

LEMMA WorkerPolicySafe ==
    ASSUME IInv, NEW w \in Worker,
           ApplyAiApproval(w) \/ ApplyLawfulness(w) \/ ApplySafeApproval(w)
    PROVE  Safe
<1>1. ~At(w, "idle")
  BY DEF ApplyAiApproval, ApplyLawfulness, ApplySafeApproval, At
<1>2. job[w].signal \in Signal
  BY <1>1 DEF IInv, JobsInv, Working, At
<1>3. {"care_planning_ai_approval", "care_planning_lawfulness_approval", "safe_approval"}
          \subseteq Policy
  BY DEF Policy, Marker
<1>4. RowsStep
  BY <1>2, <1>3, PolicyIsFine DEF ApplyAiApproval, ApplyLawfulness, ApplySafeApproval
<1>5. JobsInv'
  BY <1>1, JobGoesOn DEF IInv, Step, LastSteps, ApplyAiApproval, ApplyLawfulness,
                         ApplySafeApproval
<1>6. Tables' /\ kind' = kind /\ batch' = batch
  BY DEF IInv, Tables, ApplyAiApproval, ApplyLawfulness, ApplySafeApproval
<1> QED
  BY <1>4, <1>5, <1>6, RowsKept, BatchSame DEF IInv, Safe

LEMMA ReevaluateSafe ==
    ASSUME IInv, NEW w \in Worker, NEW s \in Signal, ReevaluateAiShadow(w, s)
    PROVE  Safe
<1> DEFINE j == [Idle EXCEPT !.step = "assess", !.signal = s, !.content = content[s],
                             !.manual = TRUE]
<1>1. Tables'
  BY EventCounts DEF IInv, Tables, ReevaluateAiShadow
<1>2. content[s] \in Content
  BY DEF IInv, Tables
<1>3. job' = [job EXCEPT ![w] = j]
  BY DEF ReevaluateAiShadow
<1>4. j \in Job /\ Working(j)
  BY <1>2 DEF Idle, Job, Working, Step
<1> QED
  BY <1>1, <1>3, <1>4, OnlyJobs, JobChanges DEF IInv, ReevaluateAiShadow

LEMMA FailSafe ==
    ASSUME IInv, NEW w \in Worker, Fail(w)
    PROVE  Safe
<1>1. messages' \in [Signal -> Nat]
  <2>1. job[w].signal \in Signal /\ messages \in [Signal -> Nat]
    BY DEF IInv, Tables, JobsInv, Working, Fail, At
  <2>2. \/ messages' = messages
        \/ messages' = [messages EXCEPT ![job[w].signal] = messages[job[w].signal] + 1]
    BY <2>1 DEF Fail
  <2> QED
    BY <2>1, <2>2
<1>2. Tables'
  BY <1>1, EventCounts DEF IInv, Tables, Fail
<1>3. JobsInv'
  BY JobGoesOn DEF IInv, Fail, Step
<1> QED
  BY <1>2, <1>3, OnlyJobs DEF Fail

LEMMA DuplicateSafe ==
    ASSUME IInv, NEW s \in Signal, Duplicate(s)
    PROVE  Safe
<1>1. Tables'
  BY EventCounts DEF IInv, Tables, Duplicate
<1> QED
  BY <1>1, OnlyJobs, JobsSame DEF IInv, Duplicate

LEMMA ReviewSafe ==
    ASSUME IInv, NEW some \in SUBSET Signal, NEW status \in {"APPROVED", "REJECTED"},
           NEW pendingOnly, ReviewSignals(some, status, pendingOnly)
    PROVE  Safe
<1> DEFINE decides(s) == s \in some /\ rows[s] # None /\ (~pendingOnly \/ StillPending(s))
           new(s) == [rows[s] EXCEPT !.status = status, !.reviewedBy = "human"]
<1>1. rows' = [s \in Signal |-> IF decides(s) THEN new(s) ELSE rows[s]]
  BY DEF ReviewSignals
<1>2. \A s \in Signal : decides(s) => Fine(s, new(s))
  BY ReviewedIsFine DEF IInv
<1>3. \A s \in Signal : Fine(s, rows[s])
  BY UnchangedIsFine DEF IInv
<1>4. RowsStep
  <2> HIDE DEF decides, new
  <2> QED
    BY <1>1, <1>2, <1>3 DEF RowsStep
<1>5. Tables'
  BY EventCounts DEF IInv, Tables, ReviewSignals
<1> QED
  BY <1>4, <1>5, RowsKept, JobsSame, BatchSame DEF IInv, Safe, ReviewSignals

LEMMA StartBatchSafe ==
    ASSUME IInv, NEW op \in BatchOps, NEW selected \in SUBSET Signal,
           op # "recalculate" => \A s \in selected : rows[s] # None, StartBatch(op, selected)
    PROVE  Safe
<1>1. batch' = [op |-> op, todo |-> {Item(s) : s \in selected}] /\ kind' = kind
  BY DEF StartBatch
<1>2. \A s \in selected : ItemInv(Item(s)) /\ (op # "recalculate" => Item(s).row # None)
  BY DEF IInv, Tables, RowsInv, ItemInv, Item
<1>3. ASSUME NEW item, ItemInv(item)
      PROVE  ItemInv(item)'
  BY <1>1, <1>3 DEF ItemInv, Good, HeldOut, CarePlanning
<1>4. BatchInv'
  <2>1. batch'.op = op /\ batch'.todo = {Item(s) : s \in selected}
    BY <1>1
  <2>2. \A item \in batch'.todo : ItemInv(item)' /\ (op # "recalculate" => item.row # None)
    BY <1>2, <1>3, <2>1
  <2> QED
    BY <1>1, <2>1, <2>2 DEF BatchInv
<1>5. Tables'
  BY EventCounts DEF IInv, Tables, StartBatch
<1> QED
  BY <1>4, <1>5, RowsSame, RowsKept, JobsSame DEF IInv, Safe, StartBatch

LEMMA StartBacklogSafe ==
    ASSUME IInv, NEW policy \in Policy, StartBacklog(policy)
    PROVE  Safe
<1>1. PICK selected \in SUBSET Signal :
          (\A s \in selected : rows[s] # None) /\ StartBatch(policy, selected)
  BY DEF StartBacklog
<1> QED
  BY <1>1, StartBatchSafe DEF BatchOps

LEMMA BacklogsSafe ==
    ASSUME IInv, \/ FastpathBacklog \/ AiApprovalBacklog \/ LawfulnessBacklog
                 \/ SafeAgreementBulkApprove \/ LossBacklog \/ ArboricultureBacklog
                 \/ ExtensionBacklog \/ RoutineRecruitmentBacklog
    PROVE  Safe
<1>1. PICK policy \in Policy : StartBacklog(policy)
  BY DEF Policy, Marker, FastpathBacklog, AiApprovalBacklog, LawfulnessBacklog,
         SafeAgreementBulkApprove, LossBacklog, ArboricultureBacklog, ExtensionBacklog,
         RoutineRecruitmentBacklog
<1> QED
  BY <1>1, StartBacklogSafe

LEMMA OtherBatchesSafe ==
    ASSUME IInv, \/ CleanupRefused \/ CleanupWithdrawn \/ ReprocessPlanning
                 \/ ReprocessRecruitment \/ ReclassifyPending
    PROVE  Safe
<1>1. PICK op \in BatchOps, selected \in SUBSET Signal :
          (\A s \in selected : rows[s] # None) /\ StartBatch(op, selected)
  <2> DEFINE reads(op) == \E selected \in SUBSET Signal :
                 (\A s \in selected : rows[s] # None) /\ StartBatch(op, selected)
  <2>1. CleanupRefused => reads("cleanup")
    BY DEF CleanupRefused, StillPending
  <2>2. CleanupWithdrawn => reads("cleanup")
    BY DEF CleanupWithdrawn, StillPending
  <2>3. ReprocessPlanning => reads("reprocess")
    BY DEF ReprocessPlanning
  <2>4. ReprocessRecruitment => reads("reprocess")
    BY DEF ReprocessRecruitment
  <2>5. ReclassifyPending => reads("reclassify")
    BY DEF ReclassifyPending, StillPending
  <2> QED
    BY <2>1, <2>2, <2>3, <2>4, <2>5 DEF BatchOps
<1> QED
  BY <1>1, StartBatchSafe

LEMMA RecalculationStarts ==
    ASSUME IInv, RecalculateOpportunities
    PROVE  Safe
<1>1. PICK selected \in SUBSET Signal : StartBatch("recalculate", selected)
  BY DEF RecalculateOpportunities
<1> QED
  BY <1>1, StartBatchSafe DEF BatchOps

LEMMA RecalculateFactsSafe ==
    ASSUME IInv, NEW item, RecalculateFacts(item)
    PROVE  Safe
<1> DEFINE s == item.signal
           new == RecalculatedFrom(item, rows[s])
<1>1. batch # None /\ batch.op = "recalculate" /\ item \in batch.todo /\ ItemInv(item)
  BY DEF IInv, BatchInv, RecalculateFacts
<1>2. s \in Signal /\ item.content \in Content
  BY <1>1 DEF ItemInv
<1>3. RowsStep
  <2>1. CASE rows[s] = None
    BY <2>1, RowsSame DEF IInv, RecalculateFacts
  <2>2. CASE rows[s] # None
    <3>1. Good(s, rows[s])
      BY <1>2, <2>2 DEF IInv, RowsInv
    <3>2. Good(s, new)
      <4>1. new = [rows[s] EXCEPT !.facts = Classified(s, item.content),
                                  !.markers = rows[s].markers]
        BY <3>1 DEF Good, Row, RecalculatedFrom
      <4>2. Good(s, [rows[s] EXCEPT !.facts = Classified(s, item.content),
                                    !.markers = rows[s].markers])
        BY <1>2, <3>1, NewFactsAreGood DEF IInv
      <4> HIDE DEF new
      <4> QED
        BY <4>1, <4>2
    <3>3. rows' = [rows EXCEPT ![s] = new]
      BY <2>2 DEF RecalculateFacts
    <3>4. MayBecome(s, new)
      BY <1>1 DEF MayBecome
    <3> HIDE DEF new
    <3> QED
      BY <1>2, <3>2, <3>3, <3>4, RowChanges DEF IInv, Fine
  <2> QED
    BY <2>1, <2>2
<1>4. kind' = kind /\ job' = job /\ Tables' /\ Finish({item})
  BY DEF IInv, Tables, RecalculateFacts
<1> QED
  BY <1>1, <1>3, <1>4, RowsKept, JobsSame, BatchShrinks DEF IInv, Safe

LEMMA ApplyBacklogSafe ==
    ASSUME IInv, NEW item, ApplyBacklog(item)
    PROVE  Safe
<1> DEFINE s == item.signal
           policy == batch.op
<1>1. batch # None /\ policy \in Policy /\ ItemInv(item)
  BY DEF IInv, BatchInv, ApplyBacklog
<1>2. s \in Signal
  BY <1>1 DEF ItemInv
<1>3. RowsStep
  <2>1. CASE policy \in Rejudging
    BY <1>1, <1>2, <2>1, PolicyIsFine DEF ApplyBacklog
  <2>2. CASE policy \notin Rejudging
    <3> DEFINE outcome == Judged(policy, item)
               new == WithOutcome(s, policy, outcome)
    <3>1. outcome \in {"INELIGIBLE", "QA_HOLDOUT", "APPROVED", "REJECTED"}
      BY <1>1, OutcomeTyped DEF Judged
    <3>2. outcome = "QA_HOLDOUT" =>
              QaHoldout(kind[s], 10) /\ (CarePlanning(s) => policy \in CareMarkers)
      BY <1>1, <1>2, HoldoutBucket DEF Judged, CarePlanning, IInv, Tables
    <3>3. rows[s] # None /\ outcome \in {"APPROVED", "REJECTED"} =>
              \A m \in rows[s].markers : m.outcome # "QA_HOLDOUT"
      <4>1. outcome \in {"APPROVED", "REJECTED"} => ~QaHoldout(kind[s], 10)
        BY <1>1, <2>2 DEF Judged, Policy, Marker, Rejudging, PolicyOutcome, Outcome
      <4>2. rows[s] # None => HeldOut(s, rows[s])
        BY <1>2 DEF IInv, RowsInv, Good
      <4> HIDE DEF outcome
      <4> QED
        BY <4>1, <4>2 DEF HeldOut
    <3>4. rows' = [rows EXCEPT ![s] = new]
      BY <2>2 DEF ApplyBacklog
    <3> HIDE DEF outcome
    <3>5. Fine(s, new)
      BY <1>1, <1>2, <3>1, <3>2, <3>3, WithOutcomeIsFine DEF IInv
    <3> HIDE DEF new
    <3> QED
      BY <1>2, <3>4, <3>5, RowChanges DEF IInv
  <2> QED
    BY <2>1, <2>2
<1>4. kind' = kind /\ job' = job /\ Tables' /\ Finish({item})
  BY DEF IInv, Tables, ApplyBacklog
<1> QED
  BY <1>1, <1>3, <1>4, RowsKept, JobsSame, BatchShrinks DEF IInv, Safe

LEMMA WithFactsIsFine ==
    ASSUME IInv, NEW item, ItemInv(item), item.row # None, NEW markers \in SUBSET item.row.markers
    PROVE  Fine(item.signal, WithFacts(item, markers))
<1> DEFINE s == item.signal
           new == [rows[s] EXCEPT !.facts = Classified(s, item.content), !.markers = markers]
<1>1. s \in Signal /\ item.content \in Content /\ Good(s, item.row)
  BY DEF ItemInv
<1>2. CASE StillPending(s) /\ item.row.status = "PENDING"
  <2>1. rows[s] # None /\ rows[s].status = "PENDING" /\ Good(s, rows[s])
    BY <1>1, <1>2 DEF IInv, RowsInv, StillPending
  <2>2. Good(s, new)
    BY <1>1, <2>1, NewFactsAreGood DEF IInv
  <2>3. new.status = "PENDING"
    BY <2>1 DEF Good, Row
  <2> QED
    BY <1>2, <2>1, <2>2, <2>3 DEF Fine, MayBecome, WithFacts
<1>3. CASE ~(StillPending(s) /\ item.row.status = "PENDING")
  BY <1>1, <1>3, UnchangedIsFine DEF IInv, WithFacts
<1> QED
  BY <1>2, <1>3

LEMMA RewrittenIsFine ==
    ASSUME IInv, batch # None, batch.op \in {"cleanup", "reprocess", "reclassify"}, NEW item \in batch.todo
    PROVE  Fine(item.signal, Rewritten(item))
<1>1. /\ batch.op \in {"cleanup", "reprocess", "reclassify"}
      /\ ItemInv(item) /\ item.row # None
  BY DEF IInv, BatchInv, BatchOps
<1>2. item.signal \in Signal
  BY <1>1 DEF ItemInv
<1>3. CASE batch.op = "cleanup"
  BY <1>2, <1>3, AutoRejectedIsFine DEF IInv, Rewritten
<1>4. CASE batch.op = "reprocess"
  <2>1. Fine(item.signal, WithFacts(item, {}))
    BY <1>1, WithFactsIsFine
  <2> QED
    BY <1>4, <2>1 DEF Rewritten
<1>5. CASE batch.op = "reclassify"
  <2> DEFINE kept == {m \in item.row.markers : m.policy \in CareMarkers}
  <2>1. Fine(item.signal, WithFacts(item, kept))
    BY <1>1, WithFactsIsFine
  <2>2. Rewritten(item) = rows[item.signal] \/ Rewritten(item) = WithFacts(item, kept)
    BY <1>5 DEF Rewritten
  <2> HIDE DEF kept
  <2> QED
    BY <1>2, <2>1, <2>2, UnchangedIsFine DEF IInv
<1> QED
  BY <1>1, <1>3, <1>4, <1>5

LEMMA ApplyBatchSafe ==
    ASSUME IInv, ApplyBatch
    PROVE  Safe
<1> DEFINE about(s) == \E item \in batch.todo : item.signal = s
           chosen(s) == CHOOSE item \in batch.todo : item.signal = s
<1>1. \A s \in Signal : about(s) => chosen(s) \in batch.todo /\ chosen(s).signal = s
  OBVIOUS
<1>2. rows' = [s \in Signal |-> IF about(s) THEN Rewritten(chosen(s)) ELSE rows[s]]
  BY DEF ApplyBatch
<1> HIDE DEF about, chosen
<1>3. \A s \in Signal : about(s) => Fine(s, Rewritten(chosen(s)))
  BY <1>1, RewrittenIsFine DEF ApplyBatch
<1>4. \A s \in Signal : Fine(s, rows[s])
  BY UnchangedIsFine DEF IInv
<1>5. RowsStep
  BY <1>2, <1>3, <1>4 DEF RowsStep
<1>6. batch # None /\ kind' = kind /\ job' = job /\ Tables' /\ Finish(batch.todo)
  BY DEF IInv, Tables, ApplyBatch
<1> QED
  BY <1>5, <1>6, RowsKept, JobsSame, BatchShrinks DEF IInv, Safe
------------------------------------------------------------------------------
(* The specification *)

LEMMA InitInv == Init => IInv
<1> SUFFICES ASSUME Init PROVE IInv
  OBVIOUS
<1>1. Tables
  BY ReviewConstants DEF Init, Tables
<1>2. RowsInv
  BY DEF Init, RowsInv
<1>3. JobsInv
  BY IdleWorks DEF Init, JobsInv
<1>4. BatchInv
  BY DEF Init, BatchInv
<1> QED
  BY <1>1, <1>2, <1>3, <1>4 DEF IInv

LEMMA NextSafe ==
    ASSUME IInv, [Next]_vars
    PROVE  Safe
<1>1. CASE UNCHANGED vars
  <2>1. Tables' /\ kind' = kind /\ job' = job /\ rows' = rows /\ batch' = batch
    BY <1>1 DEF IInv, Tables, vars
  <2> QED
    BY <2>1, OnlyJobs, JobsSame DEF IInv
<1>2. CASE \E s \in Signal, c \in Content : Revise(s, c)
  BY <1>2, ReviseSafe
<1>3. CASE \E w \in Worker, s \in Signal : Receive(w, s) \/ ReevaluateAiShadow(w, s)
  BY <1>3, ReceiveSafe, ReevaluateSafe
<1>4. CASE \E w \in Worker : Progress(w) \/ Fail(w)
  BY <1>4, SaveEnrichmentSafe, TriageSafe, AssessSafe, SaveAiReviewSafe, WorkerPolicySafe,
     FailSafe DEF Progress
<1>5. CASE \E s \in Signal : Duplicate(s)
  BY <1>5, DuplicateSafe
<1>6. CASE \E some \in SUBSET Signal, status \in {"APPROVED", "REJECTED"}, p \in BOOLEAN :
               ReviewSignals(some, status, p)
  BY <1>6, ReviewSafe
<1>7. CASE \/ FastpathBacklog \/ AiApprovalBacklog \/ LawfulnessBacklog
           \/ SafeAgreementBulkApprove \/ LossBacklog \/ ArboricultureBacklog
           \/ ExtensionBacklog \/ RoutineRecruitmentBacklog
  BY <1>7, BacklogsSafe
<1>8. CASE \/ CleanupRefused \/ CleanupWithdrawn \/ ReprocessPlanning
           \/ ReprocessRecruitment \/ ReclassifyPending
  BY <1>8, OtherBatchesSafe
<1>9. CASE RecalculateOpportunities
  BY <1>9, RecalculationStarts
<1>10. CASE batch # None /\ \E item \in batch.todo : ApplyBacklog(item) \/ RecalculateFacts(item)
  BY <1>10, ApplyBacklogSafe, RecalculateFactsSafe
<1>11. CASE ApplyBatch
  BY <1>11, ApplyBatchSafe
<1> QED
  BY <1>1, <1>2, <1>3, <1>4, <1>5, <1>6, <1>7, <1>8, <1>9, <1>10, <1>11 DEF Next

LEMMA Invariance == Spec => []IInv
<1>1. IInv /\ [Next]_vars => IInv'
  BY NextSafe DEF Safe
<1> QED
  BY InitInv, <1>1, PTL DEF Spec

\* Type correctness: a row of signal_enrichments is signed exactly when it is
\* decided and carries at most one marker of each policy.
THEOREM TypeCorrect == Spec => []TypeOK
<1>1. IInv => TypeOK
  <2> SUFFICES ASSUME IInv PROVE TypeOK
    OBVIOUS
  <2>1. \A s \in Signal : rows[s] # None => RowOK(rows[s])
    BY DEF IInv, RowsInv, Good
  <2>2. \A s \in Signal :
            assessments[s] # None => assessments[s].status \in {"SUCCEEDED", "FAILED"}
    BY DEF IInv, Tables, Answer
  <2>3. \A w \in Worker : job[w].step \in Step
    BY DEF IInv, JobsInv, Job
  <2>4. batch # None => \A item \in batch.todo : item.signal \in Signal
    BY DEF IInv, BatchInv, ItemInv
  <2> QED
    BY <2>1, <2>2, <2>3, <2>4 DEF IInv, Tables, TypeOK
<1> QED
  BY Invariance, <1>1, PTL

\* Decisions stand: no policy, cleanup, reprocessing, recalculation or worker
\* that acts on what it read before replaces the status or the signature of a
\* decided signal, and only a recalculation, or a message about an Ofsted
\* signal, changes the facts it was decided on.
THEOREM DecisionsAreFinal == Spec => DecisionsStand
<1>1. IInv /\ [Next]_vars =>
        [\A s \in Signal : rows[s] # None /\ rows[s].status # "PENDING" =>
            /\ \/ rows'[s].status = rows[s].status /\ rows'[s].reviewedBy = rows[s].reviewedBy
               \/ rows'[s].reviewedBy = "human"
            /\ \/ rows'[s].facts = rows[s].facts /\ rows'[s].markers = rows[s].markers
               \/ kind[s].source = "ofsted"
               \/ rows'[s].markers = rows[s].markers /\ Recalculation(s)]_vars
  <2> SUFFICES ASSUME IInv, [Next]_vars, NEW s \in Signal,
                      rows[s] # None, rows[s].status # "PENDING"
               PROVE  /\ \/ /\ rows'[s].status = rows[s].status
                            /\ rows'[s].reviewedBy = rows[s].reviewedBy
                         \/ rows'[s].reviewedBy = "human"
                      /\ \/ /\ rows'[s].facts = rows[s].facts
                            /\ rows'[s].markers = rows[s].markers
                         \/ kind[s].source = "ofsted"
                         \/ rows'[s].markers = rows[s].markers /\ Recalculation(s)
    OBVIOUS
  <2>1. MayBecome(s, rows'[s]) /\ rows[s] \in Row
    BY NextSafe DEF Safe, RowsStep, Fine, IInv, RowsInv, Good
  <2>2. ASSUME NEW item \in batch.todo, batch # None, batch.op = "recalculate",
               item.signal = s, rows'[s] = RecalculatedFrom(item, rows[s])
        PROVE  /\ rows'[s].status = rows[s].status /\ rows'[s].reviewedBy = rows[s].reviewedBy
               /\ rows'[s].markers = rows[s].markers /\ Recalculation(s)
    BY <2>1, <2>2 DEF RecalculatedFrom, Recalculation, Row
  <2> QED
    BY <2>1, <2>2 DEF MayBecome
<1> QED
  BY Invariance, <1>1, PTL DEF Spec, DecisionsStand

\* A signal that is held out is decided by people, or rejected for the council's
\* decision, whichever policy held it out and whichever comes next.
THEOREM HoldoutsAreForHumans == Spec => HeldOutIsForHumans
<1>1. IInv /\ [Next]_vars =>
        [\A s \in Signal :
            (/\ rows[s] # None /\ rows[s].status = "PENDING"
             /\ \E m \in rows[s].markers : m.outcome = "QA_HOLDOUT"
             /\ rows'[s].status # "PENDING")
            => \/ rows'[s].reviewedBy = "human"
               \/ [policy |-> "automatic_review", outcome |-> "REJECTED"]
                     \in rows'[s].markers]_vars
  <2> SUFFICES ASSUME IInv, [Next]_vars, NEW s \in Signal,
                      rows[s] # None, rows[s].status = "PENDING", rows'[s].status # "PENDING",
                      \E m \in rows[s].markers : m.outcome = "QA_HOLDOUT"
               PROVE  \/ rows'[s].reviewedBy = "human"
                      \/ [policy |-> "automatic_review", outcome |-> "REJECTED"]
                            \in rows'[s].markers
    OBVIOUS
  <2>1. MayBecome(s, rows'[s]) /\ rows[s] \in Row
    BY NextSafe DEF Safe, RowsStep, Fine, IInv, RowsInv, Good
  <2>2. \A item : RecalculatedFrom(item, rows[s]).status = "PENDING"
    BY <2>1 DEF RecalculatedFrom, Row
  <2> QED
    BY <2>1, <2>2 DEF MayBecome
<1> QED
  BY Invariance, <1>1, PTL DEF Spec, HeldOutIsForHumans
=============================================================================
