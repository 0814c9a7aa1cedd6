----------------------------- MODULE SignalReview -----------------------------
(***************************************************************************)
(* The enrichment worker and everything that may decide the review status  *)
(* of a signal: app/worker.py, app/shadow_review.py and the review part of *)
(* app/repository.py.                                                      *)
(*                                                                         *)
(* A worker runs process_message as a series of transactions; the row may  *)
(* change between any two of them.  Administrators review single signals   *)
(* and bulks of them, and start batches: policy backlogs, cleanups,        *)
(* reprocessing, reclassification and recalculations.  A batch first reads *)
(* the rows it is about without locking them, and writes later.            *)
(*                                                                         *)
(* The attributes of extracted_facts that no review policy reads are left  *)
(* out, and with them the backfills of applicants and employers.           *)
(***************************************************************************)
EXTENDS ReviewPolicies

CONSTANTS
    Signal,         \* rows of raw_signals
    Kind,           \* what a signal can be: [vertical, source, bucket]
    Content,        \* what providers show: [fields, words]
    Verdict,        \* what the model can answer
    Worker,         \* concurrent executions of the enrichment Lambda
    None,           \* an absent row, assessment or batch
    MaxEvents       \* bound: revisions, faults, human reviews and batches

ASSUME ReviewConstants ==
    /\ Kind \subseteq [vertical: Vertical, source: Source, bucket: 0..19]
    /\ \A c \in Content : c.fields \subseteq FieldClass /\ c.words \subseteq Word
    /\ Verdict \subseteq [status: {"SUCCEEDED", "FAILED"}, recommendation: Recommendation,
                        confidence: Confidence]
    /\ MaxEvents \in Nat

VARIABLES
    kind,           \* raw_signals: vertical, source_type and UUID bucket
    content,        \* raw_signals: title, raw_text and metadata
    rows,           \* table signal_enrichments
    assessments,    \* table signal_ai_reviews (one model, one prompt version)
    messages,       \* enrichment messages to deliver, per signal
    job,            \* job[w]: where worker w is in process_message
    batch,          \* the batch an administrator has started
    events          \* events from outside so far

vars == <<kind, content, rows, assessments, messages, job, batch, events>>
-----------------------------------------------------------------------------
LastSteps == {"aiApproval", "lawfulness", "safeApproval"}
Step == {"idle", "save", "triage", "assess", "saveReview"} \cup LastSteps

Idle == [step |-> "idle", signal |-> None, content |-> None, verdict |-> None,
         manual |-> FALSE]

Event == events < MaxEvents /\ events' = events + 1

At(w, step) == job[w].step = step
\* What the later steps no longer use is forgotten.
JobAt(w, step) ==
    IF step = "idle" THEN Idle
    ELSE IF step \in LastSteps
    THEN [job[w] EXCEPT !.step = step, !.content = None, !.verdict = None]
    ELSE [job[w] EXCEPT !.step = step]
GoTo(w, step) == job' = [job EXCEPT ![w] = JobAt(w, step)]

CarePlanning(s) == kind[s].vertical = "CHILDRENS_HOME" /\ kind[s].source = "planning"
Classified(s, c) == ClassifySignal(kind[s].vertical, kind[s].source, c)

NoAssessment == [status |-> "NONE", recommendation |-> "NONE", confidence |-> "low"]
Assessment(s) == IF assessments[s] = None THEN NoAssessment ELSE assessments[s]

NewRow(s, c) == [status |-> "PENDING", reviewedBy |-> "NOBODY",
                 facts |-> Classified(s, c), markers |-> {}]

\* WHERE review_status = 'PENDING', evaluated when the row is written.
StillPendingBug(s) == rows[s] # None     \* (Bug: whatever the status is.)
StillPending(s) == rows[s] # None /\ rows[s].status = "PENDING"

\* extracted_facts || marker: a policy has one marker, the latest.
WithMarker(row, policy, outcome) ==
    {m \in row.markers : m.policy # policy} \cup {[policy |-> policy, outcome |-> outcome]}

DecidedBug(row, policy, status, outcome) ==     \* (Bug: not signed.)
    [row EXCEPT !.status = status, !.markers = WithMarker(row, policy, outcome)]
Decided(row, policy, status, outcome) ==
    [row EXCEPT !.status = status, !.reviewedBy = "system",
                !.markers = WithMarker(row, policy, outcome)]

\* One decision of a policy for one row: a holdout is written once.
WithOutcome(s, policy, outcome) ==
    IF outcome = "INELIGIBLE" \/ ~StillPending(s) THEN rows[s]
    ELSE IF outcome # "QA_HOLDOUT" THEN Decided(rows[s], policy, outcome, outcome)
    ELSE [rows[s] EXCEPT !.markers = WithMarker(rows[s], policy, "QA_HOLDOUT")]

\* An explicit refusal, or for a children's home a withdrawal, that an actor
\* read in content c is written to the row as long as that is pending.
RejectsBug(s, c) ==     \* (Bug: the stored facts say it, not the content.)
    rows[s] # None /\ rows[s].facts.subtype = "REFUSED"
Rejects(s, c) == kind[s].source = "planning"
                   /\ (Refused(c) \/ (CarePlanning(s) /\ Withdrawn(c)))
AutoRejected(s, c) ==
    IF Rejects(s, c) /\ StillPending(s)
    THEN Decided(rows[s], "automatic_review", "REJECTED", "REJECTED")
    ELSE rows[s]
-----------------------------------------------------------------------------
Init ==
    /\ kind \in [Signal -> Kind]
    /\ content \in [Signal -> Content]
    /\ rows = [s \in Signal |-> None]
    /\ assessments = [s \in Signal |-> None]
    /\ messages = [s \in Signal |-> 1]     \* dispatched when it was stored
    /\ job = [w \in Worker |-> Idle]
    /\ batch = None
    /\ events = 0

\* Ingestion stores a revision of a planning signal and queues it again.
Revise(s, c) ==
    /\ Event
    /\ kind[s].source = "planning"
    /\ c # content[s]
    /\ content' = [content EXCEPT ![s] = c]
    /\ messages' = [messages EXCEPT ![s] = @ + 1]
    /\ UNCHANGED <<kind, rows, assessments, job, batch>>

\* process_message begins: get_raw_signal.  The worker keeps what it read.
Receive(w, s) ==
    /\ At(w, "idle")
    /\ messages[s] > 0
    /\ messages' = [messages EXCEPT ![s] = @ - 1]
    /\ job' = [job EXCEPT ![w] = [Idle EXCEPT !.step = "save", !.signal = s,
                                              !.content = content[s]]]
    /\ UNCHANGED <<kind, content, rows, assessments, batch, events>>

\* Only an Ofsted signal's row is rewritten by a later message; a revision of
\* a planning signal keeps the facts of the content it was first seen with.
SaveEnrichment(w) ==
    LET s == job[w].signal
    IN  /\ At(w, "save")
        /\ rows' = [rows EXCEPT ![s] =
                IF rows[s] = None THEN NewRow(s, job[w].content)
                ELSE IF kind[s].source = "ofsted"
                THEN [rows[s] EXCEPT !.facts = Classified(s, job[w].content), !.markers = {}]
                ELSE rows[s]]
        /\ GoTo(w, IF kind[s].source = "planning" THEN "triage" ELSE "assess")
        /\ UNCHANGED <<kind, content, assessments, messages, batch, events>>

\* auto_reject_refused_planning, or auto_reject_withdrawn_planning, with the
\* metadata that was read when the message was received.
TriageOutcome(w) ==
    LET s == job[w].signal
    IN  /\ At(w, "triage")
        /\ rows' = [rows EXCEPT ![s] = AutoRejected(s, job[w].content)]
        /\ GoTo(w, "assess")
        /\ UNCHANGED <<kind, content, assessments, messages, batch, events>>

\* After the assessment: the Care policies run whether or not this message
\* saved it; the nursery policy only after it was saved with success.
NextPolicyBug(s, saved, manual, ai) ==     \* (Bug: only the message that saved it.)
    IF ai.status = "SUCCEEDED" /\ (saved \/ manual)
    THEN (IF CarePlanning(s) THEN "aiApproval" ELSE "safeApproval") ELSE "idle"
NextPolicy(s, saved, manual, ai) ==
    IF CarePlanning(s) /\ (~manual \/ ai.status = "SUCCEEDED") THEN "aiApproval"
    ELSE IF ~CarePlanning(s) /\ ai.status = "SUCCEEDED" /\ (saved \/ manual)
    THEN "safeApproval" ELSE "idle"

\* ai_review_exists or get_ai_review, and the call of the model.  What it says
\* of a refused or withdrawn application is guarded by the worker's content.
Assess(w) ==
    LET s == job[w].signal
    IN  /\ At(w, "assess")
        /\ IF kind[s].source \notin {"planning", "recruitment"} THEN GoTo(w, "idle")
           ELSE IF assessments[s] # None
           THEN GoTo(w, NextPolicy(s, FALSE, job[w].manual, assessments[s]))
           ELSE \E v \in Verdict :
                    job' = [job EXCEPT ![w] =
                        [job[w] EXCEPT !.step = "saveReview",
                                       !.verdict = Guarded(kind[s], job[w].content, v)]]
        /\ UNCHANGED <<kind, content, rows, assessments, messages, batch, events>>

\* INSERT ... ON CONFLICT DO NOTHING: the first assessment stays.
SaveAiReview(w) ==
    LET s == job[w].signal
        saved == assessments[s] = None
        ai == IF saved THEN job[w].verdict ELSE assessments[s]
    IN  /\ At(w, "saveReview")
        /\ assessments' = [assessments EXCEPT ![s] = ai]
        /\ GoTo(w, NextPolicy(s, saved, job[w].manual, ai))
        /\ UNCHANGED <<kind, content, rows, messages, batch, events>>

\* apply_..._policy: SELECT ... FOR UPDATE OF se, judge, write.  Nobody else
\* writes the row in between.
ApplyPolicy(s, policy) ==
    rows' = IF rows[s] = None THEN rows
            ELSE [rows EXCEPT ![s] = WithOutcome(s, policy,
                    PolicyOutcome(policy, kind[s], content[s], rows[s], Assessment(s)))]

ApplyAiApproval(w) ==
    /\ At(w, "aiApproval")
    /\ ApplyPolicy(job[w].signal, "care_planning_ai_approval")
    /\ GoTo(w, "lawfulness")
    /\ UNCHANGED <<kind, content, assessments, messages, batch, events>>

ApplyLawfulness(w) ==
    /\ At(w, "lawfulness")
    /\ ApplyPolicy(job[w].signal, "care_planning_lawfulness_approval")
    /\ GoTo(w, "idle")
    /\ UNCHANGED <<kind, content, assessments, messages, batch, events>>

ApplySafeApproval(w) ==
    /\ At(w, "safeApproval")
    /\ ApplyPolicy(job[w].signal, "safe_approval")
    /\ GoTo(w, "idle")
    /\ UNCHANGED <<kind, content, assessments, messages, batch, events>>

\* An administrator asks for an assessment: the same steps, from get_raw_signal
\* on, without a message.
ReevaluateAiShadow(w, s) ==
    /\ At(w, "idle")
    /\ kind[s].source \in {"planning", "recruitment"}
    /\ Event
    /\ job' = [job EXCEPT ![w] = [Idle EXCEPT !.step = "assess", !.signal = s,
                                              !.content = content[s], !.manual = TRUE]]
    /\ UNCHANGED <<kind, content, rows, assessments, messages, batch>>

\* The record fails at any point and is delivered again, or a message that was
\* processed is delivered once more.
Fail(w) ==
    /\ ~At(w, "idle")
    /\ Event
    /\ messages' = IF job[w].manual THEN messages
                   ELSE [messages EXCEPT ![job[w].signal] = @ + 1]
    /\ GoTo(w, "idle")
    /\ UNCHANGED <<kind, content, rows, assessments, batch>>

Duplicate(s) ==
    /\ rows[s] # None
    /\ Event
    /\ messages' = [messages EXCEPT ![s] = @ + 1]
    /\ UNCHANGED <<kind, content, rows, assessments, job, batch>>
-----------------------------------------------------------------------------
(***************************************************************************)
(* Administrators                                                          *)
(***************************************************************************)

\* A bulk, and the tools that say pending_only, leave decided signals alone; a
\* single review writes whatever the status is.
ReviewSignals(some, status, pendingOnly) ==
    LET decides(s) == s \in some /\ rows[s] # None /\ (~pendingOnly \/ StillPending(s))
    IN  /\ Event
        /\ pendingOnly \/ \E s \in Signal : some = {s}
        /\ \E s \in some : decides(s)
        /\ rows' = [s \in Signal |->
                IF decides(s) THEN [rows[s] EXCEPT !.status = status, !.reviewedBy = "human"]
                ELSE rows[s]]
        /\ UNCHANGED <<kind, content, assessments, messages, job, batch>>

\* What a batch remembers of a row it read.
Item(s) == [signal |-> s, content |-> content[s], row |-> rows[s], ai |-> Assessment(s)]

Judged(policy, item) ==
    PolicyOutcome(policy, kind[item.signal], item.content, item.row, item.ai)

StartBatch(op, selected) ==
    /\ Event
    /\ batch = None
    /\ selected # {}
    /\ batch' = [op |-> op, todo |-> {Item(s) : s \in selected}]
    /\ UNCHANGED <<kind, content, rows, assessments, messages, job>>

\* A backlog: some of the signals a policy would decide, the first of a batch.
\* The nursery policies run only when the human decisions on like signals,
\* mostly ones that are not modelled here, agree with them.
StartBacklog(policy) ==
    \E selected \in SUBSET Signal :
        /\ \A s \in selected : rows[s] # None /\ Judged(policy, Item(s)) # "INELIGIBLE"
        /\ StartBatch(policy, selected)

FastpathBacklog == StartBacklog("care_planning_fastpath")
AiApprovalBacklog == StartBacklog("care_planning_ai_approval")
LawfulnessBacklog == StartBacklog("care_planning_lawfulness_approval")
SafeAgreementBulkApprove == StartBacklog("safe_approval")
LossBacklog == StartBacklog("nursery_planning_loss_review")
ArboricultureBacklog == StartBacklog("nursery_planning_arboriculture_review")
ExtensionBacklog == StartBacklog("nursery_planning_extension_review")
RoutineRecruitmentBacklog == StartBacklog("routine_recruitment_review")

CleanupRefused ==
    StartBatch("cleanup", {s \in Signal : /\ StillPending(s)
                                          /\ kind[s].source = "planning"
                                          /\ Refused(content[s])})

CleanupWithdrawn ==
    StartBatch("cleanup", {s \in Signal : /\ StillPending(s)
                                          /\ CarePlanning(s)
                                          /\ Withdrawn(content[s])})

ReprocessPlanning ==
    StartBatch("reprocess", {s \in Signal : rows[s] # None /\ kind[s].source = "planning"})

ReprocessRecruitment ==
    StartBatch("reprocess", {s \in Signal : rows[s] # None /\ kind[s].source = "recruitment"})

ReclassifyPending ==
    StartBatch("reclassify", {s \in Signal : StillPending(s) /\ CarePlanning(s)})

\* A page of signals, or those asked for, whatever their review status is.
RecalculateOpportunities ==
    \E selected \in SUBSET Signal :
        /\ \A s \in selected : kind[s].source \in {"planning", "recruitment"}
        /\ StartBatch("recalculate", selected)

Finish(done) ==
    batch' = IF batch.todo = done THEN None ELSE [batch EXCEPT !.todo = @ \ done]

Rejudging == {"safe_approval", "care_planning_fastpath", "care_planning_ai_approval",
              "care_planning_lawfulness_approval"}

\* One signal of a backlog.  Four policies are judged again under the lock; of
\* the nursery policies the decision made on the first reading is written.
ApplyBacklog(item) ==
    LET s == item.signal
    IN  /\ batch # None /\ batch.op \in Policy /\ item \in batch.todo
        /\ IF batch.op \in Rejudging THEN ApplyPolicy(s, batch.op)
           ELSE rows' = [rows EXCEPT ![s] = WithOutcome(s, batch.op, Judged(batch.op, item))]
        /\ Finish({item})
        /\ UNCHANGED <<kind, content, assessments, messages, job, events>>

\* One signal of a recalculation: what the content it read says is merged into
\* the facts of the row, if there is one, and the rest of the row is kept.
RecalculatedFrom(item, row) ==
    [row EXCEPT !.facts = Classified(item.signal, item.content)]

RecalculateFacts(item) ==
    LET s == item.signal
    IN  /\ batch # None /\ batch.op = "recalculate" /\ item \in batch.todo
        /\ rows' = IF rows[s] = None THEN rows
                   ELSE [rows EXCEPT ![s] = RecalculatedFrom(item, rows[s])]
        /\ Finish({item})
        /\ UNCHANGED <<kind, content, assessments, messages, job, events>>

\* The whole cleanup, reprocessing or reclassification commits at once.
WithFacts(item, markers) ==
    LET s == item.signal IN
    IF StillPending(s) /\ item.row.status = "PENDING"
    THEN [rows[s] EXCEPT !.facts = Classified(s, item.content), !.markers = markers]
    ELSE rows[s]

\* The facts that reclassification compares; the reasons go with the subtype.
ClassificationKeys(facts) ==
    <<facts.subtype, facts.explicitNewHome, facts.priorReference, facts.ambiguous, facts.action>>

Rewritten(item) ==
    CASE batch.op = "cleanup" -> AutoRejected(item.signal, item.content)
      [] batch.op = "reprocess" -> WithFacts(item, {})
      [] batch.op = "reclassify" ->     \* an unchanged classification is not written
            IF ClassificationKeys(item.row.facts)
                   = ClassificationKeys(Classified(item.signal, item.content))
            THEN rows[item.signal]
            ELSE WithFacts(item, {m \in item.row.markers : m.policy \in CareMarkers})

ApplyBatch ==
    /\ batch # None /\ batch.op \in {"cleanup", "reprocess", "reclassify"}
    /\ rows' = [s \in Signal |->
            IF \E item \in batch.todo : item.signal = s
            THEN Rewritten(CHOOSE item \in batch.todo : item.signal = s)
            ELSE rows[s]]
    /\ Finish(batch.todo)
    /\ UNCHANGED <<kind, content, assessments, messages, job, events>>
-----------------------------------------------------------------------------
Progress(w) ==
    \/ SaveEnrichment(w)
    \/ TriageOutcome(w)
    \/ Assess(w)
    \/ SaveAiReview(w)
    \/ ApplyAiApproval(w)
    \/ ApplyLawfulness(w)
    \/ ApplySafeApproval(w)

Next ==
    \/ \E s \in Signal, c \in Content : Revise(s, c)
    \/ \E w \in Worker, s \in Signal : Receive(w, s) \/ ReevaluateAiShadow(w, s)
    \/ \E w \in Worker : Progress(w) \/ Fail(w)
    \/ \E s \in Signal : Duplicate(s)
    \/ \E some \in SUBSET Signal, status \in {"APPROVED", "REJECTED"}, p \in BOOLEAN :
            ReviewSignals(some, status, p)
    \/ FastpathBacklog \/ AiApprovalBacklog \/ LawfulnessBacklog
    \/ SafeAgreementBulkApprove
    \/ LossBacklog \/ ArboricultureBacklog \/ ExtensionBacklog
    \/ RoutineRecruitmentBacklog
    \/ CleanupRefused \/ CleanupWithdrawn
    \/ ReprocessPlanning \/ ReprocessRecruitment \/ ReclassifyPending
    \/ RecalculateOpportunities
    \/ batch # None /\ \E item \in batch.todo : ApplyBacklog(item) \/ RecalculateFacts(item)
    \/ ApplyBatch

Spec == Init /\ [][Next]_vars

\* A Lambda that has a message runs on, and the queue delivers what is left.
Fairness ==
    /\ \A w \in Worker : WF_vars(Progress(w))
    /\ \A s \in Signal : WF_vars(\E w \in Worker : Receive(w, s))

FairSpec == Spec /\ Fairness
-----------------------------------------------------------------------------
(***************************************************************************)
(* Properties                                                              *)
(***************************************************************************)

RowOK(row) ==
    /\ row.status \in {"PENDING", "APPROVED", "REJECTED"}
    /\ row.reviewedBy \in {"NOBODY", "human", "system"}
    /\ row.status = "PENDING" <=> row.reviewedBy = "NOBODY"
    /\ row.facts.subtype \in Subtype \cup {"NONE"}
    /\ \A m \in row.markers : m.policy \in Marker
    /\ \A m, n \in row.markers : m.policy = n.policy => m = n

\* Every variable has its type: a row is signed exactly when it is decided, and
\* carries at most one marker per policy.
TypeOK ==
    /\ kind \in [Signal -> Kind]
    /\ content \in [Signal -> Content]
    /\ \A s \in Signal : rows[s] # None => RowOK(rows[s])
    /\ \A s \in Signal : assessments[s] # None => assessments[s].status \in {"SUCCEEDED", "FAILED"}
    /\ messages \in [Signal -> Nat]
    /\ \A w \in Worker : job[w].step \in Step
    /\ batch # None => \A item \in batch.todo : item.signal \in Signal
    /\ events \in 0..MaxEvents

\* The facts a recalculation writes: of the content that it read.
Recalculation(s) ==
    /\ batch # None /\ batch.op = "recalculate"
    /\ \E item \in batch.todo :
          item.signal = s /\ rows'[s].facts = Classified(s, item.content)

\* A decision is only ever replaced by a human: whatever an automatic policy,
\* a cleanup, a reprocessing or a recalculation read before, it leaves the
\* status and the signature of a signal decided in the meantime as they are.
\* What the decision was based on, its facts and the markers of the policies,
\* stays with it as well, except that a message rewrites those of an Ofsted
\* signal, and that recalculating the opportunities, which looks at no status,
\* brings the facts (and only them) to the content that it read.
DecisionsStand ==
    [][\A s \in Signal : rows[s] # None /\ rows[s].status # "PENDING" =>
            /\ \/ rows'[s].status = rows[s].status /\ rows'[s].reviewedBy = rows[s].reviewedBy
               \/ rows'[s].reviewedBy = "human"
            /\ \/ rows'[s].facts = rows[s].facts /\ rows'[s].markers = rows[s].markers
               \/ kind[s].source = "ofsted"
               \/ rows'[s].markers = rows[s].markers /\ Recalculation(s)]_vars

\* A signal that carries a QA holdout is decided by a human, or rejected for
\* the council's decision: no other policy approves or rejects it, although the
\* policies hold out different shares of the signals.
HeldOutIsForHumans ==
    [][\A s \in Signal :
        (/\ rows[s] # None /\ rows[s].status = "PENDING"
         /\ \E m \in rows[s].markers : m.outcome = "QA_HOLDOUT"
         /\ rows'[s].status # "PENDING")
        => \/ rows'[s].reviewedBy = "human"
           \/ [policy |-> "automatic_review", outcome |-> "REJECTED"] \in rows'[s].markers]_vars

DecidedByCouncil(s) ==
    /\ kind[s].source = "planning"
    /\ Refused(content[s]) \/ (CarePlanning(s) /\ Withdrawn(content[s]))

\* A refused application leaves the review inbox: once a message about it is
\* there, it is decided or its council reports another outcome.
RefusedLeavesInbox ==
    \A s \in Signal :
        (messages[s] > 0 /\ DecidedByCouncil(s)) ~>
            (rows[s] # None /\ rows[s].status # "PENDING") \/ ~DecidedByCouncil(s)

Awaits(s, policy) ==
    /\ rows[s] # None
    /\ PolicyOutcome(policy, kind[s], content[s], rows[s], Assessment(s)) # "INELIGIBLE"

\* Both Care policies come to a decision about what a message brings, also when
\* the message that saved the assessment failed right after it.
CareAssessmentIsJudged ==
    \A s \in Signal : \A p \in {"care_planning_ai_approval", "care_planning_lawfulness_approval"} :
        messages[s] > 0 ~> rows[s] # None /\ ~Awaits(s, p)
=============================================================================
