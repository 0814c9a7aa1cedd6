---------------------------- MODULE ReviewPolicies ----------------------------
(***************************************************************************)
(* The deterministic judgements about one signal: what its structured      *)
(* planning fields decide, how its text is classified, and which review    *)
(* policies may decide it without a human.                                 *)
(*                                                                         *)
(* A content stands for what a provider shows of a signal.  Its texts are  *)
(* abstracted to the patterns that match them (words) and its structured   *)
(* decision and status fields to the classes of values they hold (fields). *)
(***************************************************************************)
EXTENDS Naturals, FiniteSets

Vertical == {"NURSERY", "CHILDRENS_HOME"}
Source == {"planning", "recruitment", "ofsted", "procurement"}

\* The classes of wording that the pattern tables of each policy tell apart.
CarePlanningWords ==
    {"home", "changeToCare", "changeAwayFromCare", "explicitNew", "existing",
     "lawfulness", "proposed", "existingLawful", "variation", "discharge",
     "nonMaterial", "followUp", "materialCapacity", "retrospective", "mixedUse",
     "priorReference"}
CareWords == {"direct", "childContext", "residentialContext", "adult", "role",
              "openingTerms", "urn", "organisation"}
ProcurementWords == {"excluded", "home", "routine", "physicalNew", "operatorSearch",
                     "reprocurement", "newTerms", "awards", "engagement"}
NurseryPlanningWords == {"positive", "excluded", "schoolNursery", "schoolIncidental",
                         "schoolMaterial"}
ChangeWords == {"expansion", "opening", "relocation", "incidental", "childcareChange"}
RecruitmentWords == {"childcareRole", "teachingAssistant", "setting", "genericSchool",
                     "excluded", "openingTerms", "manager", "planningWords"}
FalsePositiveWords == {"childcare", "horticultural"}
TitleWords == {"titleLoss", "titleFollowUp", "titleTrees", "titleBuilding",
               "titleExtension", "titleOtherScheme"}
Word == CarePlanningWords \cup CareWords \cup ProcurementWords \cup NurseryPlanningWords
          \cup ChangeWords \cup RecruitmentWords \cup FalsePositiveWords \cup TitleWords

\* The classes of structured decisions and statuses.
FieldClass == {"appealAllowed", "appealDismissed", "activeAppeal", "refused",
               "withdrawn", "approved", "pending"}

PlanningOutcome == {"REFUSED", "WITHDRAWN", "APPROVED", "REFUSED_UNDER_APPEAL",
                    "APPEAL_ALLOWED", "APPEAL_DISMISSED", "PENDING", "UNKNOWN"}

\* Appeal evidence comes before the decision appealed against, and a
\* withdrawal before a refusal.  An appeal that says it is lodged against a
\* refusal matches "refused" as well.
CanonicalPlanningOutcome(c) ==
    LET has(class) == class \in c.fields IN
    CASE has("appealAllowed") -> "APPEAL_ALLOWED"
      [] ~has("appealAllowed") /\ has("appealDismissed") -> "APPEAL_DISMISSED"
      [] OTHER ->
          IF has("activeAppeal") /\ has("refused") THEN "REFUSED_UNDER_APPEAL"
          ELSE IF has("withdrawn") THEN "WITHDRAWN"
          ELSE IF has("refused") THEN "REFUSED"
          ELSE IF has("approved") THEN "APPROVED"
          ELSE IF has("pending") THEN "PENDING"
          ELSE "UNKNOWN"

Refused(c) == CanonicalPlanningOutcome(c) \in {"REFUSED", "APPEAL_DISMISSED"}
Withdrawn(c) == CanonicalPlanningOutcome(c) = "WITHDRAWN"
TerminalNegative(c) == Refused(c) \/ Withdrawn(c)

AllowsFastpath(c) == CanonicalPlanningOutcome(c) \in {"APPROVED", "PENDING"}
-----------------------------------------------------------------------------
(***************************************************************************)
(* Classification                                                          *)
(***************************************************************************)

Subtype == {"NEW_HOME_CHANGE_OF_USE", "NEW_HOME_OTHER_EXPLICIT",
            "NEW_HOME_MIXED_USE", "LAWFULNESS_PROPOSED", "LAWFULNESS_EXISTING",
            "EXPANSION_OR_CAPACITY_CHANGE", "CONDITION_VARIATION",
            "CONDITION_DISCHARGE", "NON_MATERIAL_AMENDMENT", "FOLLOW_UP_OTHER",
            "CESSATION_OR_CHANGE_AWAY_FROM_CARE", "REFUSED", "WITHDRAWN",
            "AMBIGUOUS"}

FollowUpSubtypes == {"LAWFULNESS_EXISTING", "CONDITION_VARIATION",
                     "CONDITION_DISCHARGE", "NON_MATERIAL_AMENDMENT",
                     "FOLLOW_UP_OTHER"}
NewHomeSubtypes == {"NEW_HOME_CHANGE_OF_USE", "NEW_HOME_OTHER_EXPLICIT",
                    "NEW_HOME_MIXED_USE"}

\* The wording of a proposed or existing lawful use.
LawfulnessSubtype(c) ==
    LET says(w) == w \in c.words IN
    IF says("existingLawful") /\ says("home") THEN "LAWFULNESS_EXISTING"
    ELSE IF ~says("existingLawful") /\ says("home")
              /\ (says("proposed") \/ says("changeToCare"))
         THEN "LAWFULNESS_PROPOSED"
    ELSE "AMBIGUOUS"

\* What the present application asks for: its procedural purpose wins over
\* quoted text about an earlier permission, and both over new-home wording.
ProposalSubtype(c) ==
    LET says(w) == w \in c.words
        established == says("existing") \/ says("retrospective")
    IN  IF says("nonMaterial") THEN "NON_MATERIAL_AMENDMENT"
        ELSE IF says("discharge") THEN "CONDITION_DISCHARGE"
        ELSE IF says("variation") THEN "CONDITION_VARIATION"
        ELSE IF says("changeAwayFromCare") THEN "CESSATION_OR_CHANGE_AWAY_FROM_CARE"
        ELSE IF says("lawfulness") THEN LawfulnessSubtype(c)
        ELSE IF says("home") /\ says("mixedUse") THEN "NEW_HOME_MIXED_USE"
        ELSE IF says("home") /\ says("materialCapacity") /\ established
             THEN "EXPANSION_OR_CAPACITY_CHANGE"
        ELSE IF says("followUp") \/ (says("home") /\ established) THEN "FOLLOW_UP_OTHER"
        ELSE IF says("home") /\ says("changeToCare") THEN "NEW_HOME_CHANGE_OF_USE"
        ELSE IF says("home") /\ says("explicitNew") THEN "NEW_HOME_OTHER_EXPLICIT"
        ELSE "AMBIGUOUS"

CarePlanningSubtype(c) ==
    LET outcome == CanonicalPlanningOutcome(c) IN
    CASE Refused(c) -> "REFUSED"
      [] Withdrawn(c) -> "WITHDRAWN"
      [] outcome \in {"REFUSED_UNDER_APPEAL", "APPEAL_ALLOWED"} -> "FOLLOW_UP_OTHER"
      [] OTHER -> ProposalSubtype(c)

ExplicitNewHome(subtype) == subtype \in NewHomeSubtypes \cup {"LAWFULNESS_PROPOSED"}

CarePlanningMatched(c) ==
    /\ "direct" \in c.words \/ {"childContext", "residentialContext"} \subseteq c.words
    /\ "adult" \notin c.words

\* The action of a Care planning signal on opportunities.
CarePlanningAction(c) ==
    LET subtype == CarePlanningSubtype(c)
        matched == CarePlanningMatched(c)
    IN  CASE subtype \in {"REFUSED", "WITHDRAWN", "CESSATION_OR_CHANGE_AWAY_FROM_CARE"} ->
                "IGNORE_FOR_OPPORTUNITY"
          [] subtype \in FollowUpSubtypes ->
                IF matched THEN "SUPPORT_EXISTING_ONLY" ELSE "IGNORE_FOR_OPPORTUNITY"
          [] subtype = "EXPANSION_OR_CAPACITY_CHANGE" ->
                IF matched THEN "SUPPORT_EXISTING_ONLY" ELSE "REVIEW"
          [] subtype \in NewHomeSubtypes \cup {"LAWFULNESS_PROPOSED"} ->
                IF matched THEN "CREATE_OPPORTUNITY" ELSE "REVIEW"
          [] subtype = "AMBIGUOUS" ->
                IF matched THEN "REVIEW" ELSE "IGNORE_FOR_OPPORTUNITY"

\* A facts record: what classify_signal leaves in extracted_facts that some
\* policy below reads.  Fields another source has do not apply to this one.
NoFacts == [subtype |-> "NONE", matched |-> FALSE, falsePositive |-> TRUE,
            action |-> "REVIEW", explicitNewHome |-> FALSE, fastpath |-> FALSE,
            ambiguous |-> FALSE, priorReference |-> FALSE, routine |-> FALSE]

CarePlanningFacts(c) ==
    LET subtype == CarePlanningSubtype(c)
    IN  [subtype |-> subtype,
         matched |-> CarePlanningMatched(c),
         falsePositive |-> ~CarePlanningMatched(c),
         action |-> CarePlanningAction(c),
         explicitNewHome |-> ExplicitNewHome(subtype),
         fastpath |-> AllowsFastpath(c),
         ambiguous |-> subtype = "AMBIGUOUS",
         priorReference |-> "priorReference" \in c.words,
         routine |-> FALSE]

\* A recruitment advertisement of a children's home.
CareRecruitmentMatched(c) ==
    /\ {"role", "home"} \subseteq c.words
    /\ "adult" \notin c.words

\* The commissioning category that the procurement collector stored.
ProcurementCategory(c) ==
    LET says(w) == w \in c.words IN
    IF says("excluded") \/ ~says("home") THEN "IRRELEVANT"
    ELSE IF says("routine") /\ ~(says("physicalNew") \/ says("operatorSearch"))
         THEN "ROUTINE_PLACEMENT_FRAMEWORK"
    ELSE IF says("reprocurement") /\ ~says("newTerms") THEN "EXISTING_SERVICE_REPROCUREMENT"
    ELSE IF says("awards") /\ (says("newTerms") \/ says("operatorSearch")) THEN "CONTRACT_AWARD"
    ELSE IF says("operatorSearch") THEN "OPERATOR_PROCUREMENT"
    ELSE IF says("newTerms") /\ says("engagement") THEN "NEW_CAPACITY_MARKET_ENGAGEMENT"
    ELSE IF says("newTerms") THEN "NEW_HOME_COMMISSIONING"
    ELSE "UNCERTAIN"

\* enrich_care_signal for the sources that have no planning subtype.
CareOtherFacts(source, c) ==
    LET matched == CASE source = "recruitment" -> CareRecruitmentMatched(c)
                     [] source = "ofsted" -> {"urn", "organisation"} \subseteq c.words
                     [] OTHER -> ProcurementCategory(c) # "IRRELEVANT"
        action == IF ~matched THEN "IGNORE_FOR_OPPORTUNITY"
                  ELSE IF source = "procurement" THEN "REVIEW"
                  ELSE IF source = "recruitment" /\ "openingTerms" \in c.words
                  THEN "CREATE_OPPORTUNITY"
                  ELSE "SUPPORT_EXISTING_ONLY"
    IN  [NoFacts EXCEPT !.matched = matched, !.falsePositive = ~matched,
                        !.action = action]

\* A horticultural nursery without childcare wording.
LikelyFalsePositive(c) == "horticultural" \in c.words /\ "childcare" \notin c.words

\* A school's nursery class counts when the proposal changes it materially.
SchoolExcluded(c) ==
    /\ "schoolNursery" \in c.words
    /\ \/ "schoolIncidental" \in c.words
       \/ {"schoolMaterial", "childcare"} \cap c.words = {}

NurseryPlanningMatched(c) ==
    /\ "positive" \in c.words
    /\ ~LikelyFalsePositive(c)
    /\ ~SchoolExcluded(c)
    /\ "excluded" \in c.words \/ "schoolIncidental" \in c.words => "childcare" \in c.words

\* "near the day nursery" is not evidence of an opening.
NurseryPlanningChange(c) ==
    IF ~NurseryPlanningMatched(c) THEN "OTHER_CHANGE"
    ELSE IF "expansion" \in c.words THEN "EXPANSION"
    ELSE IF "opening" \in c.words
              /\ ("incidental" \in c.words => "childcareChange" \in c.words)
         THEN "OPENING"
    ELSE IF "relocation" \in c.words THEN "RELOCATION"
    ELSE "OTHER_CHANGE"

NurseryPlanningFacts(c) ==
    LET matched == NurseryPlanningMatched(c)
    IN  [NoFacts EXCEPT
            !.matched = matched,
            !.falsePositive = ~matched,
            !.action = IF ~matched THEN "IGNORE_FOR_OPPORTUNITY"
                       ELSE IF NurseryPlanningChange(c) # "OTHER_CHANGE"
                       THEN "CREATE_OPPORTUNITY" ELSE "SUPPORT_EXISTING_ONLY"]

RecruitmentMatched(c) ==
    /\ "excluded" \notin c.words
    /\ "childcareRole" \in c.words \/ {"teachingAssistant", "setting"} \subseteq c.words

\* A generic role or a setting that is not named leaves the vacancy uncertain.
RecruitmentRelevance(c) ==
    IF ~RecruitmentMatched(c) THEN "IRRELEVANT"
    ELSE IF "openingTerms" \in c.words THEN "RELEVANT_CHANGE"
    ELSE IF "setting" \notin c.words /\ "genericSchool" \notin c.words THEN "UNCERTAIN"
    ELSE "RELEVANT_ROUTINE"

\* Classified recruitment-routine, without a weak sign of change (a manager or
\* a room leader is sought), an ambiguity or an exclusion.
RoutineRecruitment(c) ==
    /\ RecruitmentRelevance(c) = "RELEVANT_ROUTINE"
    /\ ~LikelyFalsePositive(c)
    /\ {"manager", "planningWords"} \cap c.words = {}
    /\ "teachingAssistant" \in c.words => "setting" \in c.words

NurseryRecruitmentFacts(c) ==
    LET relevance == RecruitmentRelevance(c)
        action == CASE LikelyFalsePositive(c) \/ relevance = "IRRELEVANT" ->
                            "IGNORE_FOR_OPPORTUNITY"
                    [] OTHER -> IF relevance = "RELEVANT_CHANGE" THEN "CREATE_OPPORTUNITY"
                                ELSE IF relevance = "RELEVANT_ROUTINE"
                                THEN "SUPPORT_EXISTING_ONLY" ELSE "REVIEW"
    IN  [NoFacts EXCEPT
            !.matched = RecruitmentMatched(c),
            !.falsePositive = LikelyFalsePositive(c),
            !.action = action,
            !.routine = RoutineRecruitment(c)]

\* policy_for(vertical).classify_signal
ClassifySignal(vertical, source, c) ==
    IF vertical = "CHILDRENS_HOME"
    THEN IF source = "planning" THEN CarePlanningFacts(c) ELSE CareOtherFacts(source, c)
    ELSE IF source = "planning" THEN NurseryPlanningFacts(c)
    ELSE IF source = "recruitment" THEN NurseryRecruitmentFacts(c)
    ELSE [NoFacts EXCEPT !.falsePositive = LikelyFalsePositive(c)]
-----------------------------------------------------------------------------
(***************************************************************************)
(* Review policies.  A signal is [vertical, source, bucket], bucket being  *)
(* its UUID modulo 20; a row is its signal_enrichments row, and ai its     *)
(* latest assessment.                                                      *)
(***************************************************************************)

\* A policy signs what it decides; a holdout is left for a human.
Marker == {"automatic_review", "safe_approval", "care_planning_fastpath",
           "care_planning_ai_approval", "care_planning_lawfulness_approval",
           "nursery_planning_loss_review", "nursery_planning_arboriculture_review",
           "nursery_planning_extension_review", "routine_recruitment_review"}

CareMarkers == {"automatic_review", "safe_approval", "care_planning_fastpath",
                "care_planning_ai_approval", "care_planning_lawfulness_approval"}

\* Confidence classes of an assessment: below 0.8, below 0.95, and above.
Confidence == {"low", "fair", "high"}
Recommendation == {"APPROVE", "REJECT", "NEEDS_HUMAN", "NONE"}

Marked(row, markers) == \E m \in row.markers : m.policy \in markers

\* The stable buckets: one in ten, and one in twenty, of all signals.
QaHoldout(signal, modulus) == signal.bucket % modulus = 0

Outcome(eligible, holdout, decision) ==
    IF ~eligible THEN "INELIGIBLE" ELSE IF holdout THEN "QA_HOLDOUT" ELSE decision

DeterministicRecommendation(facts) ==
    IF facts.falsePositive \/ ~facts.matched THEN "REJECT"
    ELSE IF facts.action \in {"CREATE_OPPORTUNITY", "SUPPORT_EXISTING_ONLY"}
    THEN "APPROVE" ELSE "NEEDS_HUMAN"

\* review_triage_bucket = SAFE_APPROVE_AGREEMENT or QA_HOLDOUT_SAFE_AGREEMENT.
SafeApprovalCandidate(signal, c, row, ai) ==
    /\ signal.vertical = "NURSERY" /\ signal.source = "planning"
    /\ ~Refused(c)
    /\ row.status = "PENDING"
    /\ \/ [policy |-> "safe_approval", outcome |-> "QA_HOLDOUT"] \in row.markers
       \/ /\ ai.status = "SUCCEEDED" /\ ai.recommendation = "APPROVE"
          /\ ai.confidence = "high"
          /\ DeterministicRecommendation(row.facts) = "APPROVE"

RoutineRecruitmentCandidate(signal, row) ==
    /\ signal.vertical = "NURSERY" /\ signal.source = "recruitment"
    /\ row.status = "PENDING"
    /\ row.facts.routine

\* The three nursery policies that read the title.
NurseryPlanningPending(signal, row) ==
    /\ signal.vertical = "NURSERY" /\ signal.source = "planning"
    /\ row.status = "PENDING"

NurseryLossCandidate(signal, c, row) ==
    /\ NurseryPlanningPending(signal, row)
    /\ "titleLoss" \in c.words /\ "titleFollowUp" \notin c.words

NurseryArboricultureCandidate(signal, c, row, ai) ==
    /\ NurseryPlanningPending(signal, row)
    /\ DeterministicRecommendation(row.facts) = "APPROVE"
    /\ ai.status = "SUCCEEDED" /\ ai.recommendation = "REJECT"
    /\ ai.confidence \in {"fair", "high"}
    /\ "titleTrees" \in c.words /\ "titleBuilding" \notin c.words

NurseryExtensionCandidate(signal, c, row) ==
    /\ NurseryPlanningPending(signal, row)
    /\ "titleExtension" \in c.words /\ "titleOtherScheme" \notin c.words

CarePlanningPending(signal, row) ==
    /\ signal.vertical = "CHILDRENS_HOME" /\ signal.source = "planning"
    /\ row.status = "PENDING"

\* The fast path judges the outcome twice: in the stored facts and now.
FastpathEligible(signal, c, row) ==
    /\ ~TerminalNegative(c)
    /\ CarePlanningPending(signal, row)
    /\ row.facts.subtype \in {"NEW_HOME_CHANGE_OF_USE", "NEW_HOME_OTHER_EXPLICIT"}
    /\ row.facts.matched
    /\ row.facts.action = "CREATE_OPPORTUNITY"
    /\ row.facts.explicitNewHome
    /\ row.facts.fastpath
    /\ ~row.facts.falsePositive
    /\ ~row.facts.ambiguous

\* What the two policies that rest on an assessment have in common.
AssessedPendingBug(signal, row, ai) ==    \* (Bug: an earlier marker is ignored.)
    /\ CarePlanningPending(signal, row)
    /\ row.reviewedBy = "NOBODY"
    /\ ai.status = "SUCCEEDED" /\ ai.recommendation = "APPROVE"
    /\ ai.confidence = "high"
AssessedPending(signal, row, ai) ==
    /\ CarePlanningPending(signal, row)
    /\ row.reviewedBy = "NOBODY"
    /\ ~Marked(row, CareMarkers)
    /\ ai.status = "SUCCEEDED" /\ ai.recommendation = "APPROVE"
    /\ ai.confidence = "high"

AiApprovalEligible(signal, c, row, ai) ==
    /\ AssessedPending(signal, row, ai)
    /\ ~TerminalNegative(c)
    /\ CanonicalPlanningOutcome(c) # "REFUSED_UNDER_APPEAL"
    /\ row.facts.subtype \in {"NEW_HOME_CHANGE_OF_USE", "NEW_HOME_OTHER_EXPLICIT"}
    /\ ~row.facts.falsePositive
    /\ ~row.facts.ambiguous

LawfulnessEligible(signal, c, row, ai) ==
    /\ AssessedPending(signal, row, ai)
    /\ row.facts.subtype = "LAWFULNESS_PROPOSED"
    /\ CanonicalPlanningOutcome(c) = "APPROVED"
    /\ row.facts.action = "CREATE_OPPORTUNITY"
    /\ row.facts.explicitNewHome
    /\ ~row.facts.falsePositive
    /\ ~row.facts.ambiguous
    /\ ~row.facts.priorReference

Policy == Marker \ {"automatic_review"}

\* The outcome of a policy for a signal.
PolicyOutcome(policy, signal, c, row, ai) ==
    CASE policy = "safe_approval" ->
            Outcome(SafeApprovalCandidate(signal, c, row, ai),
                    QaHoldout(signal, 10), "APPROVED")
      [] policy = "care_planning_fastpath" ->
            Outcome(FastpathEligible(signal, c, row), QaHoldout(signal, 10), "APPROVED")
      [] policy = "care_planning_ai_approval" ->
            Outcome(AiApprovalEligible(signal, c, row, ai),
                    QaHoldout(signal, 20), "APPROVED")
      [] policy = "care_planning_lawfulness_approval" ->
            Outcome(LawfulnessEligible(signal, c, row, ai),
                    QaHoldout(signal, 10), "APPROVED")
      [] policy = "nursery_planning_loss_review" ->
            Outcome(NurseryLossCandidate(signal, c, row), QaHoldout(signal, 10), "REJECTED")
      [] policy = "nursery_planning_arboriculture_review" ->
            Outcome(NurseryArboricultureCandidate(signal, c, row, ai),
                    QaHoldout(signal, 10), "REJECTED")
      [] policy = "nursery_planning_extension_review" ->
            Outcome(NurseryExtensionCandidate(signal, c, row),
                    QaHoldout(signal, 10), "APPROVED")
      [] policy = "routine_recruitment_review" ->
            Outcome(RoutineRecruitmentCandidate(signal, row),
                    QaHoldout(signal, 10), "APPROVED")

\* The assessment a model returned, as far as it may stand: a refused or
\* withdrawn Care planning application is never recommended.
Guarded(signal, c, verdict) ==
    IF /\ verdict.status = "SUCCEEDED"
       /\ signal.vertical = "CHILDRENS_HOME" /\ signal.source = "planning"
       /\ TerminalNegative(c)
    THEN [verdict EXCEPT !.recommendation = "REJECT"]
    ELSE verdict
=============================================================================
