-------------------------- MODULE OpportunityMatching --------------------------
(***************************************************************************)
(* How signals become opportunities: the worker reconciles a planning      *)
(* signal's family, matches the signal with an opportunity or creates one, *)
(* and reconciles again; maintenance consolidates duplicates, closes match *)
(* reviews and matches stored signals once more; administrators link,      *)
(* unlink, create, merge and split behind all of it.                       *)
(*                                                                         *)
(* Every transaction that reads before it writes is two steps, what it     *)
(* read kept in the job's plan: the database runs them at READ COMMITTED,  *)
(* so another transaction may commit in between unless a lock keeps it     *)
(* out (one advisory lock per signal matched, one for consolidations, and  *)
(* the rows of the families a reconciliation upserts).                     *)
(*                                                                         *)
(* Signals are numbered in the order they were discovered.  What a signal  *)
(* says does not change here: SignalIngestion has revisions, SignalReview  *)
(* the decisions, OriginRecovery the search for missing origins.           *)
(***************************************************************************)
EXTENDS Naturals, FiniteSets, FiniteSetsExt

CONSTANTS
    Signal,         \* 1..n, in the order of discovery
    Opportunity,    \* 1..n, in the order of creation: a bound
    Worker,         \* jobs that may run at once
    Reference,      \* planning application references, scoped by authority
    Scene           \* what the signals may say, and bounds that go with it

VARIABLES
    scene,          \* what the signals do say: it never changes
    queue,          \* signals with an enrichment message not yet deleted
    enriched,       \* signals with an enrichment
    approved,       \* signals whose review is APPROVED
    opportunity,    \* the rows of opportunities
    link,           \* opportunity_signals: one row or none for each pair
    overridden,     \* opportunities with an ADMIN row in the link history
    review,         \* opportunity_match_reviews
    family,         \* relationships of each planning application family
    job,            \* what each worker is doing
    admin,          \* a request of an administrator, checked and not written
    events

rows == <<opportunity, link, overridden, review>>
vars == <<scene, queue, enriched, approved, rows, family, job, admin, events>>

SignalClass == {"origin", "followup", "change", "routine", "irrelevant"}

ASSUME SignalsAssumption ==
    /\ Signal \subseteq Nat \ {0} /\ Opportunity \subseteq Nat \ {0}
    /\ IsFiniteSet(Signal) /\ IsFiniteSet(Opportunity)
    /\ "none" \notin Reference
    /\ \A c \in Scene :
           /\ c.signals \subseteq Signal /\ c.opportunities \subseteq Opportunity
           /\ c.class \in [Signal -> SignalClass]
           /\ c.primary \in [Signal -> Reference \cup {"none"}]
           /\ c.prior \in [Signal -> SUBSET Reference]
           /\ c.maxEvents \in Nat

Class == scene.class            \* what each signal is classified as
Primary == scene.primary        \* the reference each signal is the application of
Prior == scene.prior            \* the references each signal mentions
Postcode == scene.postcode      \* of each signal's site
Operator == scene.operator      \* of each signal's site
MaxEvents == scene.maxEvents    \* a bound: actions of administrators and of maintenance

-----------------------------------------------------------------------------
(* What the rows are and what is read from them. *)

IsPlanning(s) == Class[s] \in {"origin", "followup"}

\* The creation decision of the vertical's policy.
Creation(s) ==
    CASE Class[s] \in {"origin", "change"} -> "CREATE_OPPORTUNITY"
      [] Class[s] \in {"followup", "routine"} -> "SUPPORT_EXISTING_ONLY"
      [] OTHER -> "IGNORE_FOR_OPPORTUNITY"

ChangeType(s) == IF Creation(s) = "CREATE_OPPORTUNITY" THEN "OPENING" ELSE "OTHER_CHANGE"

\* A link the system made is CREATED (the opportunity was made for the signal)
\* or MATCHED; one an administrator made or revived is ADMIN.
Maker == {"CREATED", "MATCHED", "ADMIN"}
NoLink == [status |-> "none", by |-> "none"]
LinkRow == {NoLink} \cup [status: {"ACTIVE", "REJECTED"}, by: Maker]
ActiveLink(by) == [status |-> "ACTIVE", by |-> by]
Rejected(row) == [row EXCEPT !.status = "REJECTED"]
Status == {"none", "UNREVIEWED", "MERGED", "REJECTED"}
OpportunityRow == [status: Status, into: Opportunity \cup {0}, site: Signal \cup {0},
                   change: {"none", "OPENING", "OTHER_CHANGE"}]
NoRow == [status |-> "none", into |-> 0, site |-> 0, change |-> "none"]

ActiveOf(s) == {o \in Opportunity : link[o][s].status = "ACTIVE"}
ActiveIn(o) == {s \in Signal : link[o][s].status = "ACTIVE"}
Blocked(o, s) == link[o][s].status = "REJECTED"
Current == {o \in Opportunity : opportunity[o].status = "UNREVIEWED"}
Unused == {o \in scene.opportunities : opportunity[o].status = "none"}

\* The current record a merged opportunity leads to, 0 in a cycle.
CanonicalOpportunity(o) ==
    LET follow[n \in 0..Cardinality(Opportunity), p \in Opportunity] ==
            IF opportunity[p].status # "MERGED" THEN p
            ELSE IF n = 0 THEN 0 ELSE follow[n - 1, opportunity[p].into]
    IN follow[Cardinality(Opportunity), o]

MarkMergedBug(row, target) == [row EXCEPT !.status = "MERGED"]
MarkMerged(row, target) == [row EXCEPT !.status = "MERGED", !.into = target]

-----------------------------------------------------------------------------
(* Jobs. *)

Idle == [op |-> "idle", step |-> "idle", signal |-> 0, plan |-> {}]

At(w, step) == job[w].step = step

\* The step of a job that follows the one it is at: a planning signal's family
\* is reconciled before matching and once more after it.
NextStepBug(op, step, s) ==
    CASE step = "attach" /\ op = "reconcile" -> "idle"
      [] step = "attach" /\ op = "message" -> "match"
      [] step = "link" /\ op = "message" -> "deleted"
      [] step = "link" /\ op \in {"recalculate", "approved"} -> "idle"
NextStep(op, step, s) ==
    CASE step = "attach" /\ op = "reconcile" -> "idle"
      [] step = "attach" /\ op = "message" -> "match"
      [] step = "link" /\ op = "message" /\ IsPlanning(s) -> "family2"
      [] step = "link" /\ op = "message" /\ ~IsPlanning(s) -> "deleted"
      [] step = "link" /\ op \in {"recalculate", "approved"} -> "idle"
      [] step = "attach2" -> "deleted"

Goes(w, step, plan) ==
    job' = [job EXCEPT ![w] =
               [op |-> job[w].op, step |-> step, signal |-> job[w].signal, plan |-> plan]]

Stop(w) == job' = [job EXCEPT ![w] = Idle]

\* The job goes on, or ends: a message is deleted when all its work is done.
Continue(w) ==
    LET next == NextStep(job[w].op, job[w].step, job[w].signal) IN
    /\ IF next \in {"idle", "deleted"} THEN Stop(w) ELSE Goes(w, next, {})
    /\ queue' = IF next = "deleted" THEN queue \ {job[w].signal} ELSE queue

Start(w, op, step, s, plan) ==
    /\ job[w].op = "idle"
    /\ job' = [job EXCEPT ![w] = [op |-> op, step |-> step, signal |-> s, plan |-> plan]]

\* What maintenance and administrators may do, and how much of it, is bounded.
Event(kind) == kind \in scene.kinds /\ events < MaxEvents /\ events' = events + 1

-----------------------------------------------------------------------------
(* Planning families. *)

Indexed(r) == {s \in Signal : Primary[s] = r /\ s \in family[r].primary}
References(s) == Prior[s] \ {Primary[s]}
FamiliesOf(s) == References(s) \cup ({Primary[s]} \ {"none"})

\* The upsert of a family's row holds it until the reconciliation commits.
FamiliesFree(s) ==
    \A w \in Worker : job[w].step \in {"attach", "attach2"} =>
                          FamiliesOf(job[w].signal) \cap FamiliesOf(s) = {}

\* What a family attaches once its origin is known: the follow-ups without an
\* opportunity to the origin's, or an approved origin without one to those of
\* its follow-ups.  Nothing is attached to an origin with several.
AttachFamilySupport(r, origin, followups) ==
    LET mine == ActiveOf(origin)
        support == {f \in followups : Class[f] = "followup"}
    IN  IF Cardinality(mine) > 1 THEN {}
        ELSE IF mine # {} THEN
            {p \in mine \X support : ActiveOf(p[2]) = {} /\ ~Blocked(p[1], p[2])}
        ELSE {<<o, origin>> : o \in {p \in Opportunity :
                  /\ \E f \in support : ActiveOf(f) = {p}
                  /\ ~Blocked(p, origin)
                  /\ origin \in approved}}

\* All that one reconciliation of s attaches: to its own family as the
\* foundational application, and to each family it mentions whose single
\* foundational application is stored.
FamilyPlan(s) ==
    (IF Class[s] = "origin" /\ Primary[s] # "none"
     THEN AttachFamilySupport(Primary[s], s, family[Primary[s]].references) ELSE {})
    \cup UNION {
        LET foundations == {t \in Indexed(r) \ {s} : Class[t] = "origin"} IN
        IF Cardinality(foundations) = 1
        THEN AttachFamilySupport(r, CHOOSE t \in foundations : TRUE,
                                 family[r].references \cup {s})
        ELSE {} : r \in References(s)}

ReconcileReads(w) ==
    LET s == job[w].signal IN
    /\ At(w, "family") \/ At(w, "family2")
    /\ FamiliesFree(s)
    /\ Goes(w, IF At(w, "family") THEN "attach" ELSE "attach2", FamilyPlan(s))
    /\ UNCHANGED <<scene, queue, enriched, approved, rows, family, admin, events>>

\* INSERT ... ON CONFLICT DO NOTHING: a row that is there stays as it is.
InsertLinksBug(pairs) ==
    [o \in Opportunity |-> [s \in Signal |->
        IF <<o, s>> \in pairs THEN ActiveLink("MATCHED") ELSE link[o][s]]]
InsertLinks(pairs) ==
    [o \in Opportunity |-> [s \in Signal |->
        IF <<o, s>> \in pairs /\ link[o][s] = NoLink THEN ActiveLink("MATCHED")
        ELSE link[o][s]]]

ReconcileWrites(w) ==
    LET s == job[w].signal IN
    /\ At(w, "attach") \/ At(w, "attach2")
    /\ link' = InsertLinks(job[w].plan)
    /\ family' = [r \in Reference |->
           [primary |-> family[r].primary
                \cup (IF r = Primary[s] THEN {s} ELSE {})
                \cup (IF r \in References(s) /\ Cardinality({t \in Indexed(r) \ {s} :
                                                      Class[t] = "origin"}) = 1
                      THEN {t \in Indexed(r) \ {s} : Class[t] = "origin"} ELSE {}),
            references |-> family[r].references \cup (IF r \in References(s) THEN {s} ELSE {})]]
    /\ Continue(w)
    /\ UNCHANGED <<scene, enriched, approved, opportunity, overridden, review, admin, events>>

-----------------------------------------------------------------------------
(* Matching one signal. *)

\* Opportunities with an active signal of the family the signal is part of.
FamilyMatches(s) ==
    IF Primary[s] = "none" THEN {}
    ELSE {o \in Current : ActiveIn(o) \cap
              (family[Primary[s]].primary \cup family[Primary[s]].references) # {}}

\* Links of the stored applications that the signal mentions.
ReferencedLinks(s) ==
    {p \in Current \X Signal :
        /\ p[2] \in ActiveIn(p[1]) /\ IsPlanning(p[2])
        /\ \E r \in Prior[s] : p[2] \in Indexed(r)}

\* The site an opportunity is compared by: that of the first discovered signal
\* linked with it, whatever the link's status, and else the one it was made with.
SiteSignal(o) ==
    LET linked == {s \in Signal : link[o][s] # NoLink}
    IN  IF linked # {} THEN Min(linked) ELSE opportunity[o].site

SamePostcode(o, s) == Postcode[SiteSignal(o)] = Postcode[s]
SameOperator(o, s) == Operator[SiteSignal(o)] = Operator[s]
IdentityMatches(s) == {o \in Current : SamePostcode(o, s) /\ SameOperator(o, s)}
PossibleMatches(s) == {o \in Current : SamePostcode(o, s) /\ ~SameOperator(o, s)}

\* A single match by family comes before a single one by reference, and both
\* before one by identity, where the opportunity updated last that is not
\* blocked wins: any of them here.
Single(set, s) == IF Cardinality(set) = 1 THEN {o \in set : ~Blocked(o, s)} ELSE {}

KnownMatches(s) ==
    LET byFamily == IF IsPlanning(s) THEN Single(FamilyMatches(s), s) ELSE {}
        byReference == IF IsPlanning(s) /\ Cardinality(ReferencedLinks(s)) = 1
                       THEN {o \in Current : ~Blocked(o, s) /\
                                \E t \in Signal : <<o, t>> \in ReferencedLinks(s)}
                       ELSE {}
    IN  IF byFamily # {} THEN byFamily ELSE byReference

Matches(s) ==
    IF KnownMatches(s) # {} THEN KnownMatches(s)
    ELSE {o \in IdentityMatches(s) : ~Blocked(o, s)}

\* What is only suggested: several opportunities of the family or of a
\* reference, and those of the same postcode alone that were compared before
\* the match was found.
Uncertain(s, match) ==
    LET known == IF ~IsPlanning(s) THEN {}
                 ELSE (IF Cardinality(FamilyMatches(s)) > 1 THEN FamilyMatches(s) ELSE {})
                      \cup (IF Cardinality(ReferencedLinks(s)) > 1
                            THEN {p[1] : p \in ReferencedLinks(s)} ELSE {})
    IN  IF KnownMatches(s) # {} THEN {{}}
        ELSE IF match = 0 THEN {known \cup PossibleMatches(s)}
        ELSE {known \cup compared : compared \in SUBSET PossibleMatches(s)}

\* The advisory lock of the signal is held from the first read to the commit.
SignalFreeBug(s) == TRUE
SignalFree(s) == \A w \in Worker : ~(At(w, "link") /\ job[w].signal = s)

\* A signal with an active link keeps it, and one that neither creates nor
\* supports is left alone: the job is done with matching either way.
NothingToMatch(s) == ActiveOf(s) # {} \/ Creation(s) = "IGNORE_FOR_OPPORTUNITY"

MatchReads(w) ==
    LET s == job[w].signal IN
    /\ At(w, "match")
    /\ SignalFree(s)
    /\ ~NothingToMatch(s)
    /\ \E match \in IF Matches(s) = {} THEN {0} ELSE Matches(s) :
           \E uncertain \in Uncertain(s, match) :
               Goes(w, "link", [match |-> match, uncertain |-> uncertain])
    /\ UNCHANGED <<scene, queue, enriched, approved, rows, family, admin, events>>

MatchEnds(w) ==
    /\ At(w, "match")
    /\ SignalFree(job[w].signal)
    /\ NothingToMatch(job[w].signal)
    /\ LET after == NextStep(job[w].op, "link", job[w].signal) IN
       /\ IF after = "family2" THEN Goes(w, after, {}) ELSE Stop(w)
       /\ queue' = IF after = "deleted" THEN queue \ {job[w].signal} ELSE queue
    /\ UNCHANGED <<scene, enriched, approved, rows, family, admin, events>>

\* Suggestions for a human, once for each pair.  The first three in the code,
\* which no instance here exceeds.
SuggestMatches(s, possible) ==
    [o \in Opportunity |-> [review[o] EXCEPT ![s] =
        IF o \in possible /\ CanonicalOpportunity(o) = o /\ review[o][s] = "none"
        THEN "PENDING" ELSE review[o][s]]]

\* The signal is linked with the match read, with a new opportunity, or only
\* suggested.  The match is not read again: it may be merged by now.
MatchWrites(w) ==
    LET s == job[w].signal
        plan == job[w].plan
        creates == plan.match = 0 /\ Creation(s) = "CREATE_OPPORTUNITY"
        new == Min(Unused)
    IN
    /\ At(w, "link")
    /\ creates => Unused # {}
    /\ IF creates
       THEN /\ opportunity' = [opportunity EXCEPT ![new] =
                  [status |-> "UNREVIEWED", into |-> 0, site |-> s, change |-> ChangeType(s)]]
            /\ link' = [link EXCEPT ![new][s] = ActiveLink("CREATED")]
       ELSE /\ UNCHANGED opportunity
            /\ link' = InsertLinks({<<plan.match, s>>})
    /\ review' = SuggestMatches(s, IF creates \/ plan.match # 0
                                   THEN {o \in plan.uncertain : link'[o][s].status # "ACTIVE"}
                                   ELSE plan.uncertain)
    /\ Continue(w)
    /\ UNCHANGED <<scene, enriched, approved, overridden, family, admin, events>>

-----------------------------------------------------------------------------
(* Messages and their redelivery. *)

\* A message may be delivered while another worker still has it.
TakeMessage(w, s) ==
    /\ s \in queue
    /\ Start(w, "message", IF IsPlanning(s) THEN "family" ELSE "match", s, {})
    /\ enriched' = enriched \cup {s}
    /\ UNCHANGED <<scene, queue, approved, rows, family, admin, events>>

\* The job fails or its process dies: what it committed stays, what it had
\* not is rolled back, and the queue delivers its message again.
Fail(w) ==
    /\ job[w].op # "idle"
    /\ Stop(w)
    /\ UNCHANGED <<scene, queue, enriched, approved, rows, family, admin, events>>

\* The signal is sent to the enrichment queue again (a duplicate or a replay).
SendAgain(s) ==
    /\ s \notin queue
    /\ Event("replay")
    /\ queue' = queue \cup {s}
    /\ UNCHANGED <<scene, enriched, approved, rows, family, job, admin>>

\* A review policy or an administrator approves the signal (see SignalReview).
\* Only an origin's and routine recruitment's approval is read here.
Approve(s) ==
    /\ s \in enriched \ approved /\ Class[s] \in {"origin", "routine"}
    /\ approved' = approved \cup {s}
    /\ UNCHANGED <<scene, queue, enriched, rows, family, job, admin, events>>

-----------------------------------------------------------------------------
(* Maintenance. *)

\* Stored families reconciled once more, one signal in a transaction.
ReconcileStored(w, s) ==
    /\ IsPlanning(s) /\ s \in enriched
    /\ Event("reconcile")
    /\ Start(w, "reconcile", "family", s, {})
    /\ UNCHANGED <<scene, queue, enriched, approved, rows, family, admin>>

\* Approved routine recruitment is matched after its review.
CorrelateApproved(w, s) ==
    /\ Class[s] = "routine" /\ s \in approved
    /\ Event("approved")
    /\ Start(w, "approved", "match", s, {})
    /\ UNCHANGED <<scene, queue, enriched, approved, rows, family, admin>>

\* Two current opportunities are alike when they share a signal, or a postcode,
\* an operator and a change type.
Alike(o, p) ==
    /\ opportunity[o].change = opportunity[p].change
    /\ \/ ActiveIn(o) \cap ActiveIn(p) # {}
       \/ /\ Postcode[opportunity[o].site] = Postcode[opportunity[p].site]
          /\ Operator[opportunity[o].site] = Operator[opportunity[p].site]

\* A group is left alone when one of its opportunities has an active link or a
\* decision of an administrator.
SystemOwned(group) ==
    \A o \in group :
        /\ \A s \in ActiveIn(o) : link[o][s].by # "ADMIN"
        /\ ~overridden[o]
        /\ \A s \in Signal : review[o][s] # "REJECTED"

\* The opportunity each duplicate is to be merged into, 0 for the others: the
\* earliest of its group that is not itself merged.
ConsolidationPlan(into) ==
    \A o \in Opportunity :
        LET group(t) == {p \in Current : Alike(t, p) /\ Alike(p, o)}
            targets == {t \in Current : /\ t < o /\ o \in Current /\ Alike(t, o)
                                       /\ into[t] = 0
                                       /\ SystemOwned(group(t))}
        IN into[o] = IF targets = {} THEN 0 ELSE Min(targets)

RecalculateStarts(w, s) ==
    /\ s \in enriched
    /\ \A v \in Worker : ~At(v, "merge")
    /\ Event("recalculate")
    /\ \E into \in [Opportunity -> Opportunity \cup {0}] :
           ConsolidationPlan(into) /\ Start(w, "recalculate", "merge", s, into)
    /\ UNCHANGED <<scene, queue, enriched, approved, rows, family, admin>>

\* The links that move to t, read again when they are moved.
Moved(plan, t) == {s \in Signal : \E o \in Opportunity : plan[o] = t /\ s \in ActiveIn(o)}

\* A moved signal is inserted at the target unless it is active there.  A row
\* the target has for it, rejected, refuses the insertion: nothing is merged
\* and the recalculation fails.
InsertRefusedBug(plan) == FALSE
InsertRefused(plan) ==
    \E t \in Opportunity : \E s \in Moved(plan, t) : Blocked(t, s)

Merged(plan) ==
    [o \in Opportunity |-> [s \in Signal |->
        IF plan[o] # 0 /\ s \in ActiveIn(o) THEN Rejected(link[o][s])
        ELSE IF s \in Moved(plan, o) /\ link[o][s] = NoLink
        THEN ActiveLink(IF \E p \in Opportunity : plan[p] = o /\ link[p][s] = ActiveLink("CREATED")
                        THEN "CREATED" ELSE "MATCHED")
        ELSE link[o][s]]]

ConsolidateSystemDuplicates(w) ==
    LET plan == job[w].plan IN
    /\ At(w, "merge")
    /\ IF InsertRefused(plan)
       THEN /\ Stop(w)
            /\ UNCHANGED rows
       ELSE /\ link' = Merged(plan)
            /\ opportunity' = [o \in Opportunity |->
                   IF plan[o] # 0 THEN MarkMerged(opportunity[o], plan[o]) ELSE opportunity[o]]
            /\ Goes(w, "cleanup", {})
            /\ UNCHANGED <<scene, overridden, review>>
    /\ UNCHANGED <<scene, queue, enriched, approved, family, admin, events>>

\* Pending suggestions whose opportunity is superseded or whose signal is linked.
CleanupMatchReviews(w) ==
    /\ At(w, "cleanup")
    /\ review' = [o \in Opportunity |-> [s \in Signal |->
           IF review[o][s] = "PENDING" /\ (CanonicalOpportunity(o) # o \/ ActiveOf(s) # {})
           THEN "SUPERSEDED" ELSE review[o][s]]]
    /\ Goes(w, "facts", {})
    /\ UNCHANGED <<scene, queue, enriched, approved, opportunity, link, overridden, family,
                   admin, events>>

\* The facts of the signal are derived once more and then read: they are those
\* it has, as no content changes here (SignalReview has the rewriting of facts).
\* An opportunity that routine recruitment alone supports is rejected with its
\* link; one the system linked to evidence of a change takes its change type.
RecalculateFacts(w) ==
    LET s == job[w].signal
        systems == {o \in ActiveOf(s) : link[o][s].by # "ADMIN" /\ ~overridden[o]}
        demoted == IF Class[s] = "routine" THEN {o \in systems : ActiveIn(o) = {s}} ELSE {}
    IN
    /\ At(w, "facts")
    /\ link' = [o \in Opportunity |->
           IF o \in demoted THEN [link[o] EXCEPT ![s] = Rejected(link[o][s])] ELSE link[o]]
    /\ opportunity' = [o \in Opportunity |->
           IF o \in demoted THEN [opportunity[o] EXCEPT !.status = "REJECTED"]
           ELSE IF o \in systems /\ Creation(s) = "CREATE_OPPORTUNITY"
           THEN [opportunity[o] EXCEPT !.change = ChangeType(s)]
           ELSE opportunity[o]]
    /\ Goes(w, "match", {})
    /\ UNCHANGED <<scene, queue, enriched, approved, overridden, review, family, admin, events>>

-----------------------------------------------------------------------------
(* Administrators.  A request is checked and then written in one transaction *)
(* that locks nothing, so what it checked may have changed in between.       *)

NoRequest == [op |-> "none", o |-> 0, p |-> 0, s |-> 0]
Request(op, o, p, s) == admin' = [op |-> op, o |-> o, p |-> p, s |-> s]
Answered == admin' = NoRequest

\* _archive_relationship writes an ADMIN row only of a pair that has a link.
Overridden(pairs) ==
    overridden' = [o \in Opportunity |-> overridden[o] \/ \E s \in Signal :
                                            <<o, s>> \in pairs /\ link[o][s] # NoLink]

CheckRequest ==
    /\ admin = NoRequest
    /\ \/ \E o \in Current, s \in enriched : Event("link") /\ Request("link", o, 0, s)
       \/ \E o, p \in Current : o # p /\ Event("merge") /\ Request("merge", o, p, 0)
       \/ \E s \in enriched :
              ActiveOf(s) = {} /\ Event("create") /\ Request("create", 0, 0, s)
       \/ \E o \in Opportunity, s \in Signal :
              review[o][s] = "PENDING" /\ Event("review") /\ Request("accept", o, 0, s)
    /\ UNCHANGED <<scene, queue, enriched, approved, rows, family, job>>

LinkSignal ==
    LET o == admin.o s == admin.s IN
    /\ admin.op = "link"
    /\ link' = [link EXCEPT ![o][s] = ActiveLink("ADMIN")]
    /\ Overridden({<<o, s>>})
    /\ Answered
    /\ UNCHANGED <<scene, queue, enriched, approved, opportunity, review, family, job, events>>

CreateOpportunityFromSignal ==
    LET s == admin.s new == Min(Unused) IN
    /\ admin.op = "create" /\ Unused # {}
    /\ opportunity' = [opportunity EXCEPT ![new] =
           [status |-> "UNREVIEWED", into |-> 0, site |-> s, change |-> ChangeType(s)]]
    /\ link' = [link EXCEPT ![new][s] = ActiveLink("ADMIN")]
    /\ Answered
    /\ UNCHANGED <<scene, queue, enriched, approved, overridden, review, family, job, events>>

MoveLinks(moved, from, to) ==
    [o \in Opportunity |-> [s \in Signal |->
        IF s \in moved /\ o = from THEN Rejected(link[o][s])
        ELSE IF s \in moved /\ o = to THEN ActiveLink("ADMIN")
        ELSE link[o][s]]]

\* The source's links, read as they are now, are the target's afterwards.
MergeOpportunities ==
    LET source == admin.o target == admin.p moved == ActiveIn(source) IN
    /\ admin.op = "merge"
    /\ link' = MoveLinks(moved, source, target)
    /\ opportunity' = [opportunity EXCEPT ![source] = MarkMerged(opportunity[source], target)]
    /\ Overridden({source} \X moved)
    /\ Answered
    /\ UNCHANGED <<scene, queue, enriched, approved, review, family, job, events>>

\* The review is LINKED in a transaction of its own; linking the signal comes
\* after, and fails when the opportunity is no longer current.
AcceptMatchReview ==
    LET o == admin.o s == admin.s IN
    /\ admin.op = "accept"
    /\ review' = [review EXCEPT ![o][s] = "LINKED"]
    /\ IF o \in Current THEN Request("link", o, 0, s) ELSE Answered
    /\ UNCHANGED <<scene, queue, enriched, approved, opportunity, link, overridden, family,
                   job, events>>

RejectMatchReview(o, s) ==
    /\ review[o][s] = "PENDING"
    /\ Event("review")
    /\ review' = [review EXCEPT ![o][s] = "REJECTED"]
    /\ UNCHANGED <<scene, queue, enriched, approved, opportunity, link, overridden, family,
                   job, admin>>

UnlinkSignal(o, s) ==
    /\ link[o][s] # NoLink
    /\ Event("unlink")
    /\ link' = [link EXCEPT ![o][s] = Rejected(link[o][s])]
    /\ Overridden({<<o, s>>})
    /\ UNCHANGED <<scene, queue, enriched, approved, opportunity, review, family, job, admin>>

\* The opportunity split from may have any status.
SplitOpportunity(o, signals) ==
    LET new == Min(Unused) moved == signals \cap ActiveIn(o) IN
    /\ opportunity[o] # NoRow /\ Unused # {} /\ signals # {}
    /\ Event("split")
    /\ opportunity' = [opportunity EXCEPT ![new] =
           [status |-> "UNREVIEWED", into |-> 0, site |-> opportunity[o].site,
            change |-> opportunity[o].change]]
    /\ link' = MoveLinks(moved, o, new)
    /\ Overridden({o} \X moved)
    /\ UNCHANGED <<scene, queue, enriched, approved, review, family, job, admin>>

-----------------------------------------------------------------------------
Init ==
    /\ scene \in Scene
    /\ queue = scene.signals /\ enriched = {} /\ approved = {}
    /\ opportunity = [o \in Opportunity |-> NoRow]
    /\ link = [o \in Opportunity |-> [s \in Signal |-> NoLink]]
    /\ overridden = [o \in Opportunity |-> FALSE]
    /\ review = [o \in Opportunity |-> [s \in Signal |-> "none"]]
    /\ family = [r \in Reference |-> [primary |-> {}, references |-> {}]]
    /\ job = [w \in Worker |-> Idle]
    /\ admin = NoRequest
    /\ events = 0

Work(w) ==
    \/ ReconcileReads(w) \/ ReconcileWrites(w)
    \/ MatchReads(w) \/ MatchEnds(w) \/ MatchWrites(w)
    \/ ConsolidateSystemDuplicates(w) \/ CleanupMatchReviews(w) \/ RecalculateFacts(w)

Maintain(w) ==
    \E s \in Signal : ReconcileStored(w, s) \/ CorrelateApproved(w, s) \/ RecalculateStarts(w, s)

Administer ==
    \/ CheckRequest \/ LinkSignal \/ CreateOpportunityFromSignal \/ MergeOpportunities
    \/ AcceptMatchReview
    \/ \E o \in Opportunity, s \in Signal : RejectMatchReview(o, s) \/ UnlinkSignal(o, s)
    \/ \E o \in Opportunity, signals \in SUBSET Signal : SplitOpportunity(o, signals)

Next ==
    \/ \E w \in Worker : Work(w) \/ Maintain(w) \/ Fail(w)
    \/ \E w \in Worker, s \in Signal : TakeMessage(w, s)
    \/ \E s \in scene.signals : SendAgain(s) \/ Approve(s)
    \/ Administer

Spec == Init /\ [][Next]_vars

-----------------------------------------------------------------------------
(* Properties. *)

\* The rows, the families and the jobs have the values the code gives them.
TypeOK ==
    /\ queue \subseteq Signal /\ enriched \subseteq Signal /\ approved \subseteq enriched
    /\ opportunity \in [Opportunity -> OpportunityRow]
    /\ link \in [Opportunity -> [Signal -> LinkRow]]
    /\ overridden \in [Opportunity -> BOOLEAN]
    /\ review \in [Opportunity -> [Signal ->
           {"none", "PENDING", "LINKED", "REJECTED", "SUPERSEDED"}]]
    /\ \A o \in Opportunity :
           /\ opportunity[o].status = "MERGED" => opportunity[o].into # 0
           /\ opportunity[o].status = "none" => \A s \in Signal : link[o][s] = NoLink
    /\ family \in [Reference -> [primary: SUBSET Signal, references: SUBSET Signal]]
    /\ \A w \in Worker : job[w].signal \in Signal \cup {0}
    /\ events \in 0..MaxEvents

\* No job ever revives a link that was rejected: only an administrator does,
\* whatever a job read before the link was rejected under it.
RejectedPairsStayRejected ==
    [][\A o \in Opportunity, s \in Signal :
           Blocked(o, s) /\ s \in ActiveIn(o)' => link'[o][s].by = "ADMIN"]_vars

\* However often a signal is delivered, replayed and recalculated, and
\* whatever is merged meanwhile, the system never keeps two opportunities it
\* created for the same signal.
SystemCreatesOnce ==
    \A s \in Signal : Cardinality({o \in ActiveOf(s) : link[o][s].by = "CREATED"}) <= 1

\* A signal that supports an opportunity goes on supporting one when duplicates
\* are consolidated or merged: only unlinking it, or finding it routine, ends that.
EvidenceIsNotLost ==
    [][\A s \in Signal : ActiveOf(s) # {} /\ (ActiveOf(s))' = {} =>
           \/ \E o \in Opportunity : UnlinkSignal(o, s)
           \/ \E w \in Worker : At(w, "facts") /\ job[w].signal = s /\ Class[s] = "routine"]_vars

\* No work is left for a signal, and none of its links was rejected or made by
\* an administrator.
Settled(s) ==
    /\ s \notin queue /\ \A w \in Worker : job[w].signal # s
    /\ \A o \in Opportunity : ~Blocked(o, s) /\ link[o][s].by # "ADMIN"

\* In whatever order, and however interleaved, a follow-up and the application
\* it mentions are worked through, the follow-up ends up supporting an
\* opportunity when its origin has one.
FamiliesConverge ==
    \A f, s \in scene.signals :
        /\ Class[f] = "followup" /\ Class[s] = "origin" /\ Primary[s] \in References(f)
        /\ \A t \in Signal : Class[t] = "origin" /\ Primary[t] = Primary[s] => t = s
        /\ Settled(f) /\ Settled(s)
        /\ Cardinality(ActiveOf(s)) = 1
        => ActiveOf(f) # {}
=============================================================================
