-------------------------- MODULE OpportunityCleanup --------------------------
(***************************************************************************)
(* The administrator's cleanups of Care opportunities in app/repository.py *)
(* with the policies of app/opportunity_hygiene.py,                        *)
(* opportunity_orphan_cleanup.py, opportunity_semantic_drift.py and        *)
(* evidence_support.py: unsupported shells are rejected and restored,      *)
(* openings that no evidence founds any more are corrected, unset          *)
(* lifecycles are filled in.                                               *)
(*                                                                         *)
(* Every job reads the inventory first and writes later, row by row, while *)
(* people link, merge, publish, save, watch and block, evidence is         *)
(* reviewed and revised, and workers recompute lifecycles.                 *)
(***************************************************************************)
EXTENDS Naturals, FiniteSets

CONSTANTS
    Opportunity,    \* opportunities of the vertical, numbered in order of creation
    Signal,         \* signals linked, or to be linked, to them
    KindsOf,        \* KindsOf[s]: what the stored facts of s may come to say
    FirstSignals,   \* what the signals may say, and how they are reviewed, at first
    FirstLinks,     \* FirstLinks[o]: the signals the system had linked
    Alike,          \* pairs of opportunities of one site, operator and change
    Worker,         \* jobs at a time
    None,           \* an unset lifecycle, and no resolution by the cleanup
    MaxEvents       \* bound: jobs begun, and changes by people and to evidence

\* Planning evidence: what founds an opportunity, use that exists already,
\* cessation, a change of capacity, a refusal and a refusal under appeal.
Kind == {"FOUNDATION", "EXISTING_USE", "CESSATION", "CAPACITY", "REFUSED", "APPEAL"}
Review == {"PENDING", "APPROVED", "REJECTED"}
Publication == {"DRAFT", "PUBLISHED", "WITHDRAWN"}
Stage == {"PLANNING_PENDING", "APPEAL_PENDING", "STOPPED", "NEEDS_REVIEW"}

\* What an instance gives the constants satisfies (see Services).
CleanupAssumption ==
    /\ Opportunity \subseteq Nat /\ MaxEvents \in Nat
    /\ KindsOf \in [Signal -> SUBSET Kind]
    /\ FirstSignals \subseteq [Signal -> [kind: Kind, review: Review]]
    /\ FirstLinks \in [Opportunity -> SUBSET Signal]
    /\ None \notin Stage \cup {"UNREVIEWED"}

VARIABLES
    opportunity,    \* rows of opportunities, with what hangs on them
    link,           \* opportunity_signals
    signal,         \* what a signal's facts say, and its review
    task,           \* task[w]: the job w is at, with what it has read
    events          \* jobs begun and changes made so far

rows == <<opportunity, link, signal>>
vars == <<opportunity, link, signal, task, events>>

NoLink == [status |-> "NONE", admin |-> FALSE]
SystemLink == [status |-> "ACTIVE", admin |-> FALSE]
NoTask == [at |-> "idle"]

NewOpportunity(stage) ==
    [status |-> "UNREVIEWED", opening |-> TRUE, stage |-> stage, resolved |-> None,
     publication |-> "DRAFT", shown |-> FALSE, saved |-> FALSE, watched |-> FALSE,
     matching |-> FALSE, blocked |-> FALSE, touched |-> FALSE]

------------------------------------------------------------------------------
Linked(o) == {s \in Signal : link[o][s].status # "NONE"}
Active(o) == {s \in Signal : link[o][s].status = "ACTIVE"}
Approved(o) == {s \in Active(o) : signal[s].review = "APPROVED"}

\* classify_evidence_support, refined by _relation_state.
RelationState(o, s) ==
    CASE s \notin Active(o) -> "INACTIVE"
      [] s \in Active(o) \ Approved(o) -> signal[s].review
      [] s \in Approved(o) ->
           CASE signal[s].kind = "FOUNDATION" -> "FOUNDATIONAL"
             [] signal[s].kind = "EXISTING_USE" -> "SUPPORT_ONLY"
             [] signal[s].kind = "CESSATION" -> "OTHER_LIFECYCLE"
             [] signal[s].kind = "CAPACITY" -> "INACTIVE"
             [] OTHER -> signal[s].kind

States(o) == {RelationState(o, s) : s \in Linked(o)}
Foundations(o) == {s \in Linked(o) : RelationState(o, s) = "FOUNDATIONAL"}

\* _touch_types: people have shaped or shown the opportunity.
AdminLinked(o) == \E s \in Signal : link[o][s].admin
Touched(o) ==
    \/ opportunity[o].touched \/ AdminLinked(o)
    \/ opportunity[o].publication = "PUBLISHED" \/ opportunity[o].shown
    \/ opportunity[o].status = "MERGED"

\* _duplicate_counterparts: another one of the same project ranks above it.
Rank(o) == (IF opportunity[o].publication = "PUBLISHED" THEN 20 ELSE 0)
           + (IF Touched(o) THEN 10 ELSE 0) + Cardinality(Foundations(o))
Current(o) == opportunity[o].status \notin {"MERGED", "REJECTED"}
Duplicate(o) ==
    \E p \in Opportunity \ {o} :
        /\ \/ {o, p} \in Alike /\ Current(o) /\ Current(p)
           \/ Active(o) \cap Active(p) # {}
        /\ Rank(p) > Rank(o) \/ (Rank(p) = Rank(o) /\ p > o)

\* audit_opportunities: the category of an opportunity, and why an orphan is one.
IsOrphan(o) == /\ ~Touched(o) /\ ~Duplicate(o)
               /\ States(o) \cap {"FOUNDATIONAL", "PENDING"} = {}
RootCause(o) ==
    CASE "REFUSED" \in States(o) -> "PLANNING_REFUSED"
      [] Linked(o) = {} -> "NO_ACTIVE_SUPPORT"
      [] States(o) = {"INACTIVE"} -> "RELATIONSHIP_REMOVED"
      [] States(o) = {"REJECTED"} -> "SIGNAL_REJECTED"
      [] States(o) = {"SUPPORT_ONLY"} -> "TAXONOMY_RECLASSIFIED"
      [] OTHER -> "OTHER"

Unfinished == {"STOPPED", "NEEDS_REVIEW"}

\* evaluate_orphan_cleanup: what the inventory allows to reject.
AutoResolves(o) ==
    /\ IsOrphan(o)
    /\ opportunity[o].stage \in Unfinished
    /\ opportunity[o].status # "REJECTED" /\ opportunity[o].publication = "DRAFT"
    /\ ~opportunity[o].saved /\ ~opportunity[o].blocked
    /\ ~opportunity[o].matching /\ ~opportunity[o].watched
    /\ RootCause(o) # "OTHER"
    /\ RootCause(o) = "TAXONOMY_RECLASSIFIED" \/ "SUPPORT_ONLY" \notin States(o)
    /\ \/ Approved(o) = {} \/ RootCause(o) = "TAXONOMY_RECLASSIFIED"
       \/ RootCause(o) = "PLANNING_REFUSED" /\ opportunity[o].stage = "STOPPED"

\* The orphans the cleanup rejected and would not reject today.
Restorable(o) ==
    /\ IsOrphan(o)
    /\ opportunity[o].status = "REJECTED" /\ opportunity[o].resolved # None
    /\ opportunity[o].stage \notin Unfinished

\* plan_opportunity_semantic_drift: evidence that contradicts an opening.
Drifts(o) ==
    {signal[s].kind : s \in {s \in Active(o) :
        \/ signal[s].kind \in {"EXISTING_USE", "CESSATION"}
        \/ signal[s].kind = "CAPACITY" /\ signal[s].review = "REJECTED"}}
Corrects(o) ==
    /\ opportunity[o].opening /\ Cardinality(Drifts(o)) = 1
    /\ Foundations(o) = {} /\ opportunity[o].publication # "PUBLISHED" /\ ~Touched(o)

\* derive_care_lifecycle, of planning evidence.
Derived(o) ==
    LET kinds == {signal[s].kind : s \in Active(o)}
    IN IF "APPEAL" \in kinds THEN "APPEAL_PENDING"
       ELSE IF Foundations(o) # {} THEN "PLANNING_PENDING"
       ELSE IF "REFUSED" \in kinds THEN "STOPPED"
       ELSE "NEEDS_REVIEW"
Init ==
    /\ link = [o \in Opportunity |-> [s \in Signal |->
                  IF s \in FirstLinks[o] THEN SystemLink ELSE NoLink]]
    /\ signal \in FirstSignals
    /\ opportunity \in [Opportunity -> {NewOpportunity(stage) : stage \in {None, "STOPPED"}}]
    /\ \A o \in Opportunity : opportunity[o].stage \in {None, Derived(o)}
    /\ task = [w \in Worker |-> NoTask]
    /\ events = 0
------------------------------------------------------------------------------
Happens == events < MaxEvents /\ events' = events + 1

\* What a job has read when it starts, in one statement.
Begin(w, t) ==
    /\ Happens /\ task[w].at = "idle"
    /\ task' = [task EXCEPT ![w] = t]
    /\ UNCHANGED rows

CleanupReads(w) ==
    Begin(w, [at |-> "cleanup", restore |-> {o \in Opportunity : Restorable(o)},
              resolve |-> {o \in Opportunity : AutoResolves(o)}])

DriftReads(w) == Begin(w, [at |-> "drift", plan |-> {o \in Opportunity : Corrects(o)}])

BootstrapReads(w) ==
    LET unset == {o \in Opportunity : opportunity[o].stage = None}
    IN Begin(w, [at |-> "bootstrap", plan |-> [o \in unset |-> Derived(o)]])

RecomputeReads(w, o) == Begin(w, [at |-> "recompute", plan |-> [p \in {o} |-> Derived(o)]])

LinkReads(w, o, s) ==
    /\ Current(o)
    /\ Begin(w, [at |-> "link", to |-> o, of |-> s])

\* A job is over, or is cut off.
Ends(w) ==
    /\ task[w].at # "idle"
    /\ task' = [task EXCEPT ![w] = NoTask]
    /\ UNCHANGED <<rows, events>>

\* Restorations come first; each row is locked and looked at again.
CleanupRestores(w, o) ==
    LET row == opportunity[o]
    IN /\ task[w].at = "cleanup" /\ o \in task[w].restore
       /\ task' = [task EXCEPT ![w].restore = task[w].restore \ {o}]
       /\ opportunity' =
            IF row.status = "REJECTED" /\ row.stage \notin Unfinished
              THEN [opportunity EXCEPT ![o].status = row.resolved]
              ELSE opportunity
       /\ UNCHANGED <<link, signal, events>>

\* What the lock shows to be in use.
UnsafeBug(o) == ~Current(o)
Unsafe(o) ==
    LET row == opportunity[o]
    IN \/ ~Current(o) \/ row.publication # "DRAFT" \/ row.shown \/ row.blocked
       \/ row.saved \/ row.watched \/ row.matching \/ AdminLinked(o)

\* The row is locked and looked at again; its stage and its evidence are not.  An
\* UPDATE that enables an old watch again does not wait for that lock: it counts
\* as coming after the write, which has read the watches before it.
CleanupResolves(w, o) ==
    /\ task[w].at = "cleanup" /\ task[w].restore = {} /\ o \in task[w].resolve
    /\ task' = [task EXCEPT ![w].resolve = task[w].resolve \ {o}]
    /\ opportunity' =
         IF Unsafe(o) THEN opportunity
         ELSE [opportunity EXCEPT ![o].status = "REJECTED",
                                  ![o].resolved = opportunity[o].status]
    /\ UNCHANGED <<link, signal, events>>

\* One transaction that locks the rows and makes the plan again.
StillCorrectsBug(o, plan) == o \in plan
StillCorrects(o, plan) ==
    o \in plan /\ Corrects(o) /\ opportunity[o].publication = "DRAFT"

DriftWrites(w) ==
    /\ task[w].at = "drift"
    /\ opportunity' = [o \in Opportunity |->
         IF StillCorrects(o, task[w].plan) THEN [opportunity[o] EXCEPT !.opening = FALSE]
         ELSE opportunity[o]]
    /\ task' = [task EXCEPT ![w] = NoTask]
    /\ UNCHANGED <<link, signal, events>>

\* A stage worked out earlier is written, by a bootstrap where none is set.
Fills(o) == opportunity[o].stage = None

BootstrapWrites(w, o) ==
    /\ task[w].at = "bootstrap" /\ o \in DOMAIN task[w].plan
    /\ opportunity' = IF Fills(o) THEN [opportunity EXCEPT ![o].stage = task[w].plan[o]]
                      ELSE opportunity
    /\ task' = [task EXCEPT ![w].plan = [p \in DOMAIN task[w].plan \ {o} |-> task[w].plan[p]]]
    /\ UNCHANGED <<link, signal, events>>

RecomputeWrites(w, o) ==
    /\ task[w].at = "recompute" /\ o \in DOMAIN task[w].plan
    /\ opportunity' = [opportunity EXCEPT
                         ![o].stage = task[w].plan[o],
                         ![o].watched = opportunity[o].watched /\ task[w].plan[o] # "STOPPED"]
    /\ task' = [task EXCEPT ![w] = NoTask]
    /\ UNCHANGED <<link, signal, events>>

\* An administrator's link was of a current opportunity when it was asked for.
LinkWrites(w) ==
    /\ task[w].at = "link"
    /\ link' = [link EXCEPT ![task[w].to][task[w].of] = [status |-> "ACTIVE", admin |-> TRUE]]
    /\ task' = [task EXCEPT ![w] = NoTask]
    /\ UNCHANGED <<opportunity, signal, events>>
------------------------------------------------------------------------------
\* What people do to an opportunity changes its row.
Changes(o, row) ==
    /\ Happens /\ row # opportunity[o]
    /\ opportunity' = [opportunity EXCEPT ![o] = row]
    /\ UNCHANGED <<link, signal, task>>

AdminUnlinks(o, s) ==
    /\ Happens /\ link[o][s].status = "ACTIVE"
    /\ link' = [link EXCEPT ![o][s] = [status |-> "REJECTED", admin |-> TRUE]]
    /\ UNCHANGED <<opportunity, signal, task>>

AdminMerges(o) ==
    Current(o) /\ Changes(o, [opportunity[o] EXCEPT !.status = "MERGED", !.touched = TRUE])
SetPublication(o, publication) ==
    /\ publication = "PUBLISHED" => Approved(o) # {}
    /\ Changes(o, [opportunity[o] EXCEPT !.publication = publication, !.touched = TRUE,
                      !.shown = opportunity[o].shown \/ publication = "PUBLISHED"])
CustomerSaves(o) ==
    opportunity[o].publication = "PUBLISHED" /\ Changes(o, [opportunity[o] EXCEPT !.saved = TRUE])
WatchStarts(o) == Changes(o, [opportunity[o] EXCEPT !.watched = TRUE])
MatchIsSuggested(o) == Current(o) /\ Changes(o, [opportunity[o] EXCEPT !.matching = TRUE])
MatchIsReviewed(o) == Changes(o, [opportunity[o] EXCEPT !.matching = FALSE])
AutomationBlocked(o, b) ==
    Changes(o, [opportunity[o] EXCEPT !.blocked = b, !.touched = TRUE,
                                      !.watched = opportunity[o].watched /\ ~b])

\* A revision or a reclassification changes what the facts say; people and
\* policies review them.
EvidenceChanges(s, kind, review) ==
    /\ Happens /\ kind \in KindsOf[s]
    /\ signal[s] # [kind |-> kind, review |-> review]
    /\ signal' = [signal EXCEPT ![s] = [kind |-> kind, review |-> review]]
    /\ UNCHANGED <<opportunity, link, task>>

Next ==
    \/ \E w \in Worker :
          \/ CleanupReads(w)
          \/ DriftReads(w)
          \/ BootstrapReads(w)
          \/ Ends(w)
          \/ DriftWrites(w)
          \/ LinkWrites(w)
          \/ \E o \in Opportunity :
                \/ RecomputeReads(w, o)
                \/ CleanupRestores(w, o)
                \/ CleanupResolves(w, o)
                \/ BootstrapWrites(w, o)
                \/ RecomputeWrites(w, o)
                \/ \E s \in Signal : LinkReads(w, o, s)
    \/ \E o \in Opportunity :
          \/ AdminMerges(o)
          \/ \E publication \in Publication : SetPublication(o, publication)
          \/ CustomerSaves(o)
          \/ WatchStarts(o)
          \/ MatchIsSuggested(o)
          \/ MatchIsReviewed(o)
          \/ \E b \in BOOLEAN : AutomationBlocked(o, b)
          \/ \E s \in Signal : AdminUnlinks(o, s)
    \/ \E s \in Signal, kind \in Kind, review \in {"APPROVED", "REJECTED"} :
          EvidenceChanges(s, kind, review)

Spec == Init /\ [][Next]_vars
------------------------------------------------------------------------------
Row == [status: {"UNREVIEWED", "REJECTED", "MERGED"}, opening: BOOLEAN,
        stage: Stage \cup {None}, resolved: {"UNREVIEWED", None},
        publication: Publication, shown: BOOLEAN, saved: BOOLEAN, watched: BOOLEAN, matching: BOOLEAN,
        blocked: BOOLEAN, touched: BOOLEAN]

\* The rows have their types, and only the cleanup has rejected one.
TypeOK ==
    /\ opportunity \in [Opportunity -> Row]
    /\ link \in [Opportunity -> [Signal -> [status: {"NONE", "ACTIVE", "REJECTED"},
                                            admin: BOOLEAN]]]
    /\ signal \in [Signal -> [kind: Kind, review: Review]]
    /\ \A o \in Opportunity :
          /\ opportunity[o].status = "REJECTED" => opportunity[o].resolved # None
          /\ opportunity[o].saved => opportunity[o].shown

Falls(o) == opportunity[o].status # "REJECTED" /\ opportunity'[o].status = "REJECTED"

\* However long ago its inventory was read, the cleanup rejects no opportunity
\* that is merged, published or was, saved, watched, blocked, waiting for a match
\* review or linked by a person when it writes.
CleanupSparesTheUsed ==
    [][\A o \in Opportunity : Falls(o) =>
          /\ opportunity[o].status # "MERGED"
          /\ opportunity[o].publication = "DRAFT" /\ ~opportunity[o].shown
          /\ ~opportunity[o].saved /\ ~opportunity[o].watched
          /\ ~opportunity[o].blocked /\ ~opportunity[o].matching
          /\ \A s \in Signal : ~link[o][s].admin]_vars

\* An opening loses its name only while no approved evidence founds it and
\* nobody has published or touched it, whatever the plan had been made from.
CorrectionsAreCurrent ==
    [][\A o \in Opportunity : opportunity[o].opening /\ ~opportunity'[o].opening =>
          /\ opportunity[o].publication = "DRAFT" /\ ~opportunity[o].touched
          /\ \A s \in Signal : /\ ~link[o][s].admin
                               /\ signal[s] = [kind |-> "FOUNDATION", review |-> "APPROVED"]
                                    => link[o][s].status # "ACTIVE"]_vars
==============================================================================
