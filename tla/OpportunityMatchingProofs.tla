------------------------ MODULE OpportunityMatchingProofs ------------------------
(***************************************************************************)
(* For any signals, references, number of workers and of opportunities,    *)
(* and whatever signals say: how signals become opportunities while their  *)
(* messages are delivered again, jobs overlap and people interfere.        *)
(***************************************************************************)
EXTENDS OpportunityMatching, Integers, FiniteSetTheorems, WellFoundedInduction, TLAPS

Existing == {o \in Opportunity : opportunity[o].status # "none"}

\* A duplicate goes to an opportunity that stays.
MergePlan(plan, existing) ==
    /\ plan \in [Opportunity -> existing \cup {0}]
    /\ \A o \in Opportunity : plan[o] # 0 => plan[plan[o]] = 0

\* What a job may be: its operation, where it is in it, and what it has read.
Shape(j, c, existing) ==
    \/ j.op = "idle" /\ j.step = "idle" /\ j.signal = 0
    \/ /\ j.signal \in c.signals
       /\ \/ /\ j.op \in {"message", "reconcile"} /\ c.class[j.signal] \in {"origin", "followup"}
             /\ \/ j.step = "family"
                \/ j.step = "attach" /\ j.plan \in SUBSET (existing \X Signal)
          \/ /\ j.op = "message" /\ c.class[j.signal] \in {"origin", "followup"}
             /\ \/ j.step = "family2"
                \/ j.step = "attach2" /\ j.plan \in SUBSET (existing \X Signal)
          \/ /\ j.op \in {"message", "recalculate", "approved"}
             /\ \/ j.step = "match"
                \/ /\ j.step = "link"
                   /\ j.plan \in [match: existing \cup {0}, uncertain: SUBSET Opportunity]
          \/ /\ j.op = "recalculate"
             /\ \/ j.step \in {"cleanup", "facts"}
                \/ j.step = "merge" /\ MergePlan(j.plan, existing)

\* What a request refers to was there when it was checked, and rows stay.
AdminInv ==
    \/ admin.op = "none"
    \/ admin.op = "link" /\ admin.o \in Existing /\ admin.s \in Signal
    \/ admin.op = "merge" /\ admin.o \in Existing /\ admin.p \in Existing /\ admin.o # admin.p
    \/ admin.op = "create" /\ admin.s \in Signal
    \/ admin.op = "accept" /\ admin.o \in Opportunity /\ admin.s \in Signal

StateInv ==
    /\ TypeOK
    /\ scene \in Scene /\ queue \subseteq scene.signals /\ enriched \subseteq scene.signals
    /\ job = [w \in Worker |-> job[w]]
    /\ \A w \in Worker : Shape(job[w], scene, Existing)
    /\ AdminInv

Created(o, s) == link[o][s] = ActiveLink("CREATED")

\* Who is about to create an opportunity for a signal is alone with it, and
\* none that the system created for it is there.
CreatedInv ==
    /\ \A s \in Signal : \A o, p \in Opportunity : Created(o, s) /\ Created(p, s) => o = p
    /\ \A w \in Worker, s \in Signal : At(w, "link") /\ job[w].signal = s =>
          /\ \A o \in Opportunity : ~Created(o, s)
          /\ \A v \in Worker : At(v, "link") /\ job[v].signal = s => v = w

\* No link of the signal was rejected or made by an administrator.
Clean(s) == \A o \in Opportunity : ~Blocked(o, s) /\ link[o][s].by # "ADMIN"

\* A follow-up and the only application with the reference it mentions.
Related(f, s) ==
    /\ f \in scene.signals /\ s \in scene.signals
    /\ Class[f] = "followup" /\ Class[s] = "origin" /\ Primary[s] \in References(f)
    /\ \A t \in Signal : Class[t] = "origin" /\ Primary[t] = Primary[s] => t = s

\* The families of a signal have it.
Filed(x) ==
    /\ Primary[x] # "none" => x \in family[Primary[x]].primary
    /\ \A r \in References(x) : x \in family[r].references

Attaching(w) == job[w].step \in {"attach", "attach2"}
Later(w) == job[w].step \in {"family2", "attach2"}

\* f supports an opportunity, or will support the one of s when w commits.
Attached(w, f, s) ==
    \A o \in Opportunity :
        Clean(f) /\ Clean(s) /\ ActiveOf(s) = {o} => ActiveOf(f) # {} \/ <<o, f>> \in job[w].plan

\* What a reconciliation has read is still so: its families are its own until
\* it commits.
WorkerFamily(w) ==
    \A x \in Signal : job[w].signal = x =>
        /\ job[w].op = "message" /\ IsPlanning(x) /\ (job[w].step \in {"match", "link"} \/ Later(w))
           => Filed(x)
        /\ Later(w) /\ Class[x] = "origin" /\ Clean(x) => ActiveOf(x) # {}
        /\ \A y \in Signal :
              /\ Related(x, y) /\ Attaching(w) /\ y \notin queue => Attached(w, x, y)
              /\ Related(y, x) /\ At(w, "attach2") /\ y \in family[Primary[x]].references
                 => Attached(w, y, x)

\* A signal whose message is deleted has been through all of it, and every
\* reconciliation leaves the follow-ups it knows attached.
FamilyRows ==
    /\ \A x \in scene.signals : IsPlanning(x) /\ x \notin queue => Filed(x)
    /\ \A s \in scene.signals :
          Class[s] = "origin" /\ s \notin queue /\ Clean(s) => ActiveOf(s) # {}
    /\ \A f, s \in Signal :
          /\ Related(f, s) /\ s \notin queue /\ f \in family[Primary[s]].references
          /\ Clean(f) /\ Clean(s) /\ Cardinality(ActiveOf(s)) = 1
          => ActiveOf(f) # {}

\* Two reconciliations under way have no family in common.
Disjoint ==
    \A v, w \in Worker : \A x, y \in Signal :
        Attaching(v) /\ Attaching(w) /\ v # w /\ job[v].signal = x /\ job[w].signal = y
        => FamiliesOf(x) \cap FamiliesOf(y) = {}

FamilyInv == FamilyRows /\ (\A w \in Worker : WorkerFamily(w)) /\ Disjoint

IInv == StateInv /\ CreatedInv /\ FamilyInv
------------------------------------------------------------------------------
(* Lemmas about sets and rows *)

LEMMA OneOpportunity ==
    ASSUME NEW some \in SUBSET Opportunity
    PROVE  Cardinality(some) = 1 <=> \E o \in Opportunity : some = {o}
<1>1. IsFiniteSet(some)
  BY SignalsAssumption, FS_Subset
<1> QED
  BY <1>1, FS_Singleton

LEMMA SceneTyped ==
    ASSUME scene \in Scene
    PROVE  /\ Class \in [Signal -> SignalClass]
           /\ Primary \in [Signal -> Reference \cup {"none"}]
           /\ Prior \in [Signal -> SUBSET Reference]
           /\ scene.signals \subseteq Signal /\ scene.opportunities \subseteq Opportunity
BY SignalsAssumption DEF Class, Primary, Prior

LEMMA SceneStays ==
    ASSUME scene' = scene
    PROVE  Class' = Class /\ Primary' = Primary /\ Prior' = Prior
BY DEF Class, Primary, Prior

LEMMA LinkRows ==
    /\ NoLink \in LinkRow /\ NoLink.status = "none" /\ NoLink.by = "none"
    /\ \A by \in Maker : /\ ActiveLink(by) \in LinkRow /\ ActiveLink(by) # NoLink
                         /\ ActiveLink(by).status = "ACTIVE" /\ ActiveLink(by).by = by
    /\ \A row \in LinkRow \ {NoLink} :
           /\ row.status \in {"ACTIVE", "REJECTED"} /\ row.by \in Maker
           /\ Rejected(row) \in LinkRow /\ Rejected(row) # NoLink
           /\ Rejected(row).status = "REJECTED" /\ Rejected(row).by = row.by
<1>1. NoLink \in LinkRow /\ NoLink.status = "none" /\ NoLink.by = "none"
  BY DEF NoLink, LinkRow
<1>2. ASSUME NEW by \in Maker
      PROVE  /\ ActiveLink(by) \in LinkRow
             /\ ActiveLink(by).status = "ACTIVE" /\ ActiveLink(by).by = by
  BY DEF ActiveLink, LinkRow
<1>3. ASSUME NEW row \in LinkRow \ {NoLink}
      PROVE  /\ row.status \in {"ACTIVE", "REJECTED"} /\ row.by \in Maker
             /\ Rejected(row) \in LinkRow
             /\ Rejected(row).status = "REJECTED" /\ Rejected(row).by = row.by
  BY DEF Rejected, LinkRow
<1> QED
  BY <1>1, <1>2, <1>3

\* What a step may make of a link: only an administrator revives one.
RowMay(old, new) ==
    \/ new = old
    \/ old = NoLink /\ \E by \in Maker : new = ActiveLink(by)
    \/ old # NoLink /\ new = Rejected(old)
    \/ new = ActiveLink("ADMIN")

LinksMay == \A o \in Opportunity, s \in Signal : RowMay(link[o][s], link'[o][s])

LEMMA CleanKept ==
    ASSUME TypeOK, LinksMay, NEW s \in Signal, Clean(s)'
    PROVE  Clean(s) /\ ActiveOf(s) \subseteq (ActiveOf(s))'
<1>1. ASSUME NEW o \in Opportunity
      PROVE  /\ ~Blocked(o, s) /\ link[o][s].by # "ADMIN"
             /\ link[o][s].status = "ACTIVE" => link'[o][s].status = "ACTIVE"
  <2>1. link[o][s] \in LinkRow /\ RowMay(link[o][s], link'[o][s])
    BY DEF TypeOK, LinksMay
  <2>2. link'[o][s].status # "REJECTED" /\ link'[o][s].by # "ADMIN"
    BY DEF Clean, Blocked
  <2>3. "ADMIN" \in Maker
    BY DEF Maker
  <2> QED
    BY <2>1, <2>2, <2>3, LinkRows DEF RowMay, Blocked
<1> QED
  BY <1>1 DEF Clean, ActiveOf
------------------------------------------------------------------------------
(* Frames: what stays true of the families of a job that does not move. *)

FamilyGrows ==
    \A r \in Reference : /\ family[r].primary \subseteq family'[r].primary
                         /\ family[r].references \subseteq family'[r].references

\* Nobody else changes the families that w has read, or ends work on them.
Frozen(w) ==
    Attaching(w) => \A r \in FamiliesOf(job[w].signal) :
        /\ family'[r].references = family[r].references
        /\ \A s \in Signal : Primary[s] = r /\ IsPlanning(s) /\ s \notin queue' => s \notin queue

LEMMA Families ==
    ASSUME StateInv, NEW x \in Signal
    PROVE  /\ References(x) \subseteq Reference
           /\ FamiliesOf(x) \subseteq Reference
           /\ \A f, s \in Signal : Related(f, s) =>
                 /\ Primary[s] \in Reference /\ Primary[s] # "none"
                 /\ Primary[s] \in FamiliesOf(f) /\ Primary[s] \in FamiliesOf(s)
                 /\ IsPlanning(s) /\ IsPlanning(f) /\ f # s
<1>1. \A y \in Signal : References(y) \subseteq Reference
  BY SceneTyped DEF StateInv, References
<1>2. FamiliesOf(x) \subseteq Reference
  BY <1>1, SceneTyped DEF StateInv, FamiliesOf
<1>3. ASSUME NEW f \in Signal, NEW s \in Signal, Related(f, s)
      PROVE  /\ Primary[s] \in Reference /\ Primary[s] # "none"
             /\ Primary[s] \in FamiliesOf(f) /\ Primary[s] \in FamiliesOf(s)
             /\ IsPlanning(s) /\ IsPlanning(f) /\ f # s
  <2>1. Primary[s] \in References(f) /\ Class[f] = "followup" /\ Class[s] = "origin"
    BY <1>3 DEF Related
  <2>2. Primary[s] \in Reference /\ Primary[s] # "none"
    BY <1>1, <2>1, SignalsAssumption
  <2> QED
    BY <2>1, <2>2 DEF FamiliesOf, IsPlanning
<1> QED
  BY <1>1, <1>2, <1>3

LEMMA RelatedStays ==
    ASSUME scene' = scene
    PROVE  /\ \A f, s \in Signal : Related(f, s)' <=> Related(f, s)
           /\ \A x \in Signal : References(x)' = References(x) /\ FamiliesOf(x)' = FamiliesOf(x)
           /\ \A x \in Signal : IsPlanning(x)' <=> IsPlanning(x)
BY SceneStays DEF Related, References, FamiliesOf, IsPlanning

LEMMA FiledStays ==
    ASSUME StateInv, scene' = scene, FamilyGrows, NEW x \in Signal, Filed(x)
    PROVE  Filed(x)'
<1>1. References(x) \subseteq Reference /\ Primary[x] \in Reference \cup {"none"}
  BY Families, SceneTyped DEF StateInv
<1> QED
  BY <1>1, SceneStays DEF FamilyGrows, Filed, References

LEMMA JobSignal ==
    ASSUME StateInv, NEW w \in Worker, job[w].step # "idle"
    PROVE  job[w].signal \in Signal /\ job[w].signal \in scene.signals
BY SceneTyped DEF StateInv, Shape

LEMMA AttachedStays ==
    ASSUME TypeOK, LinksMay, NEW w \in Worker, job'[w] = job[w], NEW f \in Signal, NEW s \in Signal,
           Attached(w, f, s), Clean(s) => ActiveOf(s) # {}
    PROVE  Attached(w, f, s)'
<1> SUFFICES ASSUME NEW o \in Opportunity, Clean(f)', Clean(s)', (ActiveOf(s))' = {o}
             PROVE  (ActiveOf(f))' # {} \/ <<o, f>> \in job'[w].plan
  BY DEF Attached
<1>1. Clean(f) /\ Clean(s) /\ ActiveOf(s) \subseteq {o} /\ ActiveOf(f) \subseteq (ActiveOf(f))'
  BY CleanKept
<1>2. ActiveOf(s) = {o}
  BY <1>1
<1> QED
  BY <1>1, <1>2 DEF Attached

LEMMA WorkerFamilyKept ==
    ASSUME StateInv, FamilyRows, LinksMay, FamilyGrows, scene' = scene, NEW w \in Worker,
           job'[w] = job[w], WorkerFamily(w), Frozen(w)
    PROVE  WorkerFamily(w)'
<1> USE SceneStays, RelatedStays
<1> SUFFICES ASSUME NEW x \in Signal, job[w].signal = x
             PROVE  /\ job[w].op = "message" /\ IsPlanning(x)
                       /\ (job[w].step \in {"match", "link"} \/ Later(w)) => Filed(x)'
                    /\ Later(w) /\ Class[x] = "origin" /\ Clean(x)' => (ActiveOf(x))' # {}
                    /\ \A y \in Signal :
                        /\ Related(x, y) /\ Attaching(w) /\ y \notin queue' => Attached(w, x, y)'
                        /\ Related(y, x) /\ At(w, "attach2") /\ y \in family'[Primary[x]].references
                           => Attached(w, y, x)'
  <2>1. Later(w)' = Later(w) /\ Attaching(w)' = Attaching(w) /\ At(w, "attach2")' = At(w, "attach2")
    BY DEF Later, Attaching, At
  <2> QED
    BY <2>1 DEF WorkerFamily
<1>1. ASSUME job[w].op = "message", IsPlanning(x), job[w].step \in {"match", "link"} \/ Later(w)
      PROVE  Filed(x)'
  BY <1>1, FiledStays DEF WorkerFamily
<1>2. ASSUME Later(w), Class[x] = "origin", Clean(x)'
      PROVE  (ActiveOf(x))' # {}
  <2>1. Clean(x) /\ ActiveOf(x) \subseteq (ActiveOf(x))'
    BY <1>2, CleanKept DEF StateInv
  <2> QED
    BY <2>1, <1>2 DEF WorkerFamily
<1>3. ASSUME NEW s \in Signal, Related(x, s), Attaching(w), s \notin queue'
      PROVE  Attached(w, x, s)'
  <2>1. IsPlanning(s) /\ Primary[s] \in FamiliesOf(x)
    BY <1>3, Families
  <2>2. s \in scene.signals /\ Class[s] = "origin" /\ s \notin queue
    BY <1>3, <2>1 DEF Related, Frozen
  <2>3. Attached(w, x, s) /\ (Clean(s) => ActiveOf(s) # {})
    BY <1>3, <2>2 DEF WorkerFamily, FamilyRows
  <2> QED
    BY <2>3, AttachedStays DEF StateInv
<1>4. ASSUME NEW f \in Signal, Related(f, x), At(w, "attach2"), f \in family'[Primary[x]].references
      PROVE  Attached(w, f, x)'
  <2>1. Primary[x] \in FamiliesOf(x) /\ Class[x] = "origin"
    BY <1>4, Families DEF Related
  <2>2. f \in family[Primary[x]].references /\ Later(w)
    BY <1>4, <2>1 DEF Frozen, At, Attaching, Later
  <2>3. Attached(w, f, x) /\ (Clean(x) => ActiveOf(x) # {})
    BY <1>4, <2>1, <2>2 DEF WorkerFamily
  <2> QED
    BY <2>3, AttachedStays DEF StateInv
<1> QED
  BY <1>1, <1>2, <1>3, <1>4

\* A step that reconciles nothing: no job starts to attach, and one that turns
\* to its second reconciliation has been through the first and leaves an origin
\* with an opportunity.
JobMoves(w) ==
    \/ job'[w] = job[w]
    \/ /\ ~Attaching(w)'
       /\ \A x \in Signal : job'[w].signal = x =>
              /\ job'[w].step \in {"match", "link", "family2"} /\ job'[w].op = "message"
                 /\ IsPlanning(x)
                 => job[w].op = "message" /\ job[w].step \in {"match", "link"} /\ job[w].signal = x
              /\ job'[w].step = "family2" /\ Class[x] = "origin" /\ Clean(x)'
                 => (ActiveOf(x))' # {}

QueueMay == \A x \in Signal : IsPlanning(x) /\ x \notin queue' => x \notin queue

LEMMA RowsKept ==
    ASSUME StateInv, FamilyRows, LinksMay, scene' = scene, family' = family, QueueMay
    PROVE  FamilyRows'
<1> USE RelatedStays, SceneStays
<1>1. scene.signals \subseteq Signal /\ TypeOK
  BY SceneTyped DEF StateInv
<1>2. ASSUME NEW x \in scene.signals, IsPlanning(x), x \notin queue'
      PROVE  Filed(x)'
  <2>1. Filed(x)
    BY <1>1, <1>2 DEF FamilyRows, QueueMay
  <2> QED
    BY <2>1, <1>1 DEF Filed, References
<1>3. ASSUME NEW s \in scene.signals, Class[s] = "origin", s \notin queue', Clean(s)'
      PROVE  ActiveOf(s) # {} /\ (ActiveOf(s))' # {}
  <2>1. s \notin queue
    BY <1>1, <1>3 DEF QueueMay, IsPlanning
  <2>2. Clean(s) /\ ActiveOf(s) \subseteq (ActiveOf(s))'
    BY <1>1, <1>3, CleanKept
  <2> QED
    BY <2>1, <2>2, <1>3 DEF FamilyRows
<1>4. ASSUME NEW f \in Signal, NEW s \in Signal, Related(f, s), s \notin queue',
             f \in family[Primary[s]].references, Clean(f)', Clean(s)',
             Cardinality(ActiveOf(s))' = 1
      PROVE  (ActiveOf(f))' # {}
  <2>1. s \in scene.signals /\ Class[s] = "origin" /\ s \notin queue
    BY <1>4, Families DEF Related, QueueMay
  <2>2. Clean(f) /\ Clean(s) /\ ActiveOf(s) \subseteq (ActiveOf(s))' /\ ActiveOf(f) \subseteq (ActiveOf(f))'
    BY <1>1, <1>4, CleanKept
  <2>3. ActiveOf(s) # {}
    BY <2>1, <1>3, <1>4
  <2>4. PICK o \in Opportunity : (ActiveOf(s))' = {o}
    BY <1>4, OneOpportunity DEF ActiveOf
  <2>5. ActiveOf(s) = {o}
    BY <2>2, <2>3, <2>4
  <2>6. Cardinality(ActiveOf(s)) = 1
    BY <2>5, OneOpportunity
  <2> QED
    BY <2>1, <2>2, <2>6, <1>4 DEF FamilyRows
<1> QED
  BY <1>1, <1>2, <1>3, <1>4 DEF FamilyRows

LEMMA FamilyKept ==
    ASSUME StateInv, StateInv', FamilyInv, LinksMay, scene' = scene, family' = family, QueueMay,
           \A w \in Worker : JobMoves(w)
    PROVE  FamilyInv'
<1> USE RelatedStays, SceneStays
<1>1. FamilyRows'
  BY RowsKept DEF FamilyInv
<1>2. ASSUME NEW w \in Worker
      PROVE  WorkerFamily(w)'
  <2>1. CASE job'[w] = job[w]
    <3>1. FamilyGrows /\ Frozen(w)
      BY DEF FamilyGrows, Frozen, QueueMay
    <3> QED
      BY <2>1, <3>1, WorkerFamilyKept DEF FamilyInv
  <2>2. CASE job'[w] # job[w]
    <3>1. ~Attaching(w)' /\ ~At(w, "attach2")' /\ (Later(w)' <=> job'[w].step = "family2")
      BY <2>2 DEF JobMoves, At, Attaching, Later
    <3>2. ASSUME NEW x \in Signal, job'[w].signal = x
          PROVE  /\ job'[w].op = "message" /\ IsPlanning(x)
                    /\ (job'[w].step \in {"match", "link"} \/ Later(w)') => Filed(x)'
                 /\ Later(w)' /\ Class[x] = "origin" /\ Clean(x)' => (ActiveOf(x))' # {}
      <4>1. Filed(x) => Filed(x)'
        BY DEF Filed, References
      <4>2. job'[w].op = "message" /\ IsPlanning(x) /\ job'[w].step \in {"match", "link", "family2"}
            => Filed(x)
        BY <2>2, <3>2 DEF JobMoves, FamilyInv, WorkerFamily
      <4>3. job'[w].step = "family2" /\ Class[x] = "origin" /\ Clean(x)' => (ActiveOf(x))' # {}
        BY <2>2, <3>2 DEF JobMoves
      <4> QED
        BY <3>1, <4>1, <4>2, <4>3
    <3> QED
      BY <3>1, <3>2 DEF WorkerFamily
  <2> QED
    BY <2>1, <2>2
<1>3. Disjoint'
  <2> SUFFICES ASSUME NEW v \in Worker, NEW w \in Worker, NEW x \in Signal, NEW y \in Signal,
                      Attaching(v)', Attaching(w)', v # w, job'[v].signal = x, job'[w].signal = y
               PROVE  FamiliesOf(x) \cap FamiliesOf(y) = {}
    BY DEF Disjoint
  <2>1. job'[v] = job[v] /\ job'[w] = job[w]
    BY DEF JobMoves
  <2> QED
    BY <2>1 DEF FamilyInv, Disjoint, Attaching
<1> QED
  BY <1>1, <1>2, <1>3 DEF FamilyInv

LEMMA OneJobMoves ==
    ASSUME StateInv, NEW w \in Worker, NEW j, job' = [job EXCEPT ![w] = j]
    PROVE  /\ job'[w] = j /\ job' = [v \in Worker |-> job'[v]]
           /\ \A v \in Worker : v # w => job'[v] = job[v]
BY DEF StateInv

LEMMA NothingMoves ==
    ASSUME UNCHANGED link
    PROVE  LinksMay
BY DEF LinksMay, RowMay
------------------------------------------------------------------------------
(* Families: what a reconciliation reads and what it writes. *)

\* What is read for a follow-up whose only foundational application is stored.
LEMMA FollowupPlan ==
    ASSUME StateInv, NEW f \in Signal, NEW s \in Signal, Related(f, s), Filed(s),
           NEW o \in Opportunity, Clean(f), ActiveOf(s) = {o}, ActiveOf(f) = {}
    PROVE  <<o, f>> \in FamilyPlan(f)
<1> DEFINE r == Primary[s]
           foundations == {t \in Indexed(r) \ {f} : Class[t] = "origin"}
<1>1. r \in References(f) /\ f # s /\ Class[f] = "followup" /\ Class[s] = "origin" /\ r # "none"
  BY Families DEF Related
<1>2. foundations = {s}
  <2>1. s \in foundations
    BY <1>1 DEF Filed, Indexed
  <2>2. \A t \in foundations : t = s
    BY DEF Related, Indexed
  <2> QED
    BY <2>1, <2>2
<1>3. Cardinality(foundations) = 1 /\ (CHOOSE t \in foundations : TRUE) = s
  BY <1>2, FS_Singleton
<1>4. <<o, f>> \in AttachFamilySupport(r, s, family[r].references \cup {f})
  <2>1. Cardinality(ActiveOf(s)) = 1
    BY FS_Singleton
  <2>2. <<o, f>> \in ActiveOf(s) \X {g \in family[r].references \cup {f} : Class[g] = "followup"}
    BY <1>1
  <2>3. ActiveOf(f) = {} /\ ~Blocked(o, f)
    BY DEF Clean
  <2> QED
    BY <2>1, <2>2, <2>3 DEF AttachFamilySupport
<1> QED
  BY <1>1, <1>3, <1>4 DEF FamilyPlan

\* What is read for an origin with an opportunity.
LEMMA OriginPlan ==
    ASSUME StateInv, NEW f \in Signal, NEW s \in Signal, Related(f, s),
           f \in family[Primary[s]].references,
           NEW o \in Opportunity, Clean(f), ActiveOf(s) = {o}, ActiveOf(f) = {}
    PROVE  <<o, f>> \in FamilyPlan(s)
<1>1. Class[f] = "followup" /\ Class[s] = "origin" /\ Primary[s] # "none"
  BY Families DEF Related
<1>2. Cardinality(ActiveOf(s)) = 1
  BY FS_Singleton
<1>3. <<o, f>> \in ActiveOf(s) \X {g \in family[Primary[s]].references : Class[g] = "followup"}
  BY <1>1
<1>4. ActiveOf(f) = {} /\ ~Blocked(o, f)
  BY DEF Clean
<1>5. <<o, f>> \in AttachFamilySupport(Primary[s], s, family[Primary[s]].references)
  BY <1>2, <1>3, <1>4 DEF AttachFamilySupport
<1> QED
  BY <1>1, <1>5 DEF FamilyPlan

LEMMA ReadsFamily ==
    ASSUME StateInv, FamilyInv, NEW w \in Worker, ReconcileReads(w)
    PROVE  FamilyInv'
<1> DEFINE s == job[w].signal
           plan == FamilyPlan(s)
           next == IF At(w, "family") THEN "attach" ELSE "attach2"
           j == [op |-> job[w].op, step |-> next, signal |-> s, plan |-> plan]
<1>1. /\ UNCHANGED <<scene, queue, link, family>> /\ FamiliesFree(s)
      /\ At(w, "family") \/ At(w, "family2")
      /\ job' = [job EXCEPT ![w] = j]
  BY DEF ReconcileReads, Goes, rows
<1> HIDE DEF plan
<1>2. job'[w] = j /\ \A v \in Worker : v # w => job'[v] = job[v]
  BY <1>1, OneJobMoves
<1>3. s \in Signal
  BY <1>1, JobSignal DEF At
<1>4. LinksMay /\ FamilyGrows /\ QueueMay
  BY <1>1, NothingMoves DEF FamilyGrows, QueueMay
<1> USE SceneStays, RelatedStays
<1>5. FamilyRows'
  BY <1>1, <1>4, RowsKept DEF FamilyInv
<1>6. WorkerFamily(w)'
  <2>1. /\ Attaching(w)' /\ (Later(w)' <=> At(w, "family2")) /\ (At(w, "attach2")' <=> At(w, "family2"))
        /\ At(w, "family2") => Later(w)
        /\ job'[w].step \notin {"match", "link"} /\ job'[w].op = job[w].op /\ job'[w].signal = s
        /\ job'[w].plan = plan
    BY <1>1, <1>2 DEF Attaching, Later, At
  <2>2. \A x : /\ Filed(x)' <=> Filed(x)
               /\ Clean(x)' <=> Clean(x)
               /\ (ActiveOf(x))' = ActiveOf(x)
    BY <1>1 DEF Filed, Clean, ActiveOf, Blocked, References
  <2>3. ASSUME NEW y \in Signal, Related(s, y), y \notin queue
        PROVE  Attached(w, s, y)'
    <3>1. Filed(y)
      <4>1. IsPlanning(y) /\ y \in scene.signals
        BY <1>3, <2>3 DEF Related, IsPlanning
      <4> QED
        BY <2>3, <4>1 DEF FamilyInv, FamilyRows
    <3> QED
      BY <1>3, <2>1, <2>2, <2>3, <3>1, FollowupPlan DEF Attached, plan
  <2>4. ASSUME NEW y \in Signal, Related(y, s), y \in family[Primary[s]].references
        PROVE  Attached(w, y, s)'
    BY <1>3, <2>1, <2>2, <2>4, OriginPlan DEF Attached, plan
  <2>5. job[w].op = "message" /\ IsPlanning(s) /\ Later(w) => Filed(s)
    BY <1>3 DEF FamilyInv, WorkerFamily
  <2>6. Later(w) /\ Class[s] = "origin" /\ Clean(s) => ActiveOf(s) # {}
    BY <1>3 DEF FamilyInv, WorkerFamily
  <2> QED
    BY <1>1, <2>1, <2>2, <2>3, <2>4, <2>5, <2>6 DEF WorkerFamily
<1>7. \A v \in Worker : WorkerFamily(v)'
  BY <1>1, <1>2, <1>4, <1>6, WorkerFamilyKept DEF FamilyInv, Frozen
<1>8. Disjoint'
  <2>1. \A v \in Worker : v # w /\ Attaching(v)' =>
            /\ Attaching(v) /\ job'[v] = job[v]
            /\ FamiliesOf(job[v].signal) \cap FamiliesOf(s) = {}
    BY <1>1, <1>2 DEF Attaching, FamiliesFree
  <2> QED
    BY <1>1, <1>2, <2>1 DEF FamilyInv, Disjoint
<1> QED
  BY <1>5, <1>7, <1>8 DEF FamilyInv

LEMMA WriteEnds ==
    ASSUME StateInv, NEW w \in Worker, At(w, "attach") \/ At(w, "attach2"), Continue(w)
    PROVE  /\ ~Attaching(w)' /\ ~Later(w)' /\ ~At(w, "attach2")'
           /\ job'[w].step \in {"idle", "match"} /\ job'[w].signal \in {0, job[w].signal}
           /\ job'[w].op \in {"idle", job[w].op}
           /\ \A v \in Worker : v # w => job'[v] = job[v]
           /\ \A y : y \notin queue' => y \notin queue \/ (y = job[w].signal /\ At(w, "attach2"))
<1> DEFINE next == NextStep(job[w].op, job[w].step, job[w].signal)
           goes == [op |-> job[w].op, step |-> next, signal |-> job[w].signal, plan |-> {}]
<1>1. \/ At(w, "attach") /\ job[w].op \in {"message", "reconcile"}
      \/ At(w, "attach2") /\ job[w].op = "message"
  BY DEF StateInv, Shape, At
<1>2. \/ At(w, "attach") /\ next \in {"idle", "match"}
      \/ At(w, "attach2") /\ next = "deleted"
  BY <1>1 DEF NextStep, At
<1>3. /\ job' = [job EXCEPT ![w] = IF next \in {"idle", "deleted"} THEN Idle ELSE goes]
      /\ queue' = IF next = "deleted" THEN queue \ {job[w].signal} ELSE queue
  BY DEF Continue, Stop, Goes
<1> HIDE DEF next
<1>4. /\ job'[w] = IF next \in {"idle", "deleted"} THEN Idle ELSE goes
      /\ \A v \in Worker : v # w => job'[v] = job[v]
  BY <1>3, OneJobMoves
<1>5. /\ job'[w].step \in {"idle", "match"} /\ job'[w].signal \in {0, job[w].signal}
      /\ job'[w].op \in {"idle", job[w].op}
  BY <1>2, <1>4 DEF Idle
<1>6. ~Attaching(w)' /\ ~Later(w)' /\ ~At(w, "attach2")'
  BY <1>5 DEF Attaching, Later, At
<1>7. \A y : y \notin queue' => y \notin queue \/ (y = job[w].signal /\ At(w, "attach2"))
  <2>1. CASE next = "deleted"
    <3>1. At(w, "attach2") /\ queue' = queue \ {job[w].signal}
      BY <1>2, <1>3, <2>1
    <3> QED
      BY <3>1
  <2>2. CASE next # "deleted"
    BY <1>3, <2>2
  <2> QED
    BY <2>1, <2>2
<1> QED
  BY <1>4, <1>5, <1>6, <1>7

LEMMA InsertedLinks ==
    ASSUME TypeOK, NEW pairs, link' = InsertLinks(pairs)
    PROVE  /\ LinksMay
           /\ link' = [o \in Opportunity |-> [s \in Signal |-> link'[o][s]]]
           /\ \A o \in Opportunity, s \in Signal :
                 /\ <<o, s>> \in pairs /\ ~Blocked(o, s) => o \in (ActiveOf(s))'
                 /\ link'[o][s] # link[o][s] => <<o, s>> \in pairs /\ link'[o][s] = ActiveLink("MATCHED")
<1>1. link' = [o \in Opportunity |-> [s \in Signal |-> link'[o][s]]]
  BY DEF InsertLinks
<1>2. ASSUME NEW o \in Opportunity, NEW s \in Signal
      PROVE  /\ link'[o][s] = IF <<o, s>> \in pairs /\ link[o][s] = NoLink
                              THEN ActiveLink("MATCHED") ELSE link[o][s]
             /\ link[o][s] \in LinkRow
  BY DEF InsertLinks, TypeOK
<1>3. "MATCHED" \in Maker
  BY DEF Maker
<1>4. \A o \in Opportunity, s \in Signal : RowMay(link[o][s], link'[o][s])
  <2> SUFFICES ASSUME NEW o \in Opportunity, NEW s \in Signal
               PROVE  RowMay(link[o][s], link'[o][s])
    OBVIOUS
  <2> QED
    BY <1>2, <1>3 DEF RowMay
<1>5. ASSUME NEW o \in Opportunity, NEW s \in Signal, <<o, s>> \in pairs, ~Blocked(o, s)
      PROVE  link'[o][s].status = "ACTIVE"
  <2>1. CASE link[o][s] = NoLink
    BY <1>2, <1>3, <1>5, <2>1, LinkRows
  <2>2. CASE link[o][s] # NoLink
    <3>1. link'[o][s] = link[o][s] /\ link[o][s] \in LinkRow \ {NoLink}
      BY <1>2, <2>2
    <3>2. link[o][s].status \in {"ACTIVE", "REJECTED"}
      BY <3>1, LinkRows
    <3>3. link[o][s].status # "REJECTED"
      BY <1>5 DEF Blocked
    <3> QED
      BY <3>1, <3>2, <3>3
  <2> QED
    BY <2>1, <2>2
<1> QED
  BY <1>1, <1>2, <1>4, <1>5 DEF LinksMay, ActiveOf

LEMMA WritesFamily ==
    ASSUME StateInv, FamilyInv, NEW w \in Worker, ReconcileWrites(w)
    PROVE  FamilyInv'
<1>1. /\ UNCHANGED <<scene, opportunity>> /\ link' = InsertLinks(job[w].plan)
      /\ At(w, "attach") \/ At(w, "attach2")
      /\ TypeOK /\ Continue(w)
  BY DEF ReconcileWrites, StateInv
<1> PICK x \in Signal : job[w].signal = x
  BY <1>1, JobSignal DEF At
<1>2. /\ ~Attaching(w)' /\ ~Later(w)' /\ ~At(w, "attach2")'
      /\ job'[w].step \in {"idle", "match"} /\ job'[w].signal \in {0, x}
      /\ \A v \in Worker : v # w => job'[v] = job[v]
      /\ \A y \in Signal : y \notin queue' => y \notin queue \/ (y = x /\ At(w, "attach2"))
  BY <1>1, WriteEnds
<1>3. /\ \A r \in Reference : /\ family[r].primary \subseteq family'[r].primary
                              /\ family'[r].references
                                 = family[r].references \cup (IF r \in References(x) THEN {x} ELSE {})
      /\ Primary[x] \in Reference => x \in family'[Primary[x]].primary
  BY DEF ReconcileWrites
<1>4. FamilyGrows /\ LinksMay
  <2>1. FamilyGrows
    BY <1>3 DEF FamilyGrows
  <2> QED
    BY <1>1, <2>1, InsertedLinks
<1> USE SceneStays, RelatedStays
<1>5. Filed(x)'
  <2>1. References(x) \subseteq Reference /\ Primary[x] \in Reference \cup {"none"}
    BY <1>1, Families, SceneTyped DEF StateInv
  <2> QED
    <3>1. /\ Primary[x] # "none" => x \in family'[Primary[x]].primary
          /\ \A r \in References(x) : x \in family'[r].references
      BY <1>3, <2>1
    <3>2. Primary' = Primary /\ References(x)' = References(x)
      BY <1>1
    <3> QED
      BY <3>1, <3>2 DEF Filed
<1>6. ASSUME NEW f \in Signal, NEW s \in Signal, NEW o \in Opportunity, Attached(w, f, s),
             Clean(f)', Clean(s)', ActiveOf(s) = {o}
      PROVE  (ActiveOf(f))' # {}
  <2>1. Clean(f) /\ Clean(s) /\ ActiveOf(f) \subseteq (ActiveOf(f))'
    BY <1>1, <1>4, <1>6, CleanKept
  <2>2. ActiveOf(f) # {} \/ <<o, f>> \in job[w].plan
    BY <2>1, <1>6 DEF Attached
  <2> QED
    BY <1>1, <2>1, <2>2, InsertedLinks DEF Clean
<1>7. FamilyRows'
  <2>1. ASSUME NEW y \in scene.signals, IsPlanning(y), y \notin queue'
        PROVE  Filed(y)'
    <3>1. y \in Signal
      BY SceneTyped DEF StateInv
    <3>2. CASE y \notin queue
      BY <1>1, <1>4, <2>1, <3>1, <3>2, FiledStays DEF FamilyInv, FamilyRows
    <3>3. y \notin queue \/ y = x
      BY <1>2, <2>1, <3>1
    <3> QED
      BY <1>5, <3>2, <3>3
  <2>2. ASSUME NEW s \in scene.signals, Class[s] = "origin", s \notin queue', Clean(s)'
        PROVE  ActiveOf(s) # {} /\ Clean(s) /\ ActiveOf(s) \subseteq (ActiveOf(s))'
    <3>1. s \in Signal
      BY SceneTyped DEF StateInv
    <3>2. Clean(s) /\ ActiveOf(s) \subseteq (ActiveOf(s))'
      BY <1>1, <1>4, <2>2, <3>1, CleanKept
    <3>3. CASE s \notin queue
      BY <2>2, <3>2, <3>3 DEF FamilyInv, FamilyRows
    <3>4. CASE s = x /\ At(w, "attach2")
      BY <2>2, <3>1, <3>2, <3>4 DEF FamilyInv, WorkerFamily, Later, At
    <3> QED
      BY <1>2, <2>2, <3>1, <3>2, <3>3, <3>4
  <2>3. ASSUME NEW f \in Signal, NEW s \in Signal, Related(f, s), s \notin queue',
               f \in family'[Primary[s]].references, Clean(f)', Clean(s)',
               Cardinality(ActiveOf(s))' = 1
        PROVE  (ActiveOf(f))' # {}
    <3>1. /\ Primary[s] \in Reference /\ s \in scene.signals /\ Class[s] = "origin" /\ f # s
      BY <2>3, Families DEF Related
    <3>2. ActiveOf(s) # {} /\ ActiveOf(s) \subseteq (ActiveOf(s))'
      BY <2>2, <2>3, <3>1
    <3>3. PICK o \in Opportunity : (ActiveOf(s))' = {o}
      BY <2>3, OneOpportunity DEF ActiveOf
    <3>4. ActiveOf(s) = {o} /\ Cardinality(ActiveOf(s)) = 1
      BY <3>2, <3>3, OneOpportunity
    <3>5. CASE s \notin queue /\ f = x
      BY <1>1, <1>6, <2>3, <3>4, <3>5 DEF FamilyInv, WorkerFamily, Attaching, At
    <3>6. CASE s \notin queue /\ f # x
      <4>1. f \in family[Primary[s]].references
        BY <1>3, <2>3, <3>1, <3>6
      <4>2. Clean(f) /\ Clean(s) /\ ActiveOf(f) \subseteq (ActiveOf(f))'
        BY <1>1, <1>4, <2>3, CleanKept
      <4> QED
        BY <2>3, <3>4, <3>6, <4>1, <4>2 DEF FamilyInv, FamilyRows
    <3>7. CASE s = x /\ At(w, "attach2")
      <4>1. f \in family[Primary[s]].references
        BY <1>3, <2>3, <3>1, <3>7
      <4> QED
        BY <1>6, <2>3, <3>4, <3>7, <4>1 DEF FamilyInv, WorkerFamily
    <3> QED
      BY <1>2, <2>3, <3>5, <3>6, <3>7
  <2> QED
    <3>1. /\ scene' = scene /\ Class' = Class /\ Primary' = Primary
          /\ \A f, s \in Signal : Related(f, s)' <=> Related(f, s)
          /\ \A y \in Signal : IsPlanning(y)' <=> IsPlanning(y)
          /\ scene.signals \subseteq Signal
      BY <1>1, SceneTyped DEF StateInv
    <3> QED
      BY <2>1, <2>2, <2>3, <3>1 DEF FamilyRows
<1>8. ASSUME NEW v \in Worker
      PROVE  WorkerFamily(v)'
  <2>1. CASE v = w
    <3>1. \A y \in Signal : job'[w].signal = y => y = x
      BY <1>2, SignalsAssumption
    <3> QED
      BY <1>2, <1>5, <2>1, <3>1 DEF WorkerFamily
  <2>2. CASE v # w
    <3>1. ASSUME Attaching(v), NEW r \in FamiliesOf(job[v].signal)
          PROVE  /\ family'[r].references = family[r].references
                 /\ \A s \in Signal : Primary[s] = r /\ IsPlanning(s) /\ s \notin queue' => s \notin queue
      <4>1. job[v].signal \in Signal
        BY <3>1, JobSignal DEF Attaching
      <4>2. r \in Reference
        BY <3>1, <4>1, Families
      <4>3. r \notin FamiliesOf(x)
        BY <1>1, <2>2, <3>1, <4>1 DEF FamilyInv, Disjoint, Attaching, At
      <4>4. r \notin References(x) /\ r # Primary[x]
        BY <4>2, <4>3, SignalsAssumption DEF FamiliesOf
      <4> QED
        BY <1>2, <1>3, <4>2, <4>4
    <3>2. Frozen(v)
      BY <3>1 DEF Frozen
    <3> QED
      BY <1>1, <1>2, <1>4, <2>2, <3>2, WorkerFamilyKept DEF FamilyInv
  <2> QED
    BY <2>1, <2>2
<1>9. Disjoint'
  <2>1. \A v \in Worker : Attaching(v)' => v # w /\ Attaching(v) /\ job'[v] = job[v]
    BY <1>2 DEF Attaching
  <2> QED
    BY <1>1, <2>1 DEF FamilyInv, Disjoint
<1> QED
  BY <1>7, <1>8, <1>9 DEF FamilyInv
------------------------------------------------------------------------------
(* Frames: the state and what each step keeps. *)

\* What EvidenceIsNotLost says of a step.
EvidenceKept ==
    \A s \in Signal : ActiveOf(s) # {} /\ (ActiveOf(s))' = {} =>
        \/ \E o \in Opportunity : UnlinkSignal(o, s)
        \/ \E w \in Worker : At(w, "facts") /\ job[w].signal = s /\ Class[s] = "routine"

StepOK == IInv' /\ LinksMay /\ EvidenceKept

RowsTyped ==
    /\ opportunity' \in [Opportunity -> OpportunityRow]
    /\ link' = [o \in Opportunity |-> [s \in Signal |-> link'[o][s]]]
    /\ overridden' \in [Opportunity -> BOOLEAN]
    /\ review' \in [Opportunity -> [Signal ->
           {"none", "PENDING", "LINKED", "REJECTED", "SUPERSEDED"}]]

\* Rows of opportunities are inserted and never deleted, and only those that
\* are there have links.
RowsMay ==
    /\ LinksMay
    /\ \A o \in Opportunity :
          /\ opportunity'[o].status = "MERGED" => opportunity'[o].into # 0
          /\ opportunity[o].status # "none" => opportunity'[o].status # "none"
          /\ \A s \in Signal : link'[o][s] # link[o][s] => opportunity'[o].status # "none"

JobsMay ==
    /\ job' = [w \in Worker |-> job'[w]]
    /\ \A w \in Worker : job'[w] = job[w] \/ Shape(job'[w], scene, Existing')

RestMay ==
    /\ scene' = scene /\ queue' \subseteq scene.signals /\ enriched' \subseteq scene.signals
    /\ approved' \subseteq enriched' /\ events' \in 0..MaxEvents
    /\ family' \in [Reference -> [primary: SUBSET Signal, references: SUBSET Signal]]

LEMMA ShapeGrows ==
    ASSUME NEW j, NEW c, NEW old, NEW new, old \subseteq new, Shape(j, c, old)
    PROVE  Shape(j, c, new)
<1>1. MergePlan(j.plan, old) => MergePlan(j.plan, new)
  BY DEF MergePlan
<1>2. j.plan \in SUBSET (old \X Signal) => j.plan \in SUBSET (new \X Signal)
  OBVIOUS
<1>3. j.plan \in [match: old \cup {0}, uncertain: SUBSET Opportunity]
      => j.plan \in [match: new \cup {0}, uncertain: SUBSET Opportunity]
  OBVIOUS
<1> HIDE DEF MergePlan
<1> QED
  BY <1>1, <1>2, <1>3 DEF Shape

LEMMA LinksTyped ==
    ASSUME TypeOK, LinksMay, NEW o \in Opportunity, NEW s \in Signal
    PROVE  link'[o][s] \in LinkRow
<1>1. link[o][s] \in LinkRow /\ RowMay(link[o][s], link'[o][s])
  BY DEF TypeOK, LinksMay
<1>2. "ADMIN" \in Maker
  BY DEF Maker
<1> QED
  BY <1>1, <1>2, LinkRows DEF RowMay

LEMMA StateKept ==
    ASSUME StateInv, RowsTyped, RowsMay, JobsMay, RestMay, AdminInv'
    PROVE  StateInv'
<1>1. scene \in Scene /\ scene.signals \subseteq Signal /\ TypeOK
  BY SceneTyped DEF StateInv
<1>2. Existing \subseteq Existing'
  BY DEF RowsMay, Existing
<1>3. \A w \in Worker : Shape(job'[w], scene, Existing')
  BY <1>2, ShapeGrows DEF StateInv, JobsMay
<1>4. \A w \in Worker : job'[w].signal \in Signal \cup {0}
  BY <1>1, <1>3 DEF Shape
<1>5. link' \in [Opportunity -> [Signal -> LinkRow]]
  BY <1>1, LinksTyped DEF RowsTyped, RowsMay
<1>6. ASSUME NEW o \in Opportunity, opportunity'[o].status = "none", NEW s \in Signal
      PROVE  link'[o][s] = NoLink
  BY <1>1, <1>6 DEF RowsMay, TypeOK
<1>7. TypeOK'
  BY <1>1, <1>4, <1>5, <1>6 DEF TypeOK, RowsTyped, RowsMay, RestMay, MaxEvents
<1> QED
  BY <1>1, <1>3, <1>7 DEF StateInv, RestMay, JobsMay

LEMMA OneJobMay ==
    ASSUME StateInv, NEW w \in Worker, NEW j, job' = [job EXCEPT ![w] = j],
           Shape(j, scene, Existing')
    PROVE  JobsMay
BY OneJobMoves DEF JobsMay

LEMMA JobsRest ==
    ASSUME StateInv, UNCHANGED job
    PROVE  JobsMay
BY DEF StateInv, JobsMay

LEMMA RowsRest ==
    ASSUME StateInv, UNCHANGED rows
    PROVE  RowsTyped /\ RowsMay /\ Existing' = Existing /\ EvidenceKept
<1>1. /\ UNCHANGED <<opportunity, link, overridden, review>> /\ TypeOK
  BY DEF rows, StateInv
<1>2. RowsTyped
  BY <1>1 DEF TypeOK, RowsTyped
<1>3. RowsMay
  BY <1>1, NothingMoves DEF RowsMay, TypeOK
<1> QED
  BY <1>1, <1>2, <1>3 DEF Existing, EvidenceKept, ActiveOf

LEMMA EvidenceGrows ==
    ASSUME \A o \in Opportunity, s \in Signal :
               link[o][s].status = "ACTIVE" => link'[o][s].status = "ACTIVE"
    PROVE  EvidenceKept
BY DEF EvidenceKept, ActiveOf

LEMMA CreatedKept ==
    ASSUME CreatedInv,
           \A o \in Opportunity, s \in Signal : Created(o, s)' => Created(o, s),
           \A w \in Worker : At(w, "link")' => job'[w] = job[w]
    PROVE  CreatedInv'
<1>1. \A s \in Signal : \A o, p \in Opportunity : Created(o, s)' /\ Created(p, s)' => o = p
  BY DEF CreatedInv
<1>2. ASSUME NEW w \in Worker, NEW s \in Signal, At(w, "link")', job'[w].signal = s
      PROVE  /\ \A o \in Opportunity : ~Created(o, s)'
             /\ \A v \in Worker : At(v, "link")' /\ job'[v].signal = s => v = w
  <2>1. \A v \in Worker : At(v, "link")' => At(v, "link") /\ job'[v] = job[v]
    BY DEF At
  <2> QED
    BY <1>2, <2>1 DEF CreatedInv
<1> QED
  BY <1>1, <1>2 DEF CreatedInv

LEMMA AdminKept ==
    ASSUME AdminInv, RowsMay, admin' \in {admin, NoRequest}
    PROVE  AdminInv'
<1>1. Existing \subseteq Existing'
  BY DEF RowsMay, Existing
<1> QED
  BY <1>1 DEF AdminInv, NoRequest

LEMMA NatMin ==
    ASSUME NEW some \in SUBSET Nat, some # {}
    PROVE  \E m \in some : \A n \in some : m <= n
<1> DEFINE below == {1..n : n \in some}
<1>1. below \subseteq FiniteSubsetsOf(Nat) /\ below # {}
  <2>1. \A n \in some : 1..n \in SUBSET Nat
    OBVIOUS
  <2>2. \A n \in some : IsFiniteSet(1..n)
    BY FS_Interval
  <2> QED
    BY <2>1, <2>2 DEF FiniteSubsetsOf
<1>2. PICK x \in below : \A y \in below : <<y, x>> \notin StrictSubsetOrdering(Nat)
  <2> HIDE DEF below
  <2>1. IsWellFoundedOn(StrictSubsetOrdering(Nat), FiniteSubsetsOf(Nat))
    BY FS_StrictSubsetOrderingWellFounded
  <2> QED
    BY <1>1, <2>1, WFMin
<1>3. PICK m \in some : x = 1..m
  BY <1>2
<1>4. ASSUME NEW n \in some, n < m
      PROVE  FALSE
  <2>1. <<1..n, 1..m>> \notin StrictSubsetOrdering(Nat)
    BY <1>2, <1>3
  <2>2. 1..n \subseteq 1..m /\ m \in 1..m /\ m \notin 1..n
    BY <1>4
  <2>3. 1..n \in SUBSET Nat /\ 1..m \in SUBSET Nat
    OBVIOUS
  <2> QED
    BY <2>1, <2>2, <2>3 DEF StrictSubsetOrdering
<1> QED
  BY <1>3, <1>4

LEMMA MinIn ==
    ASSUME NEW some \in SUBSET Opportunity, some # {}
    PROVE  Min(some) \in some
<1>1. some \in SUBSET Nat
  BY SignalsAssumption
<1>2. \E m \in some : \A n \in some : m <= n
  BY <1>1, NatMin
<1> QED
  BY <1>2 DEF Min

LEMMA Exist ==
    ASSUME StateInv
    PROVE  /\ Existing \subseteq Opportunity /\ Current \subseteq Existing
           /\ \A s \in Signal : ActiveOf(s) \subseteq Existing
           /\ Unused \subseteq Opportunity \ Existing
           /\ \A o \in Opportunity, s \in Signal : link[o][s] # NoLink => o \in Existing
<1>1. \A o \in Opportunity, s \in Signal : link[o][s] # NoLink => o \in Existing
  BY DEF StateInv, TypeOK, Existing
<1>2. \A s \in Signal : ActiveOf(s) \subseteq Existing
  BY <1>1, LinkRows DEF ActiveOf
<1>3. Unused \subseteq Opportunity \ Existing
  BY SceneTyped DEF StateInv, Unused, Existing
<1> QED
  BY <1>1, <1>2, <1>3 DEF Existing, Current

LEMMA SupportTyped ==
    ASSUME StateInv, NEW r, NEW origin \in Signal, NEW followups \in SUBSET Signal
    PROVE  AttachFamilySupport(r, origin, followups) \subseteq Existing \X Signal
<1> DEFINE mine == ActiveOf(origin)
           support == {f \in followups : Class[f] = "followup"}
<1>1. mine \subseteq Existing /\ support \subseteq Signal
  BY Exist
<1>2. {p \in mine \X support : ActiveOf(p[2]) = {} /\ ~Blocked(p[1], p[2])} \subseteq Existing \X Signal
  BY <1>1
<1>3. {<<o, origin>> : o \in {p \in Opportunity : /\ \E f \in support : ActiveOf(f) = {p}
                                                /\ ~Blocked(p, origin)
                                                /\ origin \in approved}} \subseteq Existing \X Signal
  <2>1. ASSUME NEW p \in Opportunity, NEW f \in support, ActiveOf(f) = {p}
        PROVE  p \in Existing
    BY <1>1, <2>1, Exist
  <2> QED
    BY <2>1
<1> QED
  BY <1>2, <1>3 DEF AttachFamilySupport

LEMMA PlanTyped ==
    ASSUME StateInv, NEW s \in Signal
    PROVE  FamilyPlan(s) \in SUBSET (Existing \X Signal)
<1>0. /\ References(s) \subseteq Reference /\ Primary[s] \in Reference \cup {"none"}
      /\ \A r \in Reference : family[r].references \in SUBSET Signal
  BY Families, SceneTyped DEF StateInv, TypeOK
<1> DEFINE foundations(r) == {t \in Indexed(r) \ {s} : Class[t] = "origin"}
           known(r) == AttachFamilySupport(r, CHOOSE t \in foundations(r) : TRUE,
                                           family[r].references \cup {s})
<1>1. ASSUME Primary[s] # "none"
      PROVE  AttachFamilySupport(Primary[s], s, family[Primary[s]].references) \subseteq Existing \X Signal
  BY <1>0, <1>1, SupportTyped
<1>2. ASSUME NEW r \in References(s), Cardinality(foundations(r)) = 1
      PROVE  known(r) \subseteq Existing \X Signal
  <2>1. foundations(r) \subseteq Signal /\ IsFiniteSet(foundations(r))
    BY SignalsAssumption, FS_Subset DEF Indexed
  <2>2. foundations(r) # {}
    BY <1>2, <2>1, FS_EmptySet
  <2>3. (CHOOSE t \in foundations(r) : TRUE) \in Signal
    BY <2>1, <2>2
  <2> QED
    BY <1>0, <2>3, SupportTyped
<1> SUFFICES ASSUME NEW p \in FamilyPlan(s)
             PROVE  p \in Existing \X Signal
  OBVIOUS
<1>3. \/ /\ Primary[s] # "none"
         /\ p \in AttachFamilySupport(Primary[s], s, family[Primary[s]].references)
      \/ \E r \in References(s) : Cardinality(foundations(r)) = 1 /\ p \in known(r)
  BY DEF FamilyPlan
<1> QED
  BY <1>1, <1>2, <1>3
------------------------------------------------------------------------------
(* Steps that leave the rows alone. *)

LEMMA QuietStep ==
    ASSUME IInv, UNCHANGED <<rows, family>>, JobsMay, RestMay, AdminInv', QueueMay, CreatedInv',
           \A w \in Worker : JobMoves(w)
    PROVE  StepOK
<1>1. StateInv /\ FamilyInv /\ RowsTyped /\ RowsMay /\ EvidenceKept
  BY RowsRest DEF IInv
<1>2. StateInv'
  BY <1>1, StateKept
<1>3. FamilyInv'
  BY <1>1, <1>2, FamilyKept DEF RowsMay, RestMay
<1> QED
  BY <1>1, <1>2, <1>3 DEF StepOK, IInv, RowsMay

LEMMA CreatedRests ==
    ASSUME IInv, UNCHANGED link, \A w \in Worker : At(w, "link")' => job'[w] = job[w]
    PROVE  CreatedInv'
<1>1. \A o \in Opportunity, s \in Signal : Created(o, s)' => Created(o, s)
  BY DEF Created
<1> QED
  BY <1>1, CreatedKept DEF IInv

LEMMA RestRests ==
    ASSUME IInv, UNCHANGED <<scene, family>>, queue' \subseteq scene.signals,
           enriched' \subseteq scene.signals, approved' \subseteq enriched', events' \in 0..MaxEvents
    PROVE  RestMay
BY DEF IInv, StateInv, TypeOK, RestMay

\* A job starts, goes on elsewhere than to attaching, or ends.
LEMMA QuietJob ==
    ASSUME IInv, NEW w \in Worker, NEW j, job' = [job EXCEPT ![w] = j],
           UNCHANGED <<rows, family, admin>>, RestMay, QueueMay, Shape(j, scene, Existing),
           j.step \in {"idle", "family", "match", "merge"},
           j.step = "match" => j.op # "message" \/ ~IsPlanning(j.signal)
    PROVE  StepOK
<1>1. StateInv /\ RowsMay /\ Existing' = Existing
  BY RowsRest DEF IInv
<1>2. job'[w] = j /\ (\A v \in Worker : v # w => job'[v] = job[v]) /\ JobsMay
  BY <1>1, OneJobMoves, OneJobMay
<1>3. AdminInv'
  BY <1>1, AdminKept DEF StateInv
<1>4. CreatedInv'
  BY <1>2, CreatedRests DEF At, rows
<1>5. \A v \in Worker : JobMoves(v)
  BY <1>2 DEF JobMoves, Attaching
<1> QED
  BY <1>2, <1>3, <1>4, <1>5, QuietStep

LEMMA IdleShape ==
    ASSUME NEW c, NEW existing
    PROVE  Shape(Idle, c, existing) /\ Idle.step = "idle"
BY DEF Idle, Shape

LEMMA FailKeeps ==
    ASSUME IInv, NEW w \in Worker, Fail(w)
    PROVE  StepOK
<1>1. /\ job' = [job EXCEPT ![w] = Idle]
      /\ UNCHANGED <<scene, queue, enriched, approved, rows, family, admin, events>>
  BY DEF Fail, Stop
<1>2. RestMay /\ QueueMay
  BY <1>1, RestRests DEF IInv, StateInv, TypeOK, QueueMay, MaxEvents
<1> QED
  BY <1>1, <1>2, IdleShape, QuietJob

LEMMA TakeMessageKeeps ==
    ASSUME IInv, NEW w \in Worker, NEW s \in Signal, TakeMessage(w, s)
    PROVE  StepOK
<1> DEFINE step == IF IsPlanning(s) THEN "family" ELSE "match"
           j == [op |-> "message", step |-> step, signal |-> s, plan |-> {}]
<1>1. /\ job' = [job EXCEPT ![w] = j] /\ s \in queue /\ enriched' = enriched \cup {s}
      /\ UNCHANGED <<scene, queue, approved, rows, family, admin, events>>
  BY DEF TakeMessage, Start
<1>2. s \in scene.signals
  BY <1>1 DEF IInv, StateInv
<1>3. RestMay /\ QueueMay
  <2>1. enriched' \subseteq scene.signals /\ approved' \subseteq enriched' /\ queue' \subseteq scene.signals
    BY <1>1, <1>2 DEF IInv, StateInv, TypeOK
  <2>2. events' \in 0..MaxEvents
    BY <1>1 DEF IInv, StateInv, TypeOK, MaxEvents
  <2> QED
    BY <1>1, <2>1, <2>2, RestRests DEF QueueMay
<1>4. Shape(j, scene, Existing)
  BY <1>2 DEF Shape, IsPlanning, Class
<1> QED
  BY <1>1, <1>3, <1>4, QuietJob

LEMMA ResterStep ==
    ASSUME IInv, UNCHANGED <<rows, family, job>>, RestMay, QueueMay, AdminInv'
    PROVE  StepOK
<1>1. JobsMay /\ CreatedInv'
  BY JobsRest, CreatedRests DEF IInv, rows
<1>2. \A w \in Worker : JobMoves(w)
  BY DEF JobMoves
<1> QED
  BY <1>1, <1>2, QuietStep

LEMMA EventsCounted ==
    ASSUME IInv, UNCHANGED <<scene, events>> \/ (scene' = scene /\ \E kind : Event(kind))
    PROVE  events' \in 0..MaxEvents
BY SignalsAssumption DEF IInv, StateInv, TypeOK, Event, MaxEvents

LEMMA SendAgainKeeps ==
    ASSUME IInv, NEW s \in scene.signals, SendAgain(s)
    PROVE  StepOK
<1>1. /\ queue' = queue \cup {s} /\ Event("replay")
      /\ UNCHANGED <<scene, enriched, approved, rows, family, job, admin>>
  BY DEF SendAgain
<1>2. events' \in 0..MaxEvents
  BY <1>1, EventsCounted
<1>3. RestMay /\ QueueMay
  <2>1. queue' \subseteq scene.signals /\ enriched' \subseteq scene.signals /\ approved' \subseteq enriched'
    BY <1>1 DEF IInv, StateInv, TypeOK
  <2> QED
    BY <1>1, <1>2, <2>1, RestRests DEF QueueMay
<1>4. AdminInv'
  BY <1>1, RowsRest, AdminKept DEF IInv, StateInv
<1> QED
  BY <1>1, <1>3, <1>4, ResterStep

LEMMA ApproveKeeps ==
    ASSUME IInv, NEW s \in scene.signals, Approve(s)
    PROVE  StepOK
<1>1. /\ s \in enriched /\ approved' = approved \cup {s}
      /\ UNCHANGED <<scene, queue, enriched, rows, family, job, admin, events>>
  BY DEF Approve
<1>2. events' \in 0..MaxEvents
  BY <1>1, EventsCounted
<1>3. RestMay /\ QueueMay
  <2>1. queue' \subseteq scene.signals /\ enriched' \subseteq scene.signals /\ approved' \subseteq enriched'
    BY <1>1 DEF IInv, StateInv, TypeOK
  <2> QED
    BY <1>1, <1>2, <2>1, RestRests DEF QueueMay
<1>4. AdminInv'
  BY <1>1, RowsRest, AdminKept DEF IInv, StateInv
<1> QED
  BY <1>1, <1>3, <1>4, ResterStep

LEMMA CheckRequestKeeps ==
    ASSUME IInv, CheckRequest
    PROVE  StepOK
<1>1. UNCHANGED <<scene, queue, enriched, approved, rows, family, job>> /\ \E kind : Event(kind)
  BY DEF CheckRequest
<1>2. events' \in 0..MaxEvents
  BY <1>1, EventsCounted
<1>3. RestMay /\ QueueMay
  <2>1. queue' \subseteq scene.signals /\ enriched' \subseteq scene.signals /\ approved' \subseteq enriched'
    BY <1>1 DEF IInv, StateInv, TypeOK
  <2> QED
    BY <1>1, <1>2, <2>1, RestRests DEF QueueMay
<1>4. AdminInv'
  <2>1. Existing' = Existing /\ Current \subseteq Existing /\ enriched \subseteq Signal
    BY <1>1, RowsRest, Exist, SceneTyped DEF IInv, StateInv
  <2>2. CASE \E o \in Current, s \in enriched : Event("link") /\ Request("link", o, 0, s)
    BY <2>1, <2>2 DEF Request, AdminInv
  <2>3. CASE \E o, p \in Current : o # p /\ Event("merge") /\ Request("merge", o, p, 0)
    BY <2>1, <2>3 DEF Request, AdminInv
  <2>4. CASE \E s \in enriched : ActiveOf(s) = {} /\ Event("create") /\ Request("create", 0, 0, s)
    BY <2>1, <2>4 DEF Request, AdminInv
  <2>5. CASE \E o \in Opportunity, s \in Signal :
                 review[o][s] = "PENDING" /\ Event("review") /\ Request("accept", o, 0, s)
    BY <2>1, <2>5 DEF Request, AdminInv
  <2> QED
    BY <2>2, <2>3, <2>4, <2>5 DEF CheckRequest
<1> QED
  BY <1>1, <1>3, <1>4, ResterStep

LEMMA MaintenanceRests ==
    ASSUME IInv, UNCHANGED <<scene, queue, enriched, approved, family>>, \E kind : Event(kind)
    PROVE  RestMay /\ QueueMay
<1>1. events' \in 0..MaxEvents
  BY EventsCounted
<1>2. queue' \subseteq scene.signals /\ enriched' \subseteq scene.signals /\ approved' \subseteq enriched'
  BY DEF IInv, StateInv, TypeOK
<1> QED
  BY <1>1, <1>2, RestRests DEF QueueMay

LEMMA ReconcileStoredKeeps ==
    ASSUME IInv, NEW w \in Worker, NEW s \in Signal, ReconcileStored(w, s)
    PROVE  StepOK
<1> DEFINE j == [op |-> "reconcile", step |-> "family", signal |-> s, plan |-> {}]
<1>1. /\ job' = [job EXCEPT ![w] = j] /\ s \in enriched /\ IsPlanning(s) /\ Event("reconcile")
      /\ UNCHANGED <<scene, queue, enriched, approved, rows, family, admin>>
  BY DEF ReconcileStored, Start
<1>2. RestMay /\ QueueMay
  BY <1>1, MaintenanceRests
<1>3. Shape(j, scene, Existing)
  BY <1>1 DEF IInv, StateInv, Shape, IsPlanning, Class
<1> QED
  BY <1>1, <1>2, <1>3, QuietJob

LEMMA CorrelateApprovedKeeps ==
    ASSUME IInv, NEW w \in Worker, NEW s \in Signal, CorrelateApproved(w, s)
    PROVE  StepOK
<1> DEFINE j == [op |-> "approved", step |-> "match", signal |-> s, plan |-> {}]
<1>1. /\ job' = [job EXCEPT ![w] = j] /\ s \in approved /\ Event("approved")
      /\ UNCHANGED <<scene, queue, enriched, approved, rows, family, admin>>
  BY DEF CorrelateApproved, Start
<1>2. RestMay /\ QueueMay
  BY <1>1, MaintenanceRests
<1>3. s \in scene.signals
  BY <1>1 DEF IInv, StateInv, TypeOK
<1>4. Shape(j, scene, Existing)
  BY <1>3 DEF Shape
<1> QED
  BY <1>1, <1>2, <1>4, QuietJob

\* A duplicate is planned to go to an opportunity that goes nowhere.
LEMMA PlanIsFlat ==
    ASSUME StateInv, NEW into \in [Opportunity -> Opportunity \cup {0}], ConsolidationPlan(into)
    PROVE  MergePlan(into, Existing)
<1> DEFINE group(o, t) == {p \in Current : Alike(t, p) /\ Alike(p, o)}
           targets(o) == {t \in Current : /\ t < o /\ o \in Current /\ Alike(t, o)
                                         /\ into[t] = 0
                                         /\ SystemOwned(group(o, t))}
<1>1. ASSUME NEW o \in Opportunity, into[o] # 0
      PROVE  into[o] \in targets(o)
  <2>1. into[o] = IF targets(o) = {} THEN 0 ELSE Min(targets(o))
    BY DEF ConsolidationPlan
  <2>2. targets(o) \in SUBSET Opportunity
    BY Exist
  <2> HIDE DEF targets
  <2> QED
    BY <1>1, <2>1, <2>2, MinIn
<1>2. \A o \in Opportunity : into[o] # 0 => into[o] \in Existing /\ into[into[o]] = 0
  BY <1>1, Exist
<1> QED
  BY <1>2 DEF MergePlan

LEMMA RecalculateStartsKeeps ==
    ASSUME IInv, NEW w \in Worker, NEW s \in Signal, RecalculateStarts(w, s)
    PROVE  StepOK
<1>1. PICK into \in [Opportunity -> Opportunity \cup {0}] :
          ConsolidationPlan(into) /\ Start(w, "recalculate", "merge", s, into)
  BY DEF RecalculateStarts
<1> DEFINE j == [op |-> "recalculate", step |-> "merge", signal |-> s, plan |-> into]
<1>2. /\ job' = [job EXCEPT ![w] = j] /\ s \in enriched /\ Event("recalculate")
      /\ UNCHANGED <<scene, queue, enriched, approved, rows, family, admin>>
  BY <1>1 DEF RecalculateStarts, Start
<1>3. RestMay /\ QueueMay
  BY <1>2, MaintenanceRests
<1>4. Shape(j, scene, Existing)
  BY <1>1, <1>2, PlanIsFlat DEF IInv, StateInv, Shape
<1> QED
  BY <1>2, <1>3, <1>4, QuietJob

LEMMA ReconcileReadsKeeps ==
    ASSUME IInv, NEW w \in Worker, ReconcileReads(w)
    PROVE  StepOK
<1> DEFINE s == job[w].signal
           plan == FamilyPlan(s)
           next == IF At(w, "family") THEN "attach" ELSE "attach2"
           j == [op |-> job[w].op, step |-> next, signal |-> s, plan |-> plan]
<1>1. /\ At(w, "family") \/ At(w, "family2")
      /\ job' = [job EXCEPT ![w] = j]
      /\ UNCHANGED <<scene, queue, enriched, approved, rows, family, admin, events>>
  BY DEF ReconcileReads, Goes
<1>2. s \in Signal /\ s \in scene.signals /\ StateInv
  BY <1>1, JobSignal DEF At, IInv
<1>3. plan \in SUBSET (Existing \X Signal)
  BY <1>2, PlanTyped
<1> HIDE DEF plan
<1>4. Shape(j, scene, Existing)
  BY <1>1, <1>2, <1>3 DEF At, StateInv, Shape
<1>5. RestMay
  BY <1>1, EventsCounted, RestRests DEF IInv, StateInv, TypeOK
<1>6. RowsTyped /\ RowsMay /\ Existing' = Existing /\ EvidenceKept
  BY <1>1, <1>2, RowsRest
<1>7. JobsMay /\ AdminInv'
  BY <1>1, <1>2, <1>4, <1>6, OneJobMay, AdminKept DEF StateInv
<1>8. StateInv'
  BY <1>2, <1>5, <1>6, <1>7, StateKept
<1>9. job'[w] = j /\ \A v \in Worker : v # w => job'[v] = job[v]
  BY <1>1, <1>2, OneJobMoves
<1>10. CreatedInv'
  BY <1>1, <1>9, CreatedRests DEF At, rows
<1> QED
  BY <1>2, <1>6, <1>8, <1>10, ReadsFamily DEF StepOK, IInv, RowsMay
------------------------------------------------------------------------------
(* Matching. *)

LEMMA MatchedExist ==
    ASSUME StateInv, NEW s \in Signal, NEW match \in Matches(s) \cup {0},
           NEW uncertain \in Uncertain(s, match)
    PROVE  /\ Matches(s) \subseteq {o \in Existing : ~Blocked(o, s)}
           /\ uncertain \subseteq Opportunity
<1>1. Current \subseteq Existing /\ Existing \subseteq Opportunity
  BY Exist
<1>2. \A set : Single(set, s) \subseteq {o \in set : ~Blocked(o, s)}
  BY DEF Single
<1>3. FamilyMatches(s) \subseteq Current /\ IdentityMatches(s) \subseteq Current
      /\ PossibleMatches(s) \subseteq Current /\ ReferencedLinks(s) \subseteq Current \X Signal
  BY DEF FamilyMatches, IdentityMatches, PossibleMatches, ReferencedLinks
<1>4. KnownMatches(s) \subseteq {o \in Current : ~Blocked(o, s)}
  BY <1>2, <1>3 DEF KnownMatches
<1>5. Matches(s) \subseteq {o \in Current : ~Blocked(o, s)}
  BY <1>3, <1>4 DEF Matches
<1>6. {p[1] : p \in ReferencedLinks(s)} \subseteq Current
  BY <1>3
<1>7. uncertain \subseteq Current
  BY <1>3, <1>6 DEF Uncertain
<1> QED
  BY <1>1, <1>5, <1>7

LEMMA MatchReadsKeeps ==
    ASSUME IInv, NEW w \in Worker, MatchReads(w)
    PROVE  StepOK
<1>1. /\ At(w, "match") /\ SignalFree(job[w].signal) /\ ~NothingToMatch(job[w].signal)
      /\ UNCHANGED <<scene, queue, enriched, approved, rows, family, admin, events>>
  BY DEF MatchReads
<1>2. StateInv /\ TypeOK
  BY DEF IInv, StateInv
<1>3. PICK s \in Signal : s = job[w].signal /\ s \in scene.signals
  BY <1>1, <1>2, JobSignal DEF At
<1>4. PICK match \in Matches(s) \cup {0} : \E uncertain \in Uncertain(s, match) :
          Goes(w, "link", [match |-> match, uncertain |-> uncertain])
  BY <1>3 DEF MatchReads
<1>5. PICK uncertain \in Uncertain(s, match) :
          Goes(w, "link", [match |-> match, uncertain |-> uncertain])
  BY <1>4
<1> DEFINE plan == [match |-> match, uncertain |-> uncertain]
           j == [op |-> job[w].op, step |-> "link", signal |-> s, plan |-> plan]
<1>6. job' = [job EXCEPT ![w] = j]
  BY <1>3, <1>5 DEF Goes
<1>7. plan \in [match: Existing \cup {0}, uncertain: SUBSET Opportunity]
  BY <1>2, MatchedExist
<1> HIDE DEF plan
<1>8. job[w].op \in {"message", "recalculate", "approved"}
  BY <1>1, <1>2 DEF At, StateInv, Shape
<1>9. Shape(j, scene, Existing)
  BY <1>3, <1>7, <1>8 DEF Shape
<1>10. Existing' = Existing /\ RowsMay
  BY <1>1, <1>2, RowsRest
<1>11. job'[w] = j /\ (\A v \in Worker : v # w => job'[v] = job[v]) /\ JobsMay
  BY <1>2, <1>6, <1>9, <1>10, OneJobMoves, OneJobMay
<1>12. RestMay /\ QueueMay /\ AdminInv'
  BY <1>1, <1>2, <1>10, EventsCounted, RestRests, AdminKept DEF StateInv, TypeOK, QueueMay
<1>13. \A v \in Worker : JobMoves(v)
  BY <1>1, <1>3, <1>11 DEF JobMoves, Attaching, At
<1>14. CreatedInv'
  <2>1. \A x \in Signal, o \in Opportunity : Created(o, x)' <=> Created(o, x)
    BY <1>1 DEF Created, rows
  <2>2. \A o \in Opportunity : ~Created(o, s)
    <3>1. ActiveLink("CREATED").status = "ACTIVE"
      BY LinkRows DEF Maker
    <3> QED
      BY <1>1, <1>3, <3>1 DEF NothingToMatch, Created, ActiveOf
  <2>3. \A v \in Worker : At(v, "link") => job[v].signal # s
    BY <1>1, <1>3 DEF SignalFree
  <2>4. \A v \in Worker : v # w => (At(v, "link")' <=> At(v, "link")) /\ job'[v].signal = job[v].signal
    BY <1>11 DEF At
  <2>5. \A v, u \in Worker, x \in Signal : At(v, "link")' /\ job'[v].signal = x /\
            At(u, "link")' /\ job'[u].signal = x => u = v
    <3> SUFFICES ASSUME NEW v \in Worker, NEW u \in Worker, NEW x \in Signal, u # v,
                        At(v, "link")', job'[v].signal = x, At(u, "link")', job'[u].signal = x
                 PROVE  FALSE
      OBVIOUS
    <3>1. CASE v = w \/ u = w
      BY <1>11, <2>3, <2>4, <3>1
    <3>2. CASE v # w /\ u # w
      BY <2>4, <3>2 DEF IInv, CreatedInv
    <3> QED
      BY <3>1, <3>2
  <2>6. \A v \in Worker, x \in Signal, o \in Opportunity :
            At(v, "link")' /\ job'[v].signal = x => ~Created(o, x)
    BY <1>11, <2>2, <2>4 DEF IInv, CreatedInv
  <2>7. \A x \in Signal : \A o, p \in Opportunity : Created(o, x)' /\ Created(p, x)' => o = p
    BY <2>1 DEF IInv, CreatedInv
  <2> QED
    BY <2>1, <2>5, <2>6, <2>7 DEF CreatedInv
<1> QED
  BY <1>1, <1>11, <1>12, <1>13, <1>14, QuietStep

\* How a job goes on once its signal is matched.
LEMMA MatchingDone ==
    ASSUME StateInv, NEW w \in Worker, job[w].step \in {"match", "link"},
           NEW next, next = NextStep(job[w].op, "link", job[w].signal),
           job' = [job EXCEPT ![w] = IF next = "family2"
                       THEN [op |-> job[w].op, step |-> next, signal |-> job[w].signal, plan |-> {}]
                       ELSE Idle],
           queue' = IF next = "deleted" THEN queue \ {job[w].signal} ELSE queue,
           Existing \subseteq Existing',
           next = "family2" => \A x \in Signal :
               x = job[w].signal /\ Class[x] = "origin" /\ Clean(x)' => (ActiveOf(x))' # {}
    PROVE  /\ next \in {"family2", "deleted", "idle"}
           /\ JobsMay /\ QueueMay /\ (\A v \in Worker : JobMoves(v))
           /\ \A v \in Worker : At(v, "link")' => job'[v] = job[v] /\ v # w
<1>1. /\ job[w].op \in {"message", "recalculate", "approved"} /\ job[w].signal \in scene.signals
      /\ job[w].signal \in Signal
  BY SceneTyped DEF StateInv, Shape
<1>2. /\ next \in {"family2", "deleted", "idle"}
      /\ next = "family2" => job[w].op = "message" /\ IsPlanning(job[w].signal)
      /\ next = "deleted" => ~IsPlanning(job[w].signal)
  BY <1>1 DEF NextStep
<1> DEFINE goes == [op |-> job[w].op, step |-> next, signal |-> job[w].signal, plan |-> {}]
           j == IF next = "family2" THEN goes ELSE Idle
<1>3. job'[w] = j /\ \A v \in Worker : v # w => job'[v] = job[v]
  BY OneJobMoves
<1>4. Shape(j, scene, Existing')
  <2>1. CASE next = "family2"
    BY <1>1, <1>2, <2>1 DEF Shape, IsPlanning, Class
  <2>2. CASE next # "family2"
    BY <2>2, IdleShape
  <2> QED
    BY <2>1, <2>2
<1>5. JobsMay
  BY <1>4, OneJobMay
<1>6. QueueMay
  BY <1>2 DEF QueueMay
<1>7. JobMoves(w) /\ job'[w].step # "link"
  <2>1. CASE next = "family2"
    BY <1>1, <1>2, <1>3, <2>1 DEF JobMoves, Attaching
  <2>2. CASE next # "family2"
    BY <1>3, <2>2 DEF JobMoves, Attaching, Idle
  <2> QED
    BY <2>1, <2>2
<1>8. \A v \in Worker : v # w => JobMoves(v)
  BY <1>3 DEF JobMoves
<1> QED
  BY <1>2, <1>3, <1>5, <1>6, <1>7, <1>8 DEF At

LEMMA MatchEndsKeeps ==
    ASSUME IInv, NEW w \in Worker, MatchEnds(w)
    PROVE  StepOK
<1> DEFINE next == NextStep(job[w].op, "link", job[w].signal)
<1>1. /\ At(w, "match") /\ NothingToMatch(job[w].signal)
      /\ job' = [job EXCEPT ![w] = IF next = "family2"
                     THEN [op |-> job[w].op, step |-> next, signal |-> job[w].signal, plan |-> {}]
                     ELSE Idle]
      /\ queue' = IF next = "deleted" THEN queue \ {job[w].signal} ELSE queue
      /\ UNCHANGED <<scene, enriched, approved, rows, family, admin, events>>
  BY DEF MatchEnds, Goes, Stop
<1> HIDE DEF next
<1>2. StateInv /\ RowsMay /\ Existing' = Existing /\ TypeOK
  BY <1>1, RowsRest DEF IInv, StateInv
<1>3. \A x \in Signal :
          x = job[w].signal /\ Class[x] = "origin" /\ Clean(x)' => (ActiveOf(x))' # {}
  <2>1. \A x \in Signal : (ActiveOf(x))' = ActiveOf(x)
    BY <1>1 DEF ActiveOf, rows
  <2> QED
    BY <1>1, <2>1 DEF NothingToMatch, Creation
<1>4. JobsMay /\ QueueMay /\ (\A v \in Worker : JobMoves(v))
      /\ \A v \in Worker : At(v, "link")' => job'[v] = job[v]
  BY <1>1, <1>2, <1>3, MatchingDone DEF At, next
<1>5. RestMay /\ AdminInv'
  <2>1. queue' \subseteq scene.signals /\ enriched' \subseteq scene.signals /\ approved' \subseteq enriched'
    BY <1>1, <1>2 DEF StateInv, TypeOK
  <2> QED
    BY <1>1, <1>2, <2>1, EventsCounted, RestRests, AdminKept DEF StateInv
<1>6. CreatedInv'
  BY <1>1, <1>4, CreatedRests DEF rows
<1> QED
  BY <1>1, <1>4, <1>5, <1>6, QuietStep
------------------------------------------------------------------------------
(* Steps that change rows. *)

LEMMA RowStep ==
    ASSUME IInv, RowsTyped, RowsMay, JobsMay, RestMay, AdminInv', family' = family, QueueMay,
           \A w \in Worker : JobMoves(w), CreatedInv', EvidenceKept
    PROVE  StepOK
<1>1. StateInv'
  BY StateKept DEF IInv
<1>2. FamilyInv'
  BY <1>1, FamilyKept DEF IInv, RowsMay, RestMay
<1> QED
  BY <1>1, <1>2 DEF StepOK, IInv, RowsMay

LEMMA AdminStep ==
    ASSUME IInv, UNCHANGED <<scene, queue, enriched, approved, family, job>>, RowsTyped, RowsMay,
           UNCHANGED <<scene, events>> \/ (scene' = scene /\ \E kind : Event(kind)), AdminInv',
           \A o \in Opportunity, s \in Signal : Created(o, s)' => Created(o, s), EvidenceKept
    PROVE  StepOK
<1>1. RestMay /\ QueueMay
  <2>1. queue' \subseteq scene.signals /\ enriched' \subseteq scene.signals /\ approved' \subseteq enriched'
    BY DEF IInv, StateInv, TypeOK
  <2> QED
    BY <2>1, EventsCounted, RestRests DEF QueueMay
<1>2. JobsMay /\ CreatedInv'
  BY JobsRest, CreatedKept DEF IInv
<1>3. \A w \in Worker : JobMoves(w)
  BY DEF JobMoves
<1> QED
  BY <1>1, <1>2, <1>3, RowStep

\* A step that writes suggestions only.
LEMMA ReviewStep ==
    ASSUME IInv, UNCHANGED <<opportunity, link, overridden>>,
           review' \in [Opportunity -> [Signal ->
               {"none", "PENDING", "LINKED", "REJECTED", "SUPERSEDED"}]]
    PROVE  /\ RowsTyped /\ RowsMay /\ EvidenceKept /\ Existing' = Existing
           /\ \A o \in Opportunity, s \in Signal : Created(o, s)' => Created(o, s)
<1>1. RowsTyped
  BY DEF IInv, StateInv, TypeOK, RowsTyped
<1>2. RowsMay
  BY NothingMoves DEF RowsMay, IInv, StateInv, TypeOK
<1> QED
  BY <1>1, <1>2 DEF Existing, EvidenceKept, ActiveOf, Created

LEMMA AcceptKeeps ==
    ASSUME IInv, AcceptMatchReview
    PROVE  StepOK
<1> PICK o, s : o = admin.o /\ s = admin.s
  OBVIOUS
<1>1. /\ admin.op = "accept" /\ review' = [review EXCEPT ![o][s] = "LINKED"]
      /\ IF o \in Current THEN Request("link", o, 0, s) ELSE Answered
      /\ UNCHANGED <<scene, queue, enriched, approved, opportunity, link, overridden, family,
                     job, events>>
  BY DEF AcceptMatchReview
<1>2. o \in Opportunity /\ s \in Signal /\ Current \subseteq Existing
  BY <1>1, Exist DEF IInv, StateInv, AdminInv
<1>3. review' \in [Opportunity -> [Signal ->
               {"none", "PENDING", "LINKED", "REJECTED", "SUPERSEDED"}]]
  BY <1>1, <1>2 DEF IInv, StateInv, TypeOK
<1>4. AdminInv'
  <2>1. Existing' = Existing
    BY <1>1, <1>3, ReviewStep
  <2> QED
    BY <1>1, <1>2, <2>1 DEF AdminInv, Request, Answered, NoRequest
<1> QED
  BY <1>1, <1>3, <1>4, ReviewStep, AdminStep

LEMMA RejectKeeps ==
    ASSUME IInv, NEW o \in Opportunity, NEW s \in Signal, RejectMatchReview(o, s)
    PROVE  StepOK
<1>1. /\ Event("review") /\ review' = [review EXCEPT ![o][s] = "REJECTED"]
      /\ UNCHANGED <<scene, queue, enriched, approved, opportunity, link, overridden, family,
                     job, admin>>
  BY DEF RejectMatchReview
<1>2. review' \in [Opportunity -> [Signal ->
               {"none", "PENDING", "LINKED", "REJECTED", "SUPERSEDED"}]]
  BY <1>1 DEF IInv, StateInv, TypeOK
<1>3. AdminInv'
  BY <1>1, <1>2, ReviewStep, AdminKept DEF IInv, StateInv
<1> QED
  BY <1>1, <1>2, <1>3, ReviewStep, AdminStep

LEMMA OverriddenTyped ==
    ASSUME TypeOK, NEW pairs, Overridden(pairs)
    PROVE  overridden' \in [Opportunity -> BOOLEAN]
BY DEF TypeOK, Overridden

LEMMA LinkSignalKeeps ==
    ASSUME IInv, LinkSignal
    PROVE  StepOK
<1> PICK o, s : o = admin.o /\ s = admin.s
  OBVIOUS
<1>1. /\ admin.op = "link" /\ link' = [link EXCEPT ![o][s] = ActiveLink("ADMIN")]
      /\ Overridden({<<o, s>>}) /\ admin' = NoRequest
      /\ UNCHANGED <<scene, queue, enriched, approved, opportunity, review, family, job, events>>
  BY DEF LinkSignal, Answered
<1>2. o \in Existing /\ o \in Opportunity /\ s \in Signal /\ TypeOK
  BY <1>1 DEF IInv, StateInv, AdminInv, Existing
<1>3. /\ link' = [p \in Opportunity |-> [x \in Signal |-> link'[p][x]]]
      /\ \A p \in Opportunity, x \in Signal :
            link'[p][x] = IF p = o /\ x = s THEN ActiveLink("ADMIN") ELSE link[p][x]
  BY <1>1, <1>2 DEF TypeOK
<1>4. ActiveLink("ADMIN").status = "ACTIVE" /\ ActiveLink("ADMIN") # ActiveLink("CREATED")
  BY DEF ActiveLink
<1>5. RowsTyped
  BY <1>1, <1>2, <1>3, OverriddenTyped DEF TypeOK, RowsTyped
<1>6. RowsMay
  BY <1>1, <1>2, <1>3 DEF TypeOK, RowsMay, LinksMay, RowMay, Existing
<1>7. AdminInv'
  BY <1>1, <1>6, AdminKept DEF IInv, StateInv
<1>8. EvidenceKept
  BY <1>3, <1>4, EvidenceGrows
<1>9. \A p \in Opportunity, x \in Signal : Created(p, x)' => Created(p, x)
  BY <1>3, <1>4 DEF Created
<1> QED
  BY <1>1, <1>5, <1>6, <1>7, <1>8, <1>9, AdminStep

LEMMA UnlinkKeeps ==
    ASSUME IInv, NEW o \in Opportunity, NEW s \in Signal, UnlinkSignal(o, s)
    PROVE  StepOK
<1>1. /\ link[o][s] # NoLink /\ Event("unlink")
      /\ link' = [link EXCEPT ![o][s] = Rejected(link[o][s])]
      /\ Overridden({<<o, s>>})
      /\ UNCHANGED <<scene, queue, enriched, approved, opportunity, review, family, job, admin>>
  BY DEF UnlinkSignal
<1>2. TypeOK /\ opportunity[o].status # "none"
  BY <1>1, Exist DEF IInv, StateInv, Existing
<1>3. /\ link' = [p \in Opportunity |-> [x \in Signal |-> link'[p][x]]]
      /\ \A p \in Opportunity, x \in Signal :
            link'[p][x] = IF p = o /\ x = s THEN Rejected(link[p][x]) ELSE link[p][x]
  BY <1>1, <1>2 DEF TypeOK
<1>4. Rejected(link[o][s]).status = "REJECTED"
  BY <1>1, <1>2, LinkRows DEF TypeOK
<1>5. RowsTyped
  BY <1>1, <1>2, <1>3, OverriddenTyped DEF TypeOK, RowsTyped
<1>6. RowsMay
  BY <1>1, <1>2, <1>3 DEF TypeOK, RowsMay, LinksMay, RowMay
<1>7. AdminInv'
  BY <1>1, <1>6, AdminKept DEF IInv, StateInv
<1>8. EvidenceKept
  <2> SUFFICES ASSUME NEW x \in Signal, x # s
               PROVE  (ActiveOf(x))' = ActiveOf(x)
    BY DEF EvidenceKept
  <2> QED
    BY <1>3 DEF ActiveOf
<1>9. \A p \in Opportunity, x \in Signal : Created(p, x)' => Created(p, x)
  BY <1>3, <1>4 DEF Created, ActiveLink
<1> QED
  BY <1>1, <1>5, <1>6, <1>7, <1>8, <1>9, AdminStep

\* An inserted opportunity with its first link.
Inserts(o, row, s, by) ==
    /\ opportunity' = [opportunity EXCEPT ![o] = row]
    /\ link' = [link EXCEPT ![o][s] = ActiveLink(by)]

LEMMA InsertedRow ==
    ASSUME TypeOK, NEW o \in Opportunity, NEW by \in Maker, NEW s \in Signal, NEW row,
           opportunity[o].status = "none",
           row \in OpportunityRow, row.status = "UNREVIEWED",
           Inserts(o, row, s, by), overridden' = overridden,
           review' \in [Opportunity -> [Signal ->
               {"none", "PENDING", "LINKED", "REJECTED", "SUPERSEDED"}]]
    PROVE  /\ RowsTyped /\ RowsMay /\ EvidenceKept
           /\ \A p \in Opportunity, x \in Signal :
                 link'[p][x] = IF p = o /\ x = s THEN ActiveLink(by) ELSE link[p][x]
<1>1. link[o][s] = NoLink
  BY DEF TypeOK
<1>2. /\ link' = [p \in Opportunity |-> [x \in Signal |-> link'[p][x]]]
      /\ \A p \in Opportunity, x \in Signal :
            link'[p][x] = IF p = o /\ x = s THEN ActiveLink(by) ELSE link[p][x]
  BY DEF TypeOK, Inserts
<1>3. RowsTyped
  BY <1>2 DEF TypeOK, RowsTyped, Inserts
<1>4. /\ opportunity'[o] = row
      /\ \A p \in Opportunity : p # o => opportunity'[p] = opportunity[p]
  BY DEF TypeOK, Inserts
<1>5. LinksMay
  BY <1>1, <1>2 DEF LinksMay, RowMay
<1>6. RowsMay
  <2>1. \A p \in Opportunity :
          /\ opportunity'[p].status = "MERGED" => opportunity'[p].into # 0
          /\ opportunity[p].status # "none" => opportunity'[p].status # "none"
    BY <1>4 DEF TypeOK
  <2>2. \A p \in Opportunity : \A x \in Signal :
            link'[p][x] # link[p][x] => opportunity'[p].status # "none"
    BY <1>2, <1>4
  <2> QED
    BY <1>5, <2>1, <2>2 DEF RowsMay
<1>7. ActiveLink(by).status = "ACTIVE"
  BY LinkRows
<1>8. EvidenceKept
  BY <1>2, <1>7, EvidenceGrows
<1> QED
  BY <1>2, <1>3, <1>6, <1>8

LEMMA NewIsUnused ==
    ASSUME StateInv, Unused # {}
    PROVE  Min(Unused) \in Opportunity /\ opportunity[Min(Unused)].status = "none"
<1>1. Unused \in SUBSET Opportunity
  BY Exist
<1>2. Min(Unused) \in Unused
  BY <1>1, MinIn
<1> QED
  BY <1>1, <1>2 DEF Unused

LEMMA CreateKeeps ==
    ASSUME IInv, CreateOpportunityFromSignal
    PROVE  StepOK
<1> PICK s : s = admin.s
  OBVIOUS
<1> PICK new : new = Min(Unused)
  OBVIOUS
<1> DEFINE row == [status |-> "UNREVIEWED", into |-> 0, site |-> s, change |-> ChangeType(s)]
<1>1. /\ admin.op = "create" /\ Unused # {}
      /\ opportunity' = [opportunity EXCEPT ![new] = row]
      /\ link' = [link EXCEPT ![new][s] = ActiveLink("ADMIN")]
      /\ admin' = NoRequest
      /\ UNCHANGED <<scene, queue, enriched, approved, overridden, review, family, job, events>>
  BY DEF CreateOpportunityFromSignal, Answered
<1>2. s \in Signal /\ TypeOK /\ StateInv
  BY <1>1 DEF IInv, StateInv, AdminInv
<1>3. new \in Opportunity /\ opportunity[new].status = "none"
  BY <1>1, <1>2, NewIsUnused
<1>4. row \in OpportunityRow /\ row.status = "UNREVIEWED"
  BY <1>2 DEF OpportunityRow, Status, ChangeType
<1>5. "ADMIN" \in Maker /\ ActiveLink("ADMIN") # ActiveLink("CREATED")
  BY DEF Maker, ActiveLink
<1> HIDE DEF row
<1>6. /\ RowsTyped /\ RowsMay /\ EvidenceKept
      /\ \A p \in Opportunity, x \in Signal :
                 link'[p][x] = IF p = new /\ x = s THEN ActiveLink("ADMIN") ELSE link[p][x]
  <2>1. /\ overridden' = overridden
        /\ review' \in [Opportunity -> [Signal ->
               {"none", "PENDING", "LINKED", "REJECTED", "SUPERSEDED"}]]
    BY <1>1, <1>2 DEF TypeOK
  <2>2. Inserts(new, row, s, "ADMIN")
    BY <1>1 DEF Inserts
  <2> QED
    BY <1>2, <1>3, <1>4, <1>5, <2>1, <2>2, InsertedRow
<1>7. AdminInv'
  BY <1>1, <1>2, <1>6, AdminKept DEF StateInv
<1>8. \A p \in Opportunity, x \in Signal : Created(p, x)' => Created(p, x)
  BY <1>5, <1>6 DEF Created
<1> QED
  BY <1>1, <1>6, <1>7, <1>8, AdminStep

\* Links moved by an administrator from one opportunity to another.
LEMMA MovedLinks ==
    ASSUME TypeOK, NEW from \in Opportunity, NEW to \in Opportunity, from # to,
           NEW moved, moved \subseteq ActiveIn(from), link' = MoveLinks(moved, from, to)
    PROVE  /\ link' = [o \in Opportunity |-> [s \in Signal |-> link'[o][s]]]
           /\ LinksMay /\ EvidenceKept
           /\ \A o \in Opportunity, s \in Signal : Created(o, s)' => Created(o, s)
           /\ \A o \in Opportunity, s \in Signal :
                  link'[o][s] # link[o][s] => o = to \/ link[o][s] # NoLink
<1>1. ASSUME NEW o \in Opportunity, NEW s \in Signal
      PROVE  /\ link'[o][s] = IF s \in moved /\ o = from THEN Rejected(link[o][s])
                              ELSE IF s \in moved /\ o = to THEN ActiveLink("ADMIN")
                              ELSE link[o][s]
             /\ s \in moved => link[from][s].status = "ACTIVE" /\ link[from][s] # NoLink
             /\ link[o][s] \in LinkRow
  BY LinkRows DEF MoveLinks, ActiveIn, TypeOK
<1>2. link' = [o \in Opportunity |-> [s \in Signal |-> link'[o][s]]]
  BY DEF MoveLinks
<1>3. /\ ActiveLink("ADMIN").status = "ACTIVE" /\ ActiveLink("ADMIN") # ActiveLink("CREATED")
      /\ ActiveLink("CREATED").status = "ACTIVE"
  BY DEF ActiveLink
<1>4. \A o \in Opportunity, s \in Signal :
          s \in moved /\ o = from => Rejected(link[o][s]).status = "REJECTED"
  BY <1>1, LinkRows
<1>5. LinksMay
  BY <1>1 DEF LinksMay, RowMay
<1>6. EvidenceKept
  <2> SUFFICES ASSUME NEW s \in Signal, NEW o \in ActiveOf(s)
               PROVE  (ActiveOf(s))' # {}
    BY DEF EvidenceKept
  <2>1. CASE s \in moved
    <3>1. link'[to][s].status = "ACTIVE"
      BY <1>1, <1>3, <2>1
    <3> QED
      BY <3>1 DEF ActiveOf
  <2>2. CASE s \notin moved
    <3>1. link'[o][s].status = "ACTIVE" /\ o \in Opportunity
      BY <1>1, <2>2 DEF ActiveOf
    <3> QED
      BY <3>1 DEF ActiveOf
  <2> QED
    BY <2>1, <2>2
<1>7. \A o \in Opportunity, s \in Signal : Created(o, s)' => Created(o, s)
  BY <1>1, <1>3, <1>4 DEF Created
<1>8. \A o \in Opportunity, s \in Signal :
          link'[o][s] # link[o][s] => o = to \/ link[o][s] # NoLink
  BY <1>1
<1> QED
  BY <1>2, <1>5, <1>6, <1>7, <1>8

LEMMA MergedRow ==
    ASSUME NEW row \in OpportunityRow, NEW target \in Opportunity
    PROVE  /\ MarkMerged(row, target) \in OpportunityRow
           /\ MarkMerged(row, target).status = "MERGED" /\ MarkMerged(row, target).into = target
<1>1. "MERGED" \in Status
  BY DEF Status
<1> QED
  BY <1>1 DEF MarkMerged, OpportunityRow

LEMMA MergeKeeps ==
    ASSUME IInv, MergeOpportunities
    PROVE  StepOK
<1> PICK source, target : source = admin.o /\ target = admin.p
  OBVIOUS
<1> PICK moved : moved = ActiveIn(source)
  OBVIOUS
<1>1. /\ admin.op = "merge" /\ link' = MoveLinks(moved, source, target)
      /\ opportunity' = [opportunity EXCEPT ![source] = MarkMerged(opportunity[source], target)]
      /\ Overridden({source} \X moved) /\ admin' = NoRequest
      /\ UNCHANGED <<scene, queue, enriched, approved, review, family, job, events>>
  BY DEF MergeOpportunities, Answered
<1>2. source \in Existing /\ target \in Existing /\ source # target /\ TypeOK /\ StateInv
  BY <1>1 DEF IInv, StateInv, AdminInv
<1>3. source \in Opportunity /\ target \in Opportunity /\ target # 0
  BY <1>2, SignalsAssumption DEF Existing
<1>4. /\ link' = [o \in Opportunity |-> [s \in Signal |-> link'[o][s]]]
      /\ LinksMay /\ EvidenceKept
      /\ \A o \in Opportunity, s \in Signal : Created(o, s)' => Created(o, s)
      /\ \A o \in Opportunity, s \in Signal :
             link'[o][s] # link[o][s] => o = target \/ link[o][s] # NoLink
  BY <1>1, <1>2, <1>3, MovedLinks
<1>5. /\ opportunity' \in [Opportunity -> OpportunityRow]
      /\ opportunity'[source].status = "MERGED" /\ opportunity'[source].into = target
      /\ \A o \in Opportunity : o # source => opportunity'[o] = opportunity[o]
  <2>1. opportunity[source] \in OpportunityRow
    BY <1>2, <1>3 DEF TypeOK
  <2>2. /\ MarkMerged(opportunity[source], target) \in OpportunityRow
        /\ MarkMerged(opportunity[source], target).status = "MERGED"
        /\ MarkMerged(opportunity[source], target).into = target
    BY <1>3, <2>1, MergedRow
  <2> QED
    BY <1>1, <1>2, <1>3, <2>2 DEF TypeOK
<1>6. RowsTyped
  BY <1>1, <1>2, <1>4, <1>5, OverriddenTyped DEF TypeOK, RowsTyped
<1>7. RowsMay
  <2>1. \A o \in Opportunity :
            /\ opportunity'[o].status = "MERGED" => opportunity'[o].into # 0
            /\ opportunity[o].status # "none" => opportunity'[o].status # "none"
    BY <1>2, <1>3, <1>5 DEF TypeOK
  <2>2. \A o \in Opportunity : \A s \in Signal :
            link'[o][s] # link[o][s] => opportunity'[o].status # "none"
    BY <1>2, <1>3, <1>4, <1>5, Exist DEF Existing
  <2> QED
    BY <1>4, <2>1, <2>2 DEF RowsMay
<1>8. AdminInv'
  BY <1>1, <1>2, <1>7, AdminKept DEF StateInv
<1> QED
  BY <1>1, <1>4, <1>6, <1>7, <1>8, AdminStep

LEMMA SplitKeeps ==
    ASSUME IInv, NEW o \in Opportunity, NEW signals \in SUBSET Signal, SplitOpportunity(o, signals)
    PROVE  StepOK
<1> PICK new : new = Min(Unused)
  OBVIOUS
<1> PICK moved : moved = signals \cap ActiveIn(o)
  OBVIOUS
<1> DEFINE row == [status |-> "UNREVIEWED", into |-> 0, site |-> opportunity[o].site,
                   change |-> opportunity[o].change]
<1>1. /\ opportunity[o] # NoRow /\ Unused # {} /\ Event("split")
      /\ opportunity' = [opportunity EXCEPT ![new] = row]
      /\ link' = MoveLinks(moved, o, new)
      /\ Overridden({o} \X moved)
      /\ UNCHANGED <<scene, queue, enriched, approved, review, family, job, admin>>
  BY DEF SplitOpportunity
<1>2. TypeOK /\ StateInv
  BY DEF IInv, StateInv
<1>3. new \in Opportunity /\ opportunity[new].status = "none"
  BY <1>1, <1>2, NewIsUnused
<1>4. /\ row \in OpportunityRow /\ row.status = "UNREVIEWED"
  BY <1>2 DEF TypeOK, OpportunityRow, Status
<1> HIDE DEF row
<1>5. moved = {} \/ o # new
  <2>1. \A s \in Signal : link[new][s] = NoLink
    BY <1>2, <1>3 DEF TypeOK
  <2> QED
    BY <2>1, LinkRows DEF ActiveIn
<1>6. /\ link' = [p \in Opportunity |-> [s \in Signal |-> link'[p][s]]]
      /\ LinksMay /\ EvidenceKept
      /\ \A p \in Opportunity, s \in Signal : Created(p, s)' => Created(p, s)
      /\ \A p \in Opportunity, s \in Signal :
             link'[p][s] # link[p][s] => p = new \/ link[p][s] # NoLink
  <2>1. CASE o # new
    <3>1. moved \subseteq ActiveIn(o) /\ link' = MoveLinks(moved, o, new)
      BY <1>1
    <3> QED
      BY <1>2, <1>3, <2>1, <3>1, MovedLinks
  <2>2. CASE moved = {}
    <3>1. /\ link' = [p \in Opportunity |-> [s \in Signal |-> link'[p][s]]]
          /\ \A p \in Opportunity, s \in Signal : link'[p][s] = link[p][s]
      BY <1>1, <2>2 DEF MoveLinks
    <3> QED
      BY <3>1 DEF LinksMay, RowMay, EvidenceKept, ActiveOf, Created
  <2> QED
    BY <1>5, <2>1, <2>2
<1>7. /\ opportunity' \in [Opportunity -> OpportunityRow]
      /\ opportunity'[new] = row
      /\ \A p \in Opportunity : p # new => opportunity'[p] = opportunity[p]
  BY <1>1, <1>2, <1>3, <1>4 DEF TypeOK
<1>8. RowsTyped
  BY <1>1, <1>2, <1>6, <1>7, OverriddenTyped DEF TypeOK, RowsTyped
<1>9. RowsMay
  <2>1. \A p \in Opportunity :
            /\ opportunity'[p].status = "MERGED" => opportunity'[p].into # 0
            /\ opportunity[p].status # "none" => opportunity'[p].status # "none"
    BY <1>2, <1>3, <1>4, <1>7 DEF TypeOK
  <2>2. \A p \in Opportunity : \A s \in Signal :
            link'[p][s] # link[p][s] => opportunity'[p].status # "none"
    BY <1>2, <1>4, <1>6, <1>7, Exist DEF Existing
  <2> QED
    BY <1>6, <2>1, <2>2 DEF RowsMay
<1>10. AdminInv'
  BY <1>1, <1>2, <1>9, AdminKept DEF StateInv
<1> QED
  BY <1>1, <1>6, <1>8, <1>9, <1>10, AdminStep

\* A job of maintenance that goes on to its next step.
LEMMA RecalculationGoes ==
    ASSUME StateInv, NEW w \in Worker, job[w].op = "recalculate", job[w].step # "idle",
           NEW step \in {"cleanup", "facts", "match"}, Goes(w, step, {})
    PROVE  /\ JobsMay /\ (\A v \in Worker : JobMoves(v))
           /\ \A v \in Worker : At(v, "link")' => job'[v] = job[v] /\ v # w
<1> DEFINE j == [op |-> job[w].op, step |-> step, signal |-> job[w].signal, plan |-> {}]
<1>1. job' = [job EXCEPT ![w] = j] /\ job[w].signal \in scene.signals
  BY JobSignal DEF Goes
<1>2. job'[w] = j /\ \A v \in Worker : v # w => job'[v] = job[v]
  BY <1>1, OneJobMoves
<1>3. Shape(j, scene, Existing')
  BY <1>1 DEF Shape
<1>4. JobsMay
  BY <1>1, <1>3, OneJobMay
<1>5. \A v \in Worker : JobMoves(v)
  BY <1>2 DEF JobMoves, Attaching
<1> QED
  BY <1>2, <1>4, <1>5 DEF At

LEMMA AtMaintenance ==
    ASSUME StateInv, NEW w \in Worker, job[w].step \in {"merge", "cleanup", "facts"}
    PROVE  job[w].op = "recalculate" /\ job[w].signal \in Signal
           /\ (job[w].step = "merge" => MergePlan(job[w].plan, Existing))
BY JobSignal DEF StateInv, Shape

LEMMA WorkRests ==
    ASSUME IInv, UNCHANGED <<scene, queue, enriched, approved, family, events>>
    PROVE  RestMay /\ QueueMay
<1>1. queue' \subseteq scene.signals /\ enriched' \subseteq scene.signals /\ approved' \subseteq enriched'
  BY DEF IInv, StateInv, TypeOK
<1> QED
  BY <1>1, EventsCounted, RestRests DEF QueueMay

LEMMA CleanupKeeps ==
    ASSUME IInv, NEW w \in Worker, CleanupMatchReviews(w)
    PROVE  StepOK
<1>1. /\ At(w, "cleanup") /\ Goes(w, "facts", {})
      /\ UNCHANGED <<scene, queue, enriched, approved, opportunity, link, overridden, family,
                     admin, events>>
  BY DEF CleanupMatchReviews
<1>2. review' \in [Opportunity -> [Signal ->
               {"none", "PENDING", "LINKED", "REJECTED", "SUPERSEDED"}]]
  BY DEF CleanupMatchReviews, IInv, StateInv, TypeOK
<1>3. /\ RowsTyped /\ RowsMay /\ EvidenceKept
      /\ \A o \in Opportunity, s \in Signal : Created(o, s)' => Created(o, s)
  BY <1>1, <1>2, ReviewStep
<1>4. /\ JobsMay /\ (\A v \in Worker : JobMoves(v))
      /\ \A v \in Worker : At(v, "link")' => job'[v] = job[v]
  BY <1>1, AtMaintenance, RecalculationGoes DEF IInv, At
<1>5. AdminInv' /\ CreatedInv'
  BY <1>1, <1>3, <1>4, AdminKept, CreatedKept DEF IInv, StateInv
<1> QED
  BY <1>1, <1>3, <1>4, <1>5, WorkRests, RowStep

LEMMA FactsRow ==
    ASSUME NEW row \in OpportunityRow, NEW s \in Signal
    PROVE  /\ [row EXCEPT !.status = "REJECTED"] \in OpportunityRow
           /\ [row EXCEPT !.status = "REJECTED"].status = "REJECTED"
           /\ [row EXCEPT !.change = ChangeType(s)] \in OpportunityRow
           /\ [row EXCEPT !.change = ChangeType(s)].status = row.status
           /\ [row EXCEPT !.change = ChangeType(s)].into = row.into
<1>1. "REJECTED" \in Status /\ ChangeType(s) \in {"none", "OPENING", "OTHER_CHANGE"}
  BY DEF Status, ChangeType
<1> QED
  BY <1>1 DEF OpportunityRow

LEMMA FactsKeeps ==
    ASSUME IInv, NEW w \in Worker, RecalculateFacts(w)
    PROVE  StepOK
<1>1. At(w, "facts") /\ StateInv /\ TypeOK
  BY DEF RecalculateFacts, IInv, StateInv
<1>2. PICK s \in Signal : job[w].signal = s
  BY <1>1, AtMaintenance DEF At
<1> DEFINE systems == {o \in ActiveOf(s) : link[o][s].by # "ADMIN" /\ ~overridden[o]}
<1> PICK demoted : demoted = IF Class[s] = "routine" THEN {o \in systems : ActiveIn(o) = {s}} ELSE {}
  OBVIOUS
<1>3. /\ link' = [o \in Opportunity |->
             IF o \in demoted THEN [link[o] EXCEPT ![s] = Rejected(link[o][s])] ELSE link[o]]
      /\ opportunity' = [o \in Opportunity |->
             IF o \in demoted THEN [opportunity[o] EXCEPT !.status = "REJECTED"]
             ELSE IF o \in systems /\ Creation(s) = "CREATE_OPPORTUNITY"
             THEN [opportunity[o] EXCEPT !.change = ChangeType(s)]
             ELSE opportunity[o]]
      /\ Goes(w, "match", {})
      /\ UNCHANGED <<scene, queue, enriched, approved, overridden, review, family, admin, events>>
  BY <1>2 DEF RecalculateFacts
<1>4. demoted \subseteq ActiveOf(s) /\ (demoted # {} => Class[s] = "routine")
  OBVIOUS
<1>5. ASSUME NEW o \in Opportunity, NEW x \in Signal
      PROVE  /\ link'[o][x] = IF o \in demoted /\ x = s THEN Rejected(link[o][x]) ELSE link[o][x]
             /\ o \in demoted => link[o][s] # NoLink /\ Rejected(link[o][s]).status = "REJECTED"
  BY <1>1, <1>3, <1>4, LinkRows DEF TypeOK, ActiveOf
<1>6. link' = [o \in Opportunity |-> [x \in Signal |-> link'[o][x]]]
  BY <1>1, <1>3 DEF TypeOK
<1>7. LinksMay
  BY <1>5 DEF LinksMay, RowMay
<1>8. ASSUME NEW o \in Opportunity
      PROVE  /\ opportunity'[o] \in OpportunityRow
             /\ opportunity'[o].status \in {opportunity[o].status, "REJECTED"}
             /\ opportunity'[o].status = "MERGED" => opportunity'[o].into # 0
  <2>1. opportunity[o] \in OpportunityRow
    BY <1>1 DEF TypeOK
  <2>2. opportunity'[o] \in {[opportunity[o] EXCEPT !.status = "REJECTED"],
                             [opportunity[o] EXCEPT !.change = ChangeType(s)], opportunity[o]}
    BY <1>3
  <2>3. opportunity[o].status = "MERGED" => opportunity[o].into # 0
    BY <1>1 DEF TypeOK
  <2>4. CASE opportunity'[o] = [opportunity[o] EXCEPT !.status = "REJECTED"]
    BY <2>1, <2>4, FactsRow
  <2>5. CASE opportunity'[o] = [opportunity[o] EXCEPT !.change = ChangeType(s)]
    <3>1. /\ [opportunity[o] EXCEPT !.change = ChangeType(s)] \in OpportunityRow
          /\ [opportunity[o] EXCEPT !.change = ChangeType(s)].status = opportunity[o].status
          /\ [opportunity[o] EXCEPT !.change = ChangeType(s)].into = opportunity[o].into
      BY <2>1, FactsRow, Zenon
    <3> QED
      BY <2>3, <2>5, <3>1
  <2>6. CASE opportunity'[o] = opportunity[o]
    BY <2>1, <2>3, <2>6
  <2> QED
    BY <2>2, <2>4, <2>5, <2>6
<1>9. RowsTyped
  BY <1>1, <1>3, <1>6, <1>8 DEF TypeOK, RowsTyped
<1>10. RowsMay
  <2>1. \A o \in Opportunity : opportunity[o].status # "none" => opportunity'[o].status # "none"
    BY <1>8
  <2>2. \A o \in Opportunity, x \in Signal : link'[o][x] # link[o][x] => opportunity[o].status # "none"
    BY <1>1, <1>5 DEF TypeOK
  <2> QED
    BY <1>7, <1>8, <2>1, <2>2 DEF RowsMay
<1>11. EvidenceKept
  <2> SUFFICES ASSUME NEW x \in Signal, ~(At(w, "facts") /\ job[w].signal = x /\ Class[x] = "routine")
               PROVE  (ActiveOf(x))' = ActiveOf(x)
    BY DEF EvidenceKept
  <2>1. x = s => demoted = {}
    BY <1>1, <1>2, <1>4
  <2> QED
    BY <1>5, <2>1 DEF ActiveOf
<1>12. \A o \in Opportunity, x \in Signal : Created(o, x)' => Created(o, x)
  BY <1>5 DEF Created, ActiveLink
<1>13. /\ JobsMay /\ (\A v \in Worker : JobMoves(v))
       /\ \A v \in Worker : At(v, "link")' => job'[v] = job[v]
  BY <1>1, <1>3, AtMaintenance, RecalculationGoes DEF At
<1>14. AdminInv' /\ CreatedInv'
  BY <1>1, <1>3, <1>10, <1>12, <1>13, AdminKept, CreatedKept DEF IInv, StateInv
<1> QED
  BY <1>3, <1>9, <1>10, <1>11, <1>13, <1>14, WorkRests, RowStep

LEMMA WriteShape ==
    ASSUME StateInv, NEW w \in Worker, At(w, "attach") \/ At(w, "attach2"), Continue(w)
    PROVE  Shape(job'[w], scene, Existing') /\ job' = [v \in Worker |-> job'[v]]
<1> DEFINE next == NextStep(job[w].op, job[w].step, job[w].signal)
           goes == [op |-> job[w].op, step |-> next, signal |-> job[w].signal, plan |-> {}]
<1>1. \/ next = "match" /\ job[w].op = "message" /\ job[w].signal \in scene.signals
      \/ next \in {"idle", "deleted"}
  BY DEF NextStep, At, StateInv, Shape
<1>2. job' = [job EXCEPT ![w] = IF next \in {"idle", "deleted"} THEN Idle ELSE goes]
  BY DEF Continue, Stop, Goes
<1> HIDE DEF next
<1>3. /\ job'[w] = IF next \in {"idle", "deleted"} THEN Idle ELSE goes
      /\ job' = [v \in Worker |-> job'[v]]
  BY <1>2, OneJobMoves
<1>4. CASE next \in {"idle", "deleted"}
  BY <1>3, <1>4, IdleShape
<1>5. CASE next \notin {"idle", "deleted"}
  BY <1>1, <1>3, <1>5 DEF Shape
<1> QED
  BY <1>4, <1>5

LEMMA ReconcileWritesKeeps ==
    ASSUME IInv, NEW w \in Worker, ReconcileWrites(w)
    PROVE  StepOK
<1>1. /\ link' = InsertLinks(job[w].plan) /\ Continue(w)
      /\ At(w, "attach") \/ At(w, "attach2")
      /\ UNCHANGED <<scene, enriched, approved, opportunity, overridden, review, admin, events>>
  BY DEF ReconcileWrites
<1>2. StateInv /\ TypeOK
  BY DEF IInv, StateInv
<1>3. PICK x \in Signal : job[w].signal = x /\ x \in scene.signals
  BY <1>1, <1>2, JobSignal DEF At
<1>4. job[w].plan \in SUBSET (Existing \X Signal)
  BY <1>1, <1>2 DEF At, StateInv, Shape
<1>5. /\ LinksMay
      /\ link' = [o \in Opportunity |-> [s \in Signal |-> link'[o][s]]]
      /\ \A o \in Opportunity, s \in Signal :
            link'[o][s] # link[o][s] => <<o, s>> \in job[w].plan /\ link'[o][s] = ActiveLink("MATCHED")
  BY <1>1, <1>2, InsertedLinks
<1>6. RowsTyped
  BY <1>1, <1>2, <1>5 DEF TypeOK, RowsTyped
<1>7. RowsMay
  <2>1. \A o \in Opportunity, s \in Signal : <<o, s>> \in job[w].plan => opportunity[o].status # "none"
    BY <1>4 DEF Existing
  <2>2. \A o \in Opportunity, s \in Signal : link'[o][s] # link[o][s] => opportunity[o].status # "none"
    BY <1>5, <2>1
  <2> QED
    BY <1>1, <1>2, <1>5, <2>2 DEF TypeOK, RowsMay
<1>8. ActiveLink("MATCHED").status = "ACTIVE" /\ ActiveLink("MATCHED") # ActiveLink("CREATED")
  BY DEF ActiveLink
<1>9. EvidenceKept
  BY <1>5, <1>8, EvidenceGrows
<1>10. \A o \in Opportunity, s \in Signal : Created(o, s)' => Created(o, s)
  BY <1>5, <1>8 DEF Created
<1>11. JobsMay /\ \A v \in Worker : At(v, "link")' => job'[v] = job[v]
  <2>1. /\ job'[w].step # "link"
        /\ \A v \in Worker : v # w => job'[v] = job[v]
    BY <1>1, <1>2, WriteEnds
  <2>2. Shape(job'[w], scene, Existing') /\ job' = [v \in Worker |-> job'[v]]
    BY <1>1, <1>2, WriteShape
  <2> QED
    BY <2>1, <2>2 DEF JobsMay, At
<1>12. RestMay
  <2>1. queue' \subseteq queue
    BY <1>1 DEF Continue
  <2>2. queue' \subseteq scene.signals /\ enriched' \subseteq scene.signals /\ approved' \subseteq enriched'
        /\ scene' = scene /\ events' \in 0..MaxEvents
    BY <1>1, <1>2, <2>1 DEF StateInv, TypeOK, MaxEvents
  <2>3. family' \in [Reference -> [primary: SUBSET Signal, references: SUBSET Signal]]
    <3>1. \A r \in Reference : /\ family'[r].primary \subseteq Signal
                               /\ family'[r].references \subseteq Signal
                               /\ family'[r] = [primary |-> family'[r].primary,
                                               references |-> family'[r].references]
      BY <1>2, <1>3 DEF ReconcileWrites, TypeOK, Indexed
    <3>2. family' = [r \in Reference |-> family'[r]]
      BY DEF ReconcileWrites
    <3> QED
      BY <3>1, <3>2
  <2> QED
    BY <2>2, <2>3 DEF RestMay
<1>13. AdminInv' /\ CreatedInv'
  BY <1>1, <1>2, <1>7, <1>10, <1>11, AdminKept, CreatedKept DEF IInv, StateInv
<1>14. StateInv'
  BY <1>2, <1>6, <1>7, <1>11, <1>12, <1>13, StateKept
<1> QED
  BY <1>5, <1>9, <1>13, <1>14, WritesFamily DEF StepOK, IInv

\* Consolidating moves the link of an opportunity the system created with the
\* opportunity's signals, and rejects it where it was.
LEMMA MergedLinks ==
    ASSUME StateInv, NEW plan, MergePlan(plan, Existing), ~InsertRefused(plan), link' = Merged(plan)
    PROVE  /\ link' = [o \in Opportunity |-> [s \in Signal |-> link'[o][s]]]
           /\ LinksMay /\ EvidenceKept
           /\ \A o \in Opportunity, s \in Signal :
                 /\ link'[o][s] # link[o][s] => o \in Existing
                 /\ Created(o, s)' => \E q \in Opportunity :
                        Created(q, s) /\ o = IF plan[q] = 0 THEN q ELSE plan[q]
<1>0. TypeOK
  BY DEF StateInv
<1>1. ASSUME NEW o \in Opportunity
      PROVE  /\ plan[o] = 0 \/ (plan[o] \in Existing /\ plan[o] \in Opportunity /\ plan[plan[o]] = 0)
             /\ o # 0
  BY SignalsAssumption DEF MergePlan, Existing
<1>2. link' = [o \in Opportunity |-> [s \in Signal |-> link'[o][s]]]
  BY DEF Merged
<1> DEFINE made(o, s) == \E p \in Opportunity : plan[p] = o /\ link[p][s] = ActiveLink("CREATED")
<1>3. ASSUME NEW o \in Opportunity, NEW s \in Signal
      PROVE  link'[o][s] = IF plan[o] # 0 /\ s \in ActiveIn(o) THEN Rejected(link[o][s])
                           ELSE IF s \in Moved(plan, o) /\ link[o][s] = NoLink
                           THEN ActiveLink(IF made(o, s) THEN "CREATED" ELSE "MATCHED")
                           ELSE link[o][s]
  BY DEF Merged
<1>4. ASSUME NEW o \in Opportunity, NEW s \in Signal
      PROVE  /\ link[o][s] \in LinkRow
             /\ s \in ActiveIn(o) <=> link[o][s].status = "ACTIVE"
             /\ s \in ActiveIn(o) => link[o][s] # NoLink /\ o \in Existing
             /\ s \in Moved(plan, o) => \E p \in Opportunity : plan[p] = o /\ s \in ActiveIn(p)
  BY <1>0, LinkRows, Exist DEF TypeOK, ActiveIn, Moved
<1> HIDE DEF made
<1>5. \A by \in {"CREATED", "MATCHED"} : by \in Maker /\ ActiveLink(by).status = "ACTIVE"
  BY DEF ActiveLink, Maker
<1>6. LinksMay
  BY <1>3, <1>4, <1>5 DEF LinksMay, RowMay
<1>7. EvidenceKept
  <2> SUFFICES ASSUME NEW s \in Signal, NEW o \in ActiveOf(s)
               PROVE  (ActiveOf(s))' # {}
    BY DEF EvidenceKept
  <2>1. o \in Opportunity /\ s \in ActiveIn(o) /\ link[o][s].status = "ACTIVE"
    BY <1>4 DEF ActiveOf
  <2>2. CASE plan[o] = 0
    <3>1. link'[o][s] = link[o][s]
      BY <1>3, <1>4, <2>1, <2>2
    <3> QED
      BY <2>1, <3>1 DEF ActiveOf
  <2>3. CASE plan[o] # 0
    <3> PICK t \in Opportunity : t = plan[o] /\ plan[t] = 0 /\ t # 0
      BY <1>1, <2>1, <2>3
    <3>1. s \in Moved(plan, t)
      BY <2>1 DEF Moved
    <3>2. ~Blocked(t, s)
      BY <3>1 DEF InsertRefused
    <3>3. link'[t][s].status = "ACTIVE"
      <4>1. CASE link[t][s] = NoLink
        BY <1>3, <1>5, <3>1, <4>1
      <4>2. CASE link[t][s] # NoLink
        <5>1. link'[t][s] = link[t][s]
          BY <1>3, <4>2
        <5>2. link[t][s].status \in {"ACTIVE", "REJECTED"}
          BY <1>4, <4>2, LinkRows
        <5> QED
          BY <3>2, <5>1, <5>2 DEF Blocked
      <4> QED
        BY <4>1, <4>2
    <3> QED
      BY <3>3 DEF ActiveOf
  <2> QED
    BY <2>2, <2>3
<1>8. ASSUME NEW o \in Opportunity, NEW s \in Signal, link'[o][s] # link[o][s]
      PROVE  o \in Existing
  <2>1. CASE plan[o] # 0 /\ s \in ActiveIn(o)
    BY <1>4, <2>1
  <2>2. CASE s \in Moved(plan, o)
    BY <1>1, <1>4, <2>2
  <2> QED
    BY <1>3, <1>8, <2>1, <2>2
<1>9. ASSUME NEW o \in Opportunity, NEW s \in Signal, Created(o, s)'
      PROVE  \E q \in Opportunity : Created(q, s) /\ o = IF plan[q] = 0 THEN q ELSE plan[q]
  <2>1. link'[o][s] = ActiveLink("CREATED") /\ ActiveLink("CREATED").status = "ACTIVE"
        /\ ActiveLink("MATCHED") # ActiveLink("CREATED")
    BY <1>9 DEF Created, ActiveLink
  <2>2. CASE plan[o] # 0 /\ s \in ActiveIn(o)
    <3>1. link'[o][s].status = "REJECTED"
      BY <1>3, <1>4, <2>2, LinkRows
    <3> QED
      BY <2>1, <3>1
  <2>3. CASE ~(plan[o] # 0 /\ s \in ActiveIn(o)) /\ s \in Moved(plan, o) /\ link[o][s] = NoLink
    <3>1. made(o, s)
      BY <1>3, <2>1, <2>3
    <3> QED
      BY <1>1, <3>1 DEF made, Created
  <2>4. CASE ~(plan[o] # 0 /\ s \in ActiveIn(o)) /\ ~(s \in Moved(plan, o) /\ link[o][s] = NoLink)
    <3>1. Created(o, s) /\ s \in ActiveIn(o)
      BY <1>3, <1>4, <2>1, <2>4 DEF Created
    <3> QED
      BY <2>4, <3>1
  <2> QED
    BY <2>2, <2>3, <2>4
<1> QED
  BY <1>2, <1>6, <1>7, <1>8, <1>9

LEMMA ConsolidateKeeps ==
    ASSUME IInv, NEW w \in Worker, ConsolidateSystemDuplicates(w)
    PROVE  StepOK
<1> PICK plan : plan = job[w].plan
  OBVIOUS
<1>1. /\ At(w, "merge") /\ UNCHANGED <<scene, queue, enriched, approved, family, admin, events>>
      /\ StateInv /\ TypeOK
  BY DEF ConsolidateSystemDuplicates, IInv, StateInv
<1>2. MergePlan(plan, Existing) /\ job[w].op = "recalculate"
  BY <1>1, AtMaintenance DEF At
<1>3. CASE InsertRefused(plan)
  <2>1. job' = [job EXCEPT ![w] = Idle] /\ UNCHANGED rows
    BY <1>3 DEF ConsolidateSystemDuplicates, Stop
  <2> QED
    BY <1>1, <2>1, IdleShape, WorkRests, QuietJob
<1>4. CASE ~InsertRefused(plan)
  <2>1. /\ link' = Merged(plan) /\ Goes(w, "cleanup", {})
        /\ opportunity' = [o \in Opportunity |->
               IF plan[o] # 0 THEN MarkMerged(opportunity[o], plan[o]) ELSE opportunity[o]]
        /\ UNCHANGED <<overridden, review>>
    BY <1>4 DEF ConsolidateSystemDuplicates
  <2>2. /\ link' = [o \in Opportunity |-> [s \in Signal |-> link'[o][s]]]
        /\ LinksMay /\ EvidenceKept
        /\ \A o \in Opportunity, s \in Signal :
              /\ link'[o][s] # link[o][s] => o \in Existing
              /\ Created(o, s)' => \E q \in Opportunity :
                     Created(q, s) /\ o = IF plan[q] = 0 THEN q ELSE plan[q]
    BY <1>1, <1>2, <1>4, <2>1, MergedLinks
  <2>3. ASSUME NEW o \in Opportunity
        PROVE  /\ opportunity'[o] \in OpportunityRow
               /\ opportunity'[o].status \in {opportunity[o].status, "MERGED"}
               /\ opportunity'[o].status = "MERGED" => opportunity'[o].into # 0
    <3>1. /\ opportunity[o] \in OpportunityRow
          /\ opportunity[o].status = "MERGED" => opportunity[o].into # 0
      BY <1>1 DEF TypeOK
    <3>2. CASE plan[o] = 0
      BY <2>1, <3>1, <3>2
    <3>3. CASE plan[o] # 0
      <4>1. plan[o] \in Opportunity
        BY <1>2, <3>3 DEF MergePlan, Existing
      <4> QED
        BY <2>1, <3>1, <3>3, <4>1, MergedRow
    <3> QED
      BY <3>2, <3>3
  <2>4. RowsTyped
    BY <1>1, <2>1, <2>2, <2>3 DEF TypeOK, RowsTyped
  <2>5. RowsMay
    <3>1. \A o \in Opportunity : opportunity[o].status # "none" => opportunity'[o].status # "none"
      BY <2>3
    <3> QED
      BY <2>2, <2>3, <3>1 DEF RowsMay, Existing
  <2>6. /\ JobsMay /\ (\A v \in Worker : JobMoves(v))
        /\ \A v \in Worker : At(v, "link")' => job'[v] = job[v]
    BY <1>1, <1>2, <2>1, RecalculationGoes DEF At
  <2>7. AdminInv'
    BY <1>1, <2>5, AdminKept DEF StateInv
  <2>8. CreatedInv'
    <3>1. ASSUME NEW s \in Signal, NEW o \in Opportunity, NEW p \in Opportunity,
                 Created(o, s)', Created(p, s)'
          PROVE  o = p
      <4>1. PICK q \in Opportunity : Created(q, s) /\ o = IF plan[q] = 0 THEN q ELSE plan[q]
        BY <2>2, <3>1
      <4>2. PICK r \in Opportunity : Created(r, s) /\ p = IF plan[r] = 0 THEN r ELSE plan[r]
        BY <2>2, <3>1
      <4>3. q = r
        BY <4>1, <4>2 DEF IInv, CreatedInv
      <4> QED
        BY <4>1, <4>2, <4>3
    <3>2. ASSUME NEW v \in Worker, NEW s \in Signal, At(v, "link")', job'[v].signal = s
          PROVE  /\ \A o \in Opportunity : ~Created(o, s)'
                 /\ \A u \in Worker : At(u, "link")' /\ job'[u].signal = s => u = v
      <4>1. \A u \in Worker : At(u, "link")' => At(u, "link") /\ job'[u] = job[u]
        BY <2>6 DEF At
      <4>2. \A o \in Opportunity : ~Created(o, s)
        BY <3>2, <4>1 DEF IInv, CreatedInv
      <4> QED
        BY <2>2, <3>2, <4>1, <4>2 DEF IInv, CreatedInv
    <3> QED
      BY <3>1, <3>2 DEF CreatedInv
  <2> QED
    BY <1>1, <2>1, <2>2, <2>4, <2>5, <2>6, <2>7, <2>8, WorkRests, RowStep
<1> QED
  BY <1>3, <1>4

LEMMA MatchWritesKeeps ==
    ASSUME IInv, NEW w \in Worker, MatchWrites(w)
    PROVE  StepOK
<1>1. At(w, "link") /\ StateInv /\ TypeOK
  BY DEF MatchWrites, IInv, StateInv
<1>2. PICK s \in Signal : job[w].signal = s
  BY <1>1, JobSignal DEF At
<1>3. PICK plan \in [match: Existing \cup {0}, uncertain: SUBSET Opportunity] : plan = job[w].plan
  BY <1>1 DEF At, StateInv, Shape
<1> PICK new : new = Min(Unused)
  OBVIOUS
<1> DEFINE creates == plan.match = 0 /\ Creation(s) = "CREATE_OPPORTUNITY"
           row == [status |-> "UNREVIEWED", into |-> 0, site |-> s, change |-> ChangeType(s)]
           next == NextStep(job[w].op, "link", s)
<1>4. /\ creates => /\ Unused # {}
                    /\ opportunity' = [opportunity EXCEPT ![new] = row]
                    /\ link' = [link EXCEPT ![new][s] = ActiveLink("CREATED")]
      /\ ~creates => opportunity' = opportunity /\ link' = InsertLinks({<<plan.match, s>>})
      /\ \E possible : review' = SuggestMatches(s, possible)
      /\ Continue(w)
      /\ UNCHANGED <<scene, enriched, approved, overridden, family, admin, events>>
  BY <1>2, <1>3 DEF MatchWrites
<1>5. review' \in [Opportunity -> [Signal ->
               {"none", "PENDING", "LINKED", "REJECTED", "SUPERSEDED"}]]
  BY <1>1, <1>2, <1>4 DEF SuggestMatches, TypeOK
<1>6. "CREATED" \in Maker /\ ActiveLink("CREATED").status = "ACTIVE"
      /\ ActiveLink("MATCHED").status = "ACTIVE" /\ ActiveLink("MATCHED") # ActiveLink("CREATED")
  BY DEF Maker, ActiveLink
<1>7. row \in OpportunityRow /\ row.status = "UNREVIEWED"
  BY <1>2 DEF OpportunityRow, Status, ChangeType
<1> HIDE DEF row
<1>8. creates => /\ RowsTyped /\ RowsMay /\ EvidenceKept /\ (ActiveOf(s))' # {}
                 /\ \A o \in Opportunity, x \in Signal :
                       Created(o, x)' => Created(o, x) \/ (x = s /\ o = new)
  <2> SUFFICES ASSUME creates
               PROVE  /\ RowsTyped /\ RowsMay /\ EvidenceKept /\ (ActiveOf(s))' # {}
                      /\ \A o \in Opportunity, x \in Signal :
                            Created(o, x)' => Created(o, x) \/ (x = s /\ o = new)
    OBVIOUS
  <2>1. new \in Opportunity /\ opportunity[new].status = "none"
    BY <1>1, <1>4, NewIsUnused
  <2>2. Inserts(new, row, s, "CREATED") /\ overridden' = overridden
    BY <1>4 DEF Inserts
  <2>3. /\ RowsTyped /\ RowsMay /\ EvidenceKept
        /\ \A o \in Opportunity, x \in Signal :
              link'[o][x] = IF o = new /\ x = s THEN ActiveLink("CREATED") ELSE link[o][x]
    <3>1. TypeOK /\ "CREATED" \in Maker /\ s \in Signal
      BY <1>1, <1>2, <1>6
    <3>2. opportunity[new].status = "none" /\ row \in OpportunityRow /\ row.status = "UNREVIEWED"
      BY <1>7, <2>1
    <3> QED
      BY <1>5, <2>1, <2>2, <3>1, <3>2, InsertedRow
  <2>4. link'[new][s].status = "ACTIVE"
    BY <1>2, <1>6, <2>1, <2>3
  <2>5. (ActiveOf(s))' # {}
    BY <2>1, <2>4 DEF ActiveOf
  <2> QED
    BY <2>3, <2>5 DEF Created
<1>9. ~creates => /\ RowsTyped /\ RowsMay /\ EvidenceKept
                  /\ plan.match # 0 /\ Clean(s)' => (ActiveOf(s))' # {}
                  /\ \A o \in Opportunity, x \in Signal : Created(o, x)' => Created(o, x)
  <2> SUFFICES ASSUME ~creates
               PROVE  /\ RowsTyped /\ RowsMay /\ EvidenceKept
                      /\ plan.match # 0 /\ Clean(s)' => (ActiveOf(s))' # {}
                      /\ \A o \in Opportunity, x \in Signal : Created(o, x)' => Created(o, x)
    OBVIOUS
  <2> PICK match : match = plan.match
    OBVIOUS
  <2>1. opportunity' = opportunity /\ link' = InsertLinks({<<match, s>>}) /\ overridden' = overridden
    BY <1>4
  <2>2. /\ LinksMay
        /\ link' = [o \in Opportunity |-> [x \in Signal |-> link'[o][x]]]
        /\ \A o \in Opportunity, x \in Signal :
              /\ <<o, x>> \in {<<match, s>>} /\ ~Blocked(o, x) => o \in (ActiveOf(x))'
              /\ link'[o][x] # link[o][x] => <<o, x>> \in {<<match, s>>} /\ link'[o][x] = ActiveLink("MATCHED")
    BY <1>1, <2>1, InsertedLinks
  <2>3. RowsTyped
    BY <1>1, <1>5, <2>1, <2>2 DEF TypeOK, RowsTyped
  <2>4. match \in Existing \cup {0}
    BY <1>3
  <2>5. RowsMay
    <3>1. \A o \in Opportunity, x \in Signal : link'[o][x] # link[o][x] => opportunity[o].status # "none"
      BY <2>2, <2>4, SignalsAssumption DEF Existing
    <3> QED
      BY <1>1, <2>1, <2>2, <3>1 DEF TypeOK, RowsMay
  <2>6. EvidenceKept
    BY <1>6, <2>2, EvidenceGrows
  <2>7. ASSUME match # 0, Clean(s)'
        PROVE  (ActiveOf(s))' # {}
    <3>1. Clean(s) /\ match \in Opportunity
      BY <1>1, <1>2, <2>2, <2>4, <2>7, CleanKept DEF Existing
    <3> QED
      BY <1>2, <2>2, <3>1 DEF Clean
  <2>8. \A o \in Opportunity, x \in Signal : Created(o, x)' => Created(o, x)
    BY <1>6, <2>2 DEF Created
  <2> QED
    BY <2>3, <2>5, <2>6, <2>7, <2>8
<1>10. RowsTyped /\ RowsMay /\ EvidenceKept
  BY <1>8, <1>9
<1> PICK after : after = next
  OBVIOUS
<1>11. /\ job' = [job EXCEPT ![w] = IF after = "family2"
                     THEN [op |-> job[w].op, step |-> after, signal |-> job[w].signal, plan |-> {}]
                     ELSE Idle]
       /\ queue' = IF after = "deleted" THEN queue \ {job[w].signal} ELSE queue
  <2>1. job[w].op \in {"message", "recalculate", "approved"} /\ job[w].step = "link"
    BY <1>1 DEF At, StateInv, Shape
  <2>2. after \in {"family2", "deleted", "idle"}
    BY <2>1 DEF NextStep
  <2>3. /\ IF after \in {"idle", "deleted"} THEN Stop(w) ELSE Goes(w, after, {})
        /\ queue' = IF after = "deleted" THEN queue \ {job[w].signal} ELSE queue
    BY <1>2, <1>4, <2>1 DEF Continue
  <2> QED
    BY <2>2, <2>3 DEF Stop, Goes
<1>12. \A x \in Signal : x = job[w].signal /\ Class[x] = "origin" /\ Clean(x)' => (ActiveOf(x))' # {}
  <2>1. Class[s] = "origin" => Creation(s) = "CREATE_OPPORTUNITY"
    BY DEF Creation
  <2>2. Class[s] = "origin" /\ Clean(s)' => (ActiveOf(s))' # {}
    BY <1>8, <1>9, <2>1
  <2> QED
    BY <1>2, <2>2
<1>13. Existing \subseteq Existing'
  BY <1>10 DEF RowsMay, Existing
<1>14. /\ JobsMay /\ QueueMay /\ (\A v \in Worker : JobMoves(v))
       /\ \A v \in Worker : At(v, "link")' => job'[v] = job[v] /\ v # w
  BY <1>1, <1>2, <1>11, <1>12, <1>13, MatchingDone DEF At
<1>15. RestMay /\ AdminInv'
  <2>1. queue' \subseteq scene.signals /\ enriched' \subseteq scene.signals /\ approved' \subseteq enriched'
    BY <1>1, <1>4, <1>11 DEF StateInv, TypeOK
  <2> QED
    BY <1>1, <1>4, <1>10, <2>1, EventsCounted, RestRests, AdminKept DEF StateInv
<1>16. CreatedInv'
  <2>1. \A o \in Opportunity : ~Created(o, s)
    BY <1>1, <1>2 DEF IInv, CreatedInv
  <2>2. \A o \in Opportunity, x \in Signal :
            Created(o, x)' => Created(o, x) \/ (x = s /\ o = new)
    BY <1>8, <1>9
  <2>3. ASSUME NEW x \in Signal, NEW o \in Opportunity, NEW p \in Opportunity,
               Created(o, x)', Created(p, x)'
        PROVE  o = p
    BY <2>1, <2>2, <2>3 DEF IInv, CreatedInv
  <2>4. ASSUME NEW v \in Worker, NEW x \in Signal, At(v, "link")', job'[v].signal = x
        PROVE  /\ \A o \in Opportunity : ~Created(o, x)'
               /\ \A u \in Worker : At(u, "link")' /\ job'[u].signal = x => u = v
    <3>1. \A u \in Worker : At(u, "link")' => At(u, "link") /\ job'[u] = job[u] /\ u # w
      BY <1>14 DEF At
    <3>2. x # s
      BY <1>1, <1>2, <2>4, <3>1 DEF IInv, CreatedInv
    <3> QED
      BY <2>2, <2>4, <3>1, <3>2 DEF IInv, CreatedInv
  <2> QED
    BY <2>3, <2>4 DEF CreatedInv
<1> QED
  BY <1>4, <1>10, <1>14, <1>15, <1>16, RowStep
------------------------------------------------------------------------------
(* The invariant and what follows from it. *)

LEMMA InitInv ==
    ASSUME Init
    PROVE  IInv
<1>1. /\ scene \in Scene /\ queue = scene.signals /\ enriched = {} /\ approved = {}
      /\ opportunity = [o \in Opportunity |-> NoRow]
      /\ link = [o \in Opportunity |-> [s \in Signal |-> NoLink]]
      /\ overridden = [o \in Opportunity |-> FALSE]
      /\ review = [o \in Opportunity |-> [s \in Signal |-> "none"]]
      /\ family = [r \in Reference |-> [primary |-> {}, references |-> {}]]
      /\ job = [w \in Worker |-> Idle] /\ admin.op = "none" /\ events = 0
  BY DEF Init, NoRequest
<1>2. NoRow \in OpportunityRow /\ NoRow.status = "none"
  BY DEF NoRow, OpportunityRow, Status
<1>3. /\ \A w \in Worker : job[w] = Idle
      /\ Idle.step = "idle" /\ Idle.signal = 0
  BY <1>1 DEF Idle
<1>4. TypeOK
  <2>1. /\ queue \subseteq Signal /\ enriched \subseteq Signal /\ approved \subseteq enriched
        /\ events \in 0..MaxEvents
    BY <1>1, SignalsAssumption DEF MaxEvents
  <2>2. /\ opportunity \in [Opportunity -> OpportunityRow]
        /\ link \in [Opportunity -> [Signal -> LinkRow]]
        /\ \A o \in Opportunity :
              /\ opportunity[o].status = "MERGED" => opportunity[o].into # 0
              /\ opportunity[o].status = "none" => \A s \in Signal : link[o][s] = NoLink
    BY <1>1, <1>2, LinkRows
  <2>3. /\ overridden \in [Opportunity -> BOOLEAN]
        /\ review \in [Opportunity -> [Signal ->
               {"none", "PENDING", "LINKED", "REJECTED", "SUPERSEDED"}]]
        /\ family \in [Reference -> [primary: SUBSET Signal, references: SUBSET Signal]]
        /\ \A w \in Worker : job[w].signal \in Signal \cup {0}
    BY <1>1, <1>3
  <2> QED
    BY <2>1, <2>2, <2>3 DEF TypeOK
<1>5. StateInv
  <2>1. \A w \in Worker : Shape(job[w], scene, Existing)
    BY <1>3, IdleShape
  <2> QED
    BY <1>1, <1>4, <2>1 DEF StateInv, AdminInv
<1>6. CreatedInv
  <2>1. \A o \in Opportunity, s \in Signal : ~Created(o, s)
    BY <1>1, LinkRows DEF Created, Maker
  <2> QED
    BY <1>3, <2>1 DEF CreatedInv, At
<1>7. FamilyInv
  <2>1. FamilyRows
    BY <1>1 DEF FamilyRows, Related
  <2>2. \A w \in Worker : ~Attaching(w) /\ ~Later(w) /\ ~At(w, "attach2")
                          /\ job[w].step \notin {"match", "link"}
    BY <1>3 DEF Attaching, Later, At
  <2> QED
    BY <2>1, <2>2 DEF FamilyInv, WorkerFamily, Disjoint
<1> QED
  BY <1>5, <1>6, <1>7 DEF IInv

LEMMA StutterKeeps ==
    ASSUME IInv, UNCHANGED vars
    PROVE  StepOK
<1>1. UNCHANGED <<scene, queue, enriched, approved, rows, family, job, admin, events>>
  BY DEF vars
<1>2. RestMay /\ QueueMay
  BY <1>1, WorkRests
<1>3. AdminInv'
  BY <1>1, RowsRest, AdminKept DEF IInv, StateInv
<1> QED
  BY <1>1, <1>2, <1>3, ResterStep

LEMMA NextKeeps ==
    ASSUME IInv, [Next]_vars
    PROVE  StepOK
<1>1. ASSUME NEW w \in Worker, Work(w)
      PROVE  StepOK
  <2>1. CASE ReconcileReads(w)
    BY <2>1, ReconcileReadsKeeps
  <2>2. CASE ReconcileWrites(w)
    BY <2>2, ReconcileWritesKeeps
  <2>3. CASE MatchReads(w)
    BY <2>3, MatchReadsKeeps
  <2>4. CASE MatchEnds(w)
    BY <2>4, MatchEndsKeeps
  <2>5. CASE MatchWrites(w)
    BY <2>5, MatchWritesKeeps
  <2>6. CASE ConsolidateSystemDuplicates(w)
    BY <2>6, ConsolidateKeeps
  <2>7. CASE CleanupMatchReviews(w)
    BY <2>7, CleanupKeeps
  <2>8. CASE RecalculateFacts(w)
    BY <2>8, FactsKeeps
  <2> QED
    BY <1>1, <2>1, <2>2, <2>3, <2>4, <2>5, <2>6, <2>7, <2>8 DEF Work
<1>2. ASSUME NEW w \in Worker, Maintain(w)
      PROVE  StepOK
  <2> PICK s \in Signal : ReconcileStored(w, s) \/ CorrelateApproved(w, s) \/ RecalculateStarts(w, s)
    BY <1>2 DEF Maintain
  <2>1. CASE ReconcileStored(w, s)
    BY <2>1, ReconcileStoredKeeps
  <2>2. CASE CorrelateApproved(w, s)
    BY <2>2, CorrelateApprovedKeeps
  <2>3. CASE RecalculateStarts(w, s)
    BY <2>3, RecalculateStartsKeeps
  <2> QED
    BY <2>1, <2>2, <2>3
<1>3. ASSUME NEW w \in Worker, Fail(w)
      PROVE  StepOK
  BY <1>3, FailKeeps
<1>4. ASSUME NEW w \in Worker, NEW s \in Signal, TakeMessage(w, s)
      PROVE  StepOK
  BY <1>4, TakeMessageKeeps
<1>5. ASSUME NEW s \in scene.signals, SendAgain(s) \/ Approve(s)
      PROVE  StepOK
  BY <1>5, SendAgainKeeps, ApproveKeeps
<1>6. ASSUME Administer
      PROVE  StepOK
  <2>1. CASE CheckRequest
    BY <2>1, CheckRequestKeeps
  <2>2. CASE LinkSignal
    BY <2>2, LinkSignalKeeps
  <2>3. CASE CreateOpportunityFromSignal
    BY <2>3, CreateKeeps
  <2>4. CASE MergeOpportunities
    BY <2>4, MergeKeeps
  <2>5. CASE AcceptMatchReview
    BY <2>5, AcceptKeeps
  <2>6. CASE \E o \in Opportunity, s \in Signal : RejectMatchReview(o, s) \/ UnlinkSignal(o, s)
    BY <2>6, RejectKeeps, UnlinkKeeps
  <2>7. CASE \E o \in Opportunity, signals \in SUBSET Signal : SplitOpportunity(o, signals)
    BY <2>7, SplitKeeps
  <2> QED
    BY <1>6, <2>1, <2>2, <2>3, <2>4, <2>5, <2>6, <2>7 DEF Administer
<1>7. CASE UNCHANGED vars
  BY <1>7, StutterKeeps
<1> QED
  BY <1>1, <1>2, <1>3, <1>4, <1>5, <1>6, <1>7 DEF Next

\* The invariant holds of every reachable state: jobs have read only what is
\* there, creating for a signal is one job's alone, and the families of a
\* deleted message are complete.
THEOREM Invariance == Spec => []IInv
<1>1. Init => IInv
  BY InitInv
<1>2. IInv /\ [Next]_vars => IInv'
  BY NextKeeps DEF StepOK
<1> QED
  BY <1>1, <1>2, PTL DEF Spec

\* Rows, families and jobs have the values the code gives them: an opportunity
\* that is merged says into which, and none is linked before it is inserted.
THEOREM TypeCorrect == Spec => []TypeOK
<1>1. IInv => TypeOK
  BY DEF IInv, StateInv
<1> QED
  BY <1>1, Invariance, PTL

\* The advisory lock of correlate_signal and the link that consolidation moves
\* keep the system from having two opportunities it created for one signal.
THEOREM CreatesOnce == Spec => []SystemCreatesOnce
<1>1. ASSUME IInv, NEW s \in Signal
      PROVE  Cardinality({o \in ActiveOf(s) : link[o][s].by = "CREATED"}) <= 1
  <2> DEFINE made == {o \in ActiveOf(s) : link[o][s].by = "CREATED"}
  <2>1. \A o \in made : o \in Opportunity /\ Created(o, s)
    <3> SUFFICES ASSUME NEW o \in made
                 PROVE  o \in Opportunity /\ Created(o, s)
      OBVIOUS
    <3>1. o \in Opportunity /\ link[o][s] \in LinkRow /\ link[o][s].status = "ACTIVE"
          /\ link[o][s].by = "CREATED"
      BY <1>1 DEF ActiveOf, IInv, StateInv, TypeOK
    <3> QED
      BY <3>1, LinkRows DEF Created, ActiveLink, LinkRow
  <2>2. \A o, p \in made : o = p
    BY <1>1, <2>1 DEF IInv, CreatedInv
  <2> HIDE DEF made
  <2>3. made = {} \/ \E o : made = {o}
    BY <2>2
  <2>4. Cardinality(made) = 0 \/ Cardinality(made) = 1
    BY <2>3, FS_EmptySet, FS_Singleton
  <2> QED
    BY <2>4 DEF made
<1>2. IInv => SystemCreatesOnce
  BY <1>1 DEF SystemCreatesOnce
<1> QED
  BY <1>2, Invariance, PTL

\* Whatever the order in which a follow-up and its origin are delivered, and
\* however their jobs interleave, the follow-up supports the opportunity of the
\* origin when the work on both has ended.
THEOREM FamiliesMeet == Spec => []FamiliesConverge
<1>1. ASSUME IInv, NEW f \in scene.signals, NEW s \in scene.signals,
             Class[f] = "followup", Class[s] = "origin", Primary[s] \in References(f),
             \A t \in Signal : Class[t] = "origin" /\ Primary[t] = Primary[s] => t = s,
             Settled(f), Settled(s), Cardinality(ActiveOf(s)) = 1
      PROVE  ActiveOf(f) # {}
  <2>1. f \in Signal /\ s \in Signal
    BY <1>1, SceneTyped DEF IInv, StateInv
  <2>2. Related(f, s) /\ f \notin queue /\ s \notin queue /\ Clean(f) /\ Clean(s)
    BY <1>1 DEF Related, Settled, Clean
  <2>3. Filed(f)
    BY <1>1, <2>2 DEF IInv, FamilyInv, FamilyRows, IsPlanning
  <2>4. f \in family[Primary[s]].references
    BY <1>1, <2>3 DEF Filed
  <2> QED
    BY <1>1, <2>1, <2>2, <2>4 DEF IInv, FamilyInv, FamilyRows
<1>2. IInv => FamiliesConverge
  BY <1>1 DEF FamiliesConverge
<1> QED
  BY <1>2, Invariance, PTL

\* ON CONFLICT DO NOTHING, and the rejected rows that every job leaves alone:
\* a rejected link is revived by an administrator or never.
THEOREM RejectedStay == Spec => RejectedPairsStayRejected
<1>1. ASSUME IInv, [Next]_vars, NEW o \in Opportunity, NEW s \in Signal,
             Blocked(o, s), s \in ActiveIn(o)'
      PROVE  link'[o][s].by = "ADMIN"
  <2>1. link[o][s] \in LinkRow /\ RowMay(link[o][s], link'[o][s])
    BY <1>1, NextKeeps DEF StepOK, LinksMay, IInv, StateInv, TypeOK
  <2>2. link[o][s].status = "REJECTED" /\ link'[o][s].status = "ACTIVE"
    BY <1>1 DEF Blocked, ActiveIn
  <2>3. link[o][s] # NoLink /\ link'[o][s] # Rejected(link[o][s])
    BY <2>1, <2>2, LinkRows
  <2> QED
    BY <2>1, <2>2, <2>3, LinkRows DEF RowMay, Maker
<1>2. IInv /\ [Next]_vars => [\A o \in Opportunity, s \in Signal :
           Blocked(o, s) /\ s \in ActiveIn(o)' => link'[o][s].by = "ADMIN"]_vars
  BY <1>1
<1> QED
  BY <1>2, Invariance, PTL DEF Spec, RejectedPairsStayRejected

\* Consolidating, merging and splitting link a signal elsewhere in the
\* transaction that rejects its link, so it loses its last opportunity only by
\* being unlinked or found routine.
THEOREM EvidenceStays == Spec => EvidenceIsNotLost
<1>1. IInv /\ [Next]_vars => [EvidenceKept]_vars
  BY NextKeeps DEF StepOK
<1> QED
  BY <1>1, Invariance, PTL DEF Spec, EvidenceIsNotLost, EvidenceKept
==============================================================================
