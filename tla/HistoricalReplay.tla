--------------------------- MODULE HistoricalReplay ---------------------------
(***************************************************************************)
(* The pure part of a backtest: app/backtesting.py replays what the source *)
(* rows say, in the order they became available, for one benchmark case,   *)
(* and app/historical_corpus.py judges the curated evidence.               *)
(*                                                                         *)
(* Dates are numbers and a missing value is None; a name or a place is the *)
(* set of its words.  A source row carries what the vertical's policy      *)
(* answers of its content (decision, kind), and whether its decision and   *)
(* status fields say that it was refused or withdrawn (refused), which the *)
(* policy asks first.  Benchmarks are of one vertical, Care.               *)
(***************************************************************************)
EXTENDS Integers, FiniteSets, SequencesExt

CONSTANTS
    None,           \* a missing date, postcode or company number
    MaxSignals      \* max_signals: source rows a run reads at most

\* What an instance gives the constants satisfies (see Services).
ReplayAssumption == None \notin Nat /\ MaxSignals \in Nat \ {0}

Smallest(S) == IF S = {} THEN None ELSE CHOOSE n \in S : \A m \in S : n <= m

\* The first n of a set (ORDER BY ... LIMIT n).
Earliest(S, n, Before(_, _)) == {x \in S : Cardinality({y \in S : Before(y, x)}) < n}

HistoricalAvailability(r) ==
    IF r.source \in {"planning", "recruitment"} /\ r.published # None
      THEN r.published
      ELSE r.discovered

\* What the replay is given of a row: of an application, without the status
\* and the decision, which may be of any day.
Given(r, refused) ==
    [id |-> r.id, source |-> r.source, at |-> HistoricalAvailability(r),
     decision |-> r.decision, kind |-> r.kind, refused |-> refused,
     postcode |-> r.postcode, who |-> r.who, near |-> r.near, company |-> r.company,
     curated |-> r.curated]
HistoricalSignalSnapshotBug(r) == Given(r, r.refused)
HistoricalSignalSnapshot(r) == Given(r, r.refused /\ r.source # "planning")

\* What the policy decides: what was refused or withdrawn is ignored.
Decision(r) == IF r.refused THEN "IGNORE_FOR_OPPORTUNITY" ELSE r.decision

\* Snapshots in the order their rows became available, then of their ids.
InOrder(rows) ==
    SetToSortSeq(rows, LAMBDA r, s : r.at < s.at \/ (r.at = s.at /\ r.id < s.id))

\* The identity of a company counts from its retrieval and its incorporation.
CompanyIdentityAvailable(e, asOf) ==
    e.retrieved <= asOf /\ (e.incorporated # None => e.incorporated <= asOf)

CompatibleNames(a, b) == a \cap b # {}

LocationsCompatible(a, b) == a # {} /\ b # {} /\ (a \subseteq b \/ b \subseteq a)

\* Whether a row, or an opportunity made of it, is about the case.
MatchesTruth(o, c) ==
    /\ c.postcode # None /\ o.postcode # None => c.postcode = o.postcode
    /\ c.postcode = None /\ c.near # {} => LocationsCompatible(c.near, o.near)
    /\ \/ CompatibleNames(c.who, o.who) /\ c.near # {}
       \/ c.who = o.who /\ c.who # {} /\ c.postcode # None
       \/ c.postcode # None /\ o.postcode # None

OperatorResolution(r, c) ==
    IF c.company # None /\ c.company = r.company THEN "EXACT"
    ELSE IF c.who # {} /\ c.who = r.who THEN "STRONG"
    ELSE IF CompatibleNames(c.who, r.who) THEN "PROBABLE"
    ELSE "UNRESOLVED"

Resolved == {"EXACT", "STRONG"}

\* How a row matches an opportunity of the replay (classify_match).
SamePlace(r, o) == r.postcode # None /\ r.postcode = o.postcode
ExactMatch(r, o) == SamePlace(r, o) /\ CompatibleNames(r.who, o.who)

\* What the key of a generated opportunity hashes.
OpportunityKey(o) == <<o.postcode, o.who, o.kind>>

NewOpportunity(r) ==
    [postcode |-> r.postcode, who |-> r.who, near |-> r.near, kind |-> r.kind,
     createdAt |-> r.at, rows |-> {r}]

ReplayStart ==
    [opportunities |-> <<>>, relevant |-> {}, reviews |-> 0,
     operator |-> "UNRESOLVED", operatorAt |-> None]

\* The rows with the label of a curated link: checked after the classification.
Labelled(rows, labels) == {r \in rows : r.curated /\ r.id \in labels}

\* The effect of one source row: what it says of the case, and the
\* opportunity it supports, makes or asks a review about.
ReplaySignal(st, r, c, labelled) ==
    LET related == /\ r \in labelled \/ MatchesTruth(r, c)
                   /\ Decision(r) # "IGNORE_FOR_OPPORTUNITY"
        found == OperatorResolution(r, c)
        opps == st.opportunities
        exact == Smallest({i \in DOMAIN opps : ExactMatch(r, opps[i])})
        create == Decision(r) = "CREATE_OPPORTUNITY"
        doubtful == \/ Decision(r) = "REVIEW"
                    \/ \E i \in DOMAIN opps : SamePlace(r, opps[i])
    IN [opportunities |->
            IF exact # None THEN [opps EXCEPT ![exact].rows = @ \cup {r}]
            ELSE IF create THEN Append(opps, NewOpportunity(r))
            ELSE opps,
        relevant |-> IF related THEN st.relevant \cup {<<r.at, r.source>>} ELSE st.relevant,
        reviews |-> st.reviews + (IF exact = None /\ ~create /\ doubtful THEN 1 ELSE 0),
        operator |-> IF related /\ st.operator = "UNRESOLVED" THEN found ELSE st.operator,
        operatorAt |-> IF related /\ found \in Resolved /\ st.operatorAt = None
                         THEN r.at ELSE st.operatorAt]

ReplayEndBug(c, asOf) == asOf
ReplayEnd(c, asOf) == IF c.outcome < asOf THEN c.outcome ELSE asOf

\* What a case may be judged by: rows available in its window, never the
\* register its outcome was taken from.
Eligible(c, signals, w) ==
    LET available == {r \in signals :
                        /\ r.source # "ofsted"
                        /\ HistoricalAvailability(r) >= c.outcome - w.lookback
                        /\ HistoricalAvailability(r) <= ReplayEnd(c, w.asOf)}
    IN {HistoricalSignalSnapshot(r) : r \in available}

Replayed(c, sequence, labelled) ==
    LET after[n \in 0..Len(sequence)] ==
            IF n = 0 THEN ReplayStart
            ELSE ReplaySignal(after[n - 1], sequence[n], c, labelled)
    IN after[Len(sequence)]

ExcludedCase(c) == [case |-> c.id, type |-> c.type, usable |-> FALSE]

\* The opportunities of the replay that are the case's.
TruthMatches(opps, c, labelled) ==
    {i \in DOMAIN opps : MatchesTruth(opps[i], c) \/ opps[i].rows \cap labelled # {}}

SiteResolution(opps, matching, c) ==
    IF Cardinality(matching) > 1 THEN "DUPLICATE_OPPORTUNITY"
    ELSE IF matching = {} THEN "UNRESOLVED"
    ELSE IF c.postcode # None
      THEN IF \A i \in matching : opps[i].postcode = c.postcode
             THEN "CORRECT" ELSE "INCORRECT"
    ELSE IF c.near # {} THEN "PROBABLE_PROVIDER_AREA"
    ELSE "UNRESOLVED_NO_SITE_TRUTH"

\* Evidence of the case's company, in the order it was retrieved: each piece
\* overwrites what the one before it said, its improvement included.
CompanyEvidence(c, evidence, asOf) ==
    {e \in evidence : /\ CompanyIdentityAvailable(e, ReplayEnd(c, asOf))
                      /\ c.company # None /\ e.company = c.company}

ReplayCase(c, signals, evidence, w, labels, covered) ==
    LET eligible == Eligible(c, signals, w)
        labelled == Labelled(eligible, labels)
        st == Replayed(c, InOrder(eligible), labelled)
        opps == st.opportunities
        matching == TruthMatches(opps, c, labelled)
        first == Smallest({v[1] : v \in st.relevant})
        identified == CompanyEvidence(c, evidence, w.asOf)
        firstOf(source) == Smallest({v[1] : v \in {x \in st.relevant : x[2] = source}})
    IN IF eligible = {} \/ (first = None /\ ~covered)
         THEN ExcludedCase(c)
         ELSE [case |-> c.id, type |-> c.type, usable |-> TRUE,
               detectedAt |-> first,
               firstSource |-> IF first = None THEN None
                               ELSE IF <<first, "planning">> \in st.relevant
                                 THEN "planning" ELSE "recruitment",
               opportunityAt |-> Smallest({opps[i].createdAt : i \in matching}),
               leadTime |-> IF first = None THEN None ELSE c.outcome - first,
               operator |-> IF identified = {} THEN st.operator ELSE "EXACT",
               operatorAt |-> IF identified = {} THEN st.operatorAt
                              ELSE CHOOSE d \in {e.retrieved : e \in identified} :
                                     \A e \in identified : e.retrieved <= d,
               companyImproved |-> Cardinality(identified) = 1 /\ st.operator \notin Resolved,
               site |-> SiteResolution(opps, matching, c),
               duplicates |-> IF matching = {} THEN 0 ELSE Cardinality(matching) - 1,
               reviews |-> st.reviews,
               sourceDates |-> [s \in {"planning", "recruitment"} |-> firstOf(s)],
               generated |-> {OpportunityKey(opps[i]) : i \in DOMAIN opps},
               true |-> {OpportunityKey(opps[i]) : i \in matching}]

PositiveOutcomes == {"OPENED", "REGISTERED", "EXPANDED", "RELOCATED"}

\* The counts of a run.  An opportunity two cases claim is counted once among
\* the positive ones and once among the negative ones.
AggregateResults(results) ==
    LET usable == {x \in results : x.usable}
        positives == {x \in usable : x.type \in PositiveOutcomes}
        negatives == usable \ positives
        keys(S) == UNION {x.true : x \in S}
        labelled == Cardinality(keys(positives)) + Cardinality(keys(negatives))
        generated == Cardinality(UNION {x.generated : x \in usable})
    IN [attempted |-> Cardinality(results), usable |-> Cardinality(usable),
        positives |-> Cardinality(positives),
        detected |-> Cardinality({x \in positives : x.detectedAt # None}),
        precision |-> IF negatives = {} \/ labelled = 0 THEN None
                      ELSE <<Cardinality(keys(positives)), labelled>>,
        unlabelled |-> IF generated > labelled THEN generated - labelled ELSE 0,
        firstBy |-> [s \in {"planning", "recruitment"} |->
                        Cardinality({x \in positives : x.firstSource = s})]]
------------------------------------------------------------------------------
TrustedLinks == {"VERIFIED_CASE_LINK", "STRONG_CASE_LINK"}

\* What a candidate of the curated corpus is worth to a case (an undated
\* record is not imported at all).
EvidenceEligibility(c, r, confidence, trusted) ==
    IF r.discovered > c.outcome THEN "EXCLUDED_AFTER_REGISTRATION"
    ELSE IF ~trusted THEN "EXCLUDED_UNTRUSTWORTHY_SOURCE"
    ELSE IF confidence \notin TrustedLinks THEN "EXCLUDED_WEAK_CASE_LINK"
    ELSE "ELIGIBLE"
==============================================================================
