----------------------------- MODULE MCServices -----------------------------
(***************************************************************************)
(* Small tables of each of the four services.                              *)
(***************************************************************************)
EXTENDS Services, TLC

CONSTANTS s1, s2, w1, w2, q1, f1, f2

TwoWorkers == {w1, w2}
Symmetry == Permutations(TwoWorkers)
------------------------------------------------------------------------------
\* An application that is refused on day 5, which is withheld from the case of
\* day 4; a vacancy, a row of the register, and an application by a company.
Row == [id |-> 1, source |-> "planning", published |-> 2, discovered |-> 2,
        decision |-> "CREATE_OPPORTUNITY", kind |-> "NEW", refused |-> FALSE,
        postcode |-> "p", who |-> {"a"}, near |-> {"n"}, company |-> None,
        curated |-> FALSE]
Rows ==
    {Row,
     [Row EXCEPT !.discovered = 5, !.refused = TRUE],
     [Row EXCEPT !.id = 2, !.source = "recruitment", !.published = 3, !.discovered = 4,
                 !.who = {"a", "b"}, !.decision = "SUPPORT_EXISTING_ONLY"],
     [Row EXCEPT !.id = 3, !.source = "ofsted", !.published = None, !.discovered = 3,
                 !.who = {"b"}],
     [Row EXCEPT !.id = 4, !.published = None, !.discovered = 5, !.who = {"c"},
                 !.company = "k"]}
Curated == [Row EXCEPT !.id = 4, !.published = None, !.discovered = 3, !.curated = TRUE,
                       !.who = {"trading"}]
Registered == [id |-> 1, from |-> 3, type |-> "REGISTERED", outcome |-> 4,
               postcode |-> None, who |-> {"a"}, near |-> {"n"}, company |-> None,
               covered |-> FALSE]
Unopened == [Registered EXCEPT !.id = 2, !.from = None, !.type = "DID_NOT_OPEN",
                               !.outcome = 5, !.postcode = "p", !.who = {"c"},
                               !.company = "k", !.covered = TRUE]
StrongLink == [case |-> 1, row |-> Curated, confidence |-> "STRONG_CASE_LINK",
               trusted |-> TRUE]
Corpus == [version |-> "v1", cases |-> {1, 2},
           links |-> {StrongLink, [StrongLink EXCEPT !.case = 2,
                                                     !.confidence = "POSSIBLE_CASE_LINK"]}]
Retrieved(n, day) == [id |-> n, company |-> "k", retrieved |-> day, incorporated |-> 1]

TwoRetrievals == {Retrieved(1, 3), Retrieved(2, 4)}
TwoCases == {Registered, Unopened}
OneCorpus == <<Corpus>>
TwoWindows == {[asOf |-> 6, lookback |-> 4], [asOf |-> 3, lookback |-> 4]}

\* Two opportunities of one project, each with a planning signal.
Said(kind, review) == [kind |-> kind, review |-> review]

TwoOpportunities == 1..2
BothSignals == {s1, s2}
OneProject == {{1, 2}}
LinkedFirst == <<{s2}, {s1}>>
MaySay == s1 :> {"REFUSED", "APPEAL"} @@ s2 :> {"EXISTING_USE", "FOUNDATION", "CAPACITY"}
SaidFirst == {s1 :> Said("REFUSED", "APPROVED") @@ s2 :> Said("EXISTING_USE", "PENDING")}

\* Two foundational applications of two authorities, which contradict each other
\* until one of them is refused.
Applications == {f1, f2}
SecondOne == {f2}
ApplicationKind == f1 :> "FOUNDATION" @@ f2 :> "FOUNDATION"
Revisions == f1 :> {"NEGATIVE"} @@ f2 :> {}
FirstOne == {f1}
OneQueuer == {q1}

\* One chunk, and two of which the last is shorter.
TwoScopes == {[last |-> 1, size |-> 7], [last |-> 3, size |-> 2]}
=============================================================================
