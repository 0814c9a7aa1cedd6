---------------------------- MODULE MCSignalReview ----------------------------
(* Instances of SignalReview for TLC. *)
EXTENDS SignalReview

CONSTANTS s1, w1, w2

\* Care planning in buckets that the policies treat differently (10 is held out
\* by the one-in-ten policies only), and other signals.
MCKind == {[vertical |-> "CHILDRENS_HOME", source |-> "planning", bucket |-> b] : b \in {1, 10}}
    \cup {[vertical |-> "NURSERY", source |-> "planning", bucket |-> 1],
          [vertical |-> "NURSERY", source |-> "recruitment", bucket |-> 1],
          [vertical |-> "CHILDRENS_HOME", source |-> "ofsted", bucket |-> 1]}

home == {"home", "direct", "changeToCare", "positive", "opening", "childcareRole", "setting"}

MCContent ==
    {[fields |-> {"pending"}, words |-> home \cup {"titleExtension", "titleLoss"}],
     [fields |-> {"approved"}, words |-> home \cup {"lawfulness", "proposed", "titleTrees"}],
     [fields |-> {"refused", "withdrawn"}, words |-> home],
     [fields |-> {"activeAppeal", "appealDismissed"}, words |-> home]}

MCVerdict ==
    {[status |-> "SUCCEEDED", recommendation |-> r, confidence |-> "high"] :
        r \in {"APPROVE", "REJECT"}}
    \cup {[status |-> "FAILED", recommendation |-> "NONE", confidence |-> "low"]}
=============================================================================
