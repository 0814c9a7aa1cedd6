---------------------------- MODULE IdempotentRuns ----------------------------
(***************************************************************************)
(* What a ledger of idempotent attempts promises, whoever makes them: an   *)
(* attempt under a key begins only when none is under way and none has     *)
(* succeeded, and ends once.  Only a success that its maker was not told   *)
(* of, as the answer of the COMMIT was lost, may be taken for a failure.   *)
(* A key's attempts are listed oldest first.                               *)
(***************************************************************************)
EXTENDS Naturals, Sequences

CONSTANT Key

VARIABLES
    attempts,
    unanswered      \* <<key, attempt>> of successes their makers do not know of

ledger == <<attempts, unanswered>>

Outcome == {"SUCCESS", "FAILED"}

Live(status) == status \in {"RUNNING", "SUCCESS"}

Init == attempts = [k \in Key |-> <<>>] /\ unanswered = {}

Becomes(k, i, status) ==
    attempts' = [attempts EXCEPT ![k] = [attempts[k] EXCEPT ![i] = status]]

Begin(k) ==
    /\ \A i \in DOMAIN attempts[k] : ~Live(attempts[k][i])
    /\ attempts' = [attempts EXCEPT ![k] = Append(attempts[k], "RUNNING")]
    /\ UNCHANGED unanswered

End(k, i, outcome) ==
    /\ attempts[k][i] = "RUNNING"
    /\ Becomes(k, i, outcome)
    /\ \/ UNCHANGED unanswered
       \/ outcome = "SUCCESS" /\ unanswered' = unanswered \cup {<<k, i>>}

\* The maker records the failure that it takes the lost answer for ...
Revoke(k, i) ==
    /\ <<k, i>> \in unanswered
    /\ Becomes(k, i, "FAILED")
    /\ unanswered' = unanswered \ {<<k, i>>}

\* ... or is cut off before it does.
Settle(k, i) ==
    /\ <<k, i>> \in unanswered
    /\ unanswered' = unanswered \ {<<k, i>>}
    /\ UNCHANGED attempts

Next == \E k \in Key : \/ Begin(k)
                       \/ \E i \in DOMAIN attempts[k] :
                             \/ \E outcome \in Outcome : End(k, i, outcome)
                             \/ Revoke(k, i)
                             \/ Settle(k, i)

Spec == Init /\ [][Next]_ledger

\* One attempt of a key at most is under way or has succeeded.
OneLiveAttempt ==
    \A k \in Key : \A i, j \in DOMAIN attempts[k] :
        Live(attempts[k][i]) /\ Live(attempts[k][j]) => i = j
==============================================================================
