---------------------------- MODULE SingleUseTokens ----------------------------
(***************************************************************************)
(* What refresh-token rotation promises, with requests, transactions and   *)
(* locks left out: a token is issued once, and it ends either by being     *)
(* exchanged for exactly one new token, in one step with the issue of that *)
(* token, or by being withdrawn.  Neither is ever undone.                  *)
(***************************************************************************)
CONSTANTS Tokens, NoToken

VARIABLES
    status,         \* "unissued", "live", "exchanged" or "withdrawn"
    predecessor     \* the token that was exchanged for this one

tokenVars == <<status, predecessor>>

Init ==
    /\ status = [t \in Tokens |-> "unissued"]
    /\ predecessor = [t \in Tokens |-> NoToken]

\* A login puts a token of no predecessor into circulation.
Issue(t) ==
    /\ status[t] = "unissued"
    /\ status' = [status EXCEPT ![t] = "live"]
    /\ UNCHANGED predecessor

\* A refresh: the old token ends and the new one begins, or neither does.
Exchange(old, new) ==
    /\ status[old] = "live"
    /\ status[new] = "unissued"
    /\ status' = [status EXCEPT ![old] = "exchanged", ![new] = "live"]
    /\ predecessor' = [predecessor EXCEPT ![new] = old]

\* A logout or a deactivation ends some live tokens.
Withdraw(S) ==
    /\ \A t \in S : status[t] = "live"
    /\ status' = [t \in Tokens |-> IF t \in S THEN "withdrawn" ELSE status[t]]
    /\ UNCHANGED predecessor

Next ==
    \/ \E t \in Tokens : Issue(t)
    \/ \E old, new \in Tokens : Exchange(old, new)
    \/ \E S \in SUBSET Tokens : Withdraw(S)

Spec == Init /\ [][Next]_tokenVars
================================================================================
