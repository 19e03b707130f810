-------------------------- MODULE AnalysisLifecycle --------------------------
(***************************************************************************)
(* What the pipeline promises about an analysis, whoever works on it: the  *)
(* state machine of the domain entity.  Each step is one commit.  pending  *)
(* to running is not a step of its own, because a worker commits start()   *)
(* together with what the attempt came to.                                 *)
(***************************************************************************)
EXTENDS Integers

CONSTANTS Analyses, TripleOf, MaxRetries

VARIABLES status,       \* of each analysis, "absent" before it exists
          retries       \* attempts consumed

Init ==
    /\ status = [a \in Analyses |-> "absent"]
    /\ retries = [a \in Analyses |-> 0]

Unfinished(a) == status[a] \in {"pending", "running"}

HasResult(t) == \E a \in Analyses : TripleOf[a] = t /\ status[a] = "completed"

Submit(a) ==
    /\ status[a] = "absent"
    /\ status' = [status EXCEPT ![a] = "pending"]
    /\ UNCHANGED retries

\* An attempt failed and another one is due.
Retry(a) ==
    /\ Unfinished(a)
    /\ retries[a] < MaxRetries
    /\ status' = [status EXCEPT ![a] = "running"]
    /\ retries' = [retries EXCEPT ![a] = @ + 1]

Complete(a) ==
    /\ Unfinished(a)
    /\ ~HasResult(TripleOf[a])
    /\ status' = [status EXCEPT ![a] = "completed"]
    /\ UNCHANGED retries

\* The analyzer reported a failure, or the last attempt is used up.
Fail(a) ==
    /\ Unfinished(a)
    /\ status' = [status EXCEPT ![a] = "failed"]
    /\ \/ UNCHANGED retries
       \/ retries[a] = MaxRetries /\ retries' = [retries EXCEPT ![a] = @ + 1]

Next == \E a \in Analyses : Submit(a) \/ Retry(a) \/ Complete(a) \/ Fail(a)

Spec == Init /\ [][Next]_<<status, retries>>
=============================================================================
