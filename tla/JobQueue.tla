------------------------------- MODULE JobQueue -------------------------------
(***************************************************************************)
(* The broker and CeleryRedisQueueAdapter: at-least-once delivery of jobs. *)
(* A job carries nothing but an analysis id, so the broker's contents are  *)
(* counts of copies: ready to be delivered, delivered to a consumer that   *)
(* holds its claim, or delivered to a consumer that is gone and not yet    *)
(* restored.  The order of delivery is not modelled.                       *)
(***************************************************************************)
EXTENDS Integers

CONSTANTS Analyses,     \* ids a job can carry
          Workers,      \* consumer processes
          NoAnalysis,   \* "holds no claim"
          MaxCopies     \* copies the broker may store for one send_task

ASSUME QueueAssumption ==
    /\ NoAnalysis \notin Analyses
    /\ MaxCopies \in Nat \ {0}

VARIABLES ready,        \* copies a consumer can claim
          held,         \* the claim each consumer process holds
          unacked       \* copies whose consumer died before acknowledging

queueVars == <<ready, held, unacked>>

QueueTypeOK ==
    /\ ready \in [Analyses -> Nat]
    /\ held \in [Workers -> Analyses \union {NoAnalysis}]
    /\ unacked \in [Analyses -> Nat]

QueueInit ==
    /\ ready = [a \in Analyses |-> 0]
    /\ held = [w \in Workers |-> NoAnalysis]
    /\ unacked = [a \in Analyses |-> 0]

\* A copy of the job for `a` is still known to the broker.
InQueue(a) == \/ ready[a] > 0
              \/ unacked[a] > 0
              \/ \E w \in Workers : held[w] = a

\* send_task: the client retries a publication whose reply was lost, so one
\* call can leave n copies.
Enqueue(a, n) ==
    /\ ready' = [ready EXCEPT ![a] = @ + n]
    /\ UNCHANGED <<held, unacked>>

ClaimJob(w, a) ==
    /\ held[w] = NoAnalysis
    /\ ready[a] > 0
    /\ ready' = [ready EXCEPT ![a] = @ - 1]
    /\ held' = [held EXCEPT ![w] = a]
    /\ UNCHANGED unacked

AckJob(w) ==
    /\ held' = [held EXCEPT ![w] = NoAnalysis]
    /\ UNCHANGED <<ready, unacked>>

\* reject(requeue=True)
NackJob(w) ==
    /\ held[w] # NoAnalysis
    /\ ready' = [ready EXCEPT ![held[w]] = @ + 1]
    /\ held' = [held EXCEPT ![w] = NoAnalysis]
    /\ UNCHANGED unacked

\* The connection of a dead process closes with its claim unacknowledged.
DropConsumer(w) ==
    /\ unacked' = [a \in Analyses |->
                     IF a = held[w] THEN unacked[a] + 1 ELSE unacked[a]]
    /\ held' = [held EXCEPT ![w] = NoAnalysis]
    /\ UNCHANGED ready

\* The transport puts an unacknowledged message back (at exit, or when its
\* visibility timeout expires).
RestoreJob(a) ==
    /\ unacked[a] > 0
    /\ unacked' = [unacked EXCEPT ![a] = @ - 1]
    /\ ready' = [ready EXCEPT ![a] = @ + 1]
    /\ UNCHANGED held
=============================================================================
