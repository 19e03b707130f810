----------------------------- MODULE RateLimiter -----------------------------
(***************************************************************************)
(* RateLimitMiddleware: every request of a client is counted in Redis,     *)
(* under a key made of the client's address and the current minute, before *)
(* a handler sees it.  INCR, EXPIRE and the comparison follow each other   *)
(* without an await, and INCR is atomic, so the decision is one step.      *)
(*                                                                         *)
(* Counters belong to the current minute: a key names its minute, so none  *)
(* is read again once the minute is over.  Nothing sets request.state.user *)
(* before the middleware runs; there is one limit for everybody.           *)
(***************************************************************************)
EXTENDS Integers

CONSTANTS
    Clients,        \* the addresses requests come from
    NoClient,       \* a request whose address is unknown
    Limit,          \* unauthenticated_requests_per_minute
    LastMinute,     \* bound: the minutes that pass
    RedisMayFail    \* INCR or EXPIRE may raise

ASSUME LimiterAssumption ==
    /\ NoClient \notin Clients
    /\ Limit \in Nat \ {0}
    /\ LastMinute \in Nat
    /\ RedisMayFail \in BOOLEAN

VARIABLES
    minute,     \* _get_minute_bucket
    counter,    \* the value of rate_limit:<client>:<minute>
    served,     \* requests of this minute the comparison let through
    refused     \* the clients that were answered 429 in this minute

limiterVars == <<minute, counter, served, refused>>

LimiterTypeOK ==
    /\ minute \in 0 .. LastMinute
    /\ counter \in [Clients -> Nat]
    /\ served \in [Clients -> Nat]
    /\ refused \subseteq Clients

LimiterInit ==
    /\ minute = 0
    /\ counter = [c \in Clients |-> 0]
    /\ served = [c \in Clients |-> 0]
    /\ refused = {}

Increment(f, c) == [f EXCEPT ![c] = @ + 1]

\* Mutant: the comparison takes the counter for the requests before this one.
ExceededLate(count) == count > Limit + 1

Exceeded(count) == count > Limit

Serve(c) ==
    /\ c \in Clients
    /\ ~Exceeded(counter[c] + 1)
    /\ counter' = Increment(counter, c)
    /\ served' = Increment(served, c)
    /\ UNCHANGED <<minute, refused>>

\* INCR raises, or EXPIRE does after the first INCR of the minute.
FailOpen(c) ==
    /\ RedisMayFail
    /\ c \in Clients
    /\ \/ UNCHANGED counter
       \/ counter[c] = 0 /\ counter' = Increment(counter, c)
    /\ UNCHANGED <<minute, served, refused>>

Pass(c) == Serve(c) \/ FailOpen(c) \/ (c = NoClient /\ UNCHANGED limiterVars)

Refuse(c) ==
    /\ c \in Clients
    /\ Exceeded(counter[c] + 1)
    /\ counter' = Increment(counter, c)
    /\ refused' = refused \union {c}
    /\ UNCHANGED <<minute, served>>

\* The next minute has other keys, which no INCR has created yet.
Tick ==
    /\ minute < LastMinute
    /\ minute' = minute + 1
    /\ counter' = [c \in Clients |-> 0]
    /\ served' = [c \in Clients |-> 0]
    /\ refused' = {}

-----------------------------------------------------------------------------
(* Properties *)

\* However the requests of a client come, no minute serves more than Limit of
\* them, save those that pass because Redis fails; and a client is answered 429
\* only in a minute in which more than Limit of its requests were counted.
FairLimit ==
    \A c \in Clients :
        /\ served[c] <= Limit
        /\ c \in refused => counter[c] > Limit
================================================================================
