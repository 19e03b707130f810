--------------------------- MODULE AnalysisPipeline ---------------------------
(***************************************************************************)
(* The analysis pipeline: POST /assets/{id}/analyses creates a pending row *)
(* and publishes a job; worker processes claim jobs, run the analyzer and  *)
(* write the outcome; POST /analyses/{id}/cancel cancels.  All of them     *)
(* write the same rows, each in a PostgreSQL transaction of its own (READ  *)
(* COMMITTED, one row lock per written row, held until commit).            *)
(*                                                                         *)
(* A step ends where the code awaits the database or the broker, so that   *)
(* any other session may run between a SELECT and the UPDATE computed from *)
(* it, between a flush and the acknowledgement of the job, and between the *)
(* acknowledgement and the commit.                                         *)
(***************************************************************************)
EXTENDS AnalysisRow, JobQueue

CONSTANTS
    Cancels,        \* cancel requests, each served by a session of its own
    Triples,        \* (asset, analyzer_key, analyzer_version)
    TripleOf,       \* [Analyses -> Triples]: what each POST asks for
    Outcomes,       \* how analyze() may end
    Faults,         \* the failures the environment may inject ...
    MaxFaults,      \* ... and how many of them in one behaviour
    EngineBound     \* FALSE: the sessions run_worker builds have no engine

ASSUME PipelineAssumption ==
    /\ Workers \intersect Cancels = {}
    /\ TripleOf \in [Analyses -> Triples]
    /\ Outcomes \subseteq {"verdict", "failed", "error", "timeout"}
    /\ Faults \subseteq {"crash", "db", "commit", "broker"}
    /\ MaxFaults \in Nat
    /\ EngineBound \in BOOLEAN

VARIABLES
    db,         \* the committed rows
    own,        \* a session's uncommitted version of the row it acts on
    pc,         \* where a session stands
    target,     \* the analysis it acts on
    seen,       \* the entity its first get_by_id returned
    base,       \* the row `update` loaded
    plan,       \* the update it is about to make
    request,    \* the progress of each POST
    faults      \* failures injected so far

rowVars     == <<db, own>>
sessionVars == <<pc, target, seen, base, plan>>
vars        == <<ready, held, unacked, db, own, pc, target, seen, base, plan,
                 request, faults>>

Sessions == Workers \union Cancels

WorkerStep == {"idle", "load", "select", "flush", "analyze", "ack", "nack",
               "commit", "dead"}
CancelStep == {"new", "select", "flush", "commit", "done"}
RequestStep == {"new", "replayed", "inserted", "refused", "published",
                "accepted", "lost"}

TypeOK ==
    /\ QueueTypeOK
    /\ db \in [Analyses -> Row]
    /\ own \in [Sessions -> Row]
    /\ pc \in [Sessions -> WorkerStep \union CancelStep]
    /\ target \in [Sessions -> Analyses \union {NoAnalysis}]
    /\ seen \in [Sessions -> Row]
    /\ base \in [Sessions -> Row]
    /\ plan \in [Sessions -> Operation \union {"none"}]
    /\ request \in [Analyses -> RequestStep]
    /\ faults \in Nat

Init ==
    /\ QueueInit
    /\ db = [a \in Analyses |-> NoRow]
    /\ own = [s \in Sessions |-> NoRow]
    /\ pc = [s \in Sessions |-> IF s \in Workers THEN "idle" ELSE "new"]
    /\ target = [s \in Sessions |-> NoAnalysis]
    /\ seen = [s \in Sessions |-> NoRow]
    /\ base = [s \in Sessions |-> NoRow]
    /\ plan = [s \in Sessions |-> "none"]
    /\ request = [a \in Analyses |-> "new"]
    /\ faults = 0

-----------------------------------------------------------------------------
(* PostgreSQL: what a session reads, whom it waits for, what the partial   *)
(* unique index (asset, key, version) WHERE status = 'completed' refuses.  *)

Dirty(s) == own[s] # NoRow

\* A session reads its own write, everybody else's only once committed.
Visible(s) == IF Dirty(s) THEN own[s] ELSE db[target[s]]

\* Another session wrote the row and has not ended its transaction.
LockedByOther(s) ==
    \E t \in Sessions \ {s} : target[t] = target[s] /\ Dirty(t)

Rivals(a) == {b \in Analyses \ {a} : TripleOf[b] = TripleOf[a]}

\* The index entry is being inserted or removed by a transaction in progress:
\* an insertion of the same key waits for it to end.
KeyInFlight(s) ==
    \E t \in Sessions \ {s} :
        /\ target[t] \in Rivals(target[s])
        /\ Dirty(t)
        /\ "completed" \in {own[t].status, db[target[t]].status}

KeyTaken(s) == \E b \in Rivals(target[s]) : db[b].status = "completed"

NewVersion(s) == Merged(Visible(s), base[s], plan[s], seen[s])
Entity(s)     == Assigned(base[s], plan[s], seen[s])

-----------------------------------------------------------------------------
(* Session bookkeeping *)

Goto(s, step) == pc' = [pc EXCEPT ![s] = step]

\* The session goes on to `update` the row with operation op.
Updating(s, op) ==
    /\ Goto(s, "select")
    /\ plan' = [plan EXCEPT ![s] = op]

\* The session's transaction is over; nothing it read is used again.
EndSession(s, step) ==
    /\ Goto(s, step)
    /\ own' = [own EXCEPT ![s] = NoRow]
    /\ target' = [target EXCEPT ![s] = NoAnalysis]
    /\ seen' = [seen EXCEPT ![s] = NoRow]
    /\ base' = [base EXCEPT ![s] = NoRow]
    /\ plan' = [plan EXCEPT ![s] = "none"]

Inject(kind) ==
    /\ kind \in Faults
    /\ faults < MaxFaults
    /\ faults' = faults + 1

-----------------------------------------------------------------------------
(* The API process: request_analysis *)

\* Mutant: any earlier analysis of the triple is replayed.
RequestReplaysAny(a) ==
    /\ request[a] = "new"
    /\ request' = [request EXCEPT ![a] =
                     IF \E b \in Rivals(a) : db[b] # NoRow
                     THEN "replayed" ELSE "inserted"]
    /\ UNCHANGED <<queueVars, rowVars, sessionVars, faults>>

\* The idempotency check and the INSERT.  The new row is nobody else's business
\* before the commit, so one step stands for both.
RequestAnalysis(a) ==
    /\ request[a] = "new"
    /\ request' = [request EXCEPT ![a] =
                     IF \E b \in Analyses : /\ TripleOf[b] = TripleOf[a]
                                            /\ db[b].status = "completed"
                     THEN "replayed" ELSE "inserted"]
    /\ UNCHANGED <<queueVars, rowVars, sessionVars, faults>>

\* The job is published before the transaction that holds its row commits.
PublishJob(a) ==
    /\ request[a] = "inserted"
    /\ \E n \in 1 .. MaxCopies : Enqueue(a, n)
    /\ request' = [request EXCEPT ![a] = "published"]
    /\ UNCHANGED <<rowVars, sessionVars, faults>>

\* send_task raises, whether or not the broker stored the message: the row is
\* deleted, and QueuePublicationError rolls the transaction back.
PublicationFails(a) ==
    /\ request[a] = "inserted"
    /\ \E n \in 0 .. MaxCopies : Enqueue(a, n)
    /\ request' = [request EXCEPT ![a] = "refused"]
    /\ UNCHANGED <<rowVars, sessionVars, faults>>

\* get_db_session commits once the 202 response has been sent.
CommitRequest(a) ==
    /\ request[a] = "published"
    /\ db' = [db EXCEPT ![a] = PendingRow]
    /\ request' = [request EXCEPT ![a] = "accepted"]
    /\ UNCHANGED <<queueVars, own, sessionVars, faults>>

CommitRequestFails(a) ==
    /\ request[a] = "published"
    /\ Inject("commit")
    /\ request' = [request EXCEPT ![a] = "lost"]
    /\ UNCHANGED <<queueVars, rowVars, sessionVars>>

-----------------------------------------------------------------------------
(* The API process: cancel_analysis *)

\* Not found, a terminal status or an unreadable row ends the request with an
\* error; otherwise the status that was read decides.
CancelLoad(c, a) ==
    /\ pc[c] = "new"
    /\ IF db[a].status \in Active /\ Loadable(db[a])
       THEN /\ Updating(c, "cancel")
            /\ target' = [target EXCEPT ![c] = a]
            /\ seen' = [seen EXCEPT ![c] = db[a]]
       ELSE /\ Goto(c, "done")
            /\ UNCHANGED <<plan, target, seen>>
    /\ UNCHANGED <<queueVars, rowVars, base, request, faults>>

CancelCommit(c) ==
    /\ pc[c] = "commit"
    /\ db' = [db EXCEPT ![target[c]] = Visible(c)]
    /\ EndSession(c, "done")
    /\ UNCHANGED <<queueVars, request, faults>>

CancelAborts(c) ==
    /\ pc[c] \in {"select", "flush", "commit"}
    /\ Inject("commit")
    /\ EndSession(c, "done")
    /\ UNCHANGED <<queueVars, db, request>>

-----------------------------------------------------------------------------
(* PostgreSQLRepository.update, in the worker's sessions and the canceller's *)

UpdateSelect(s) ==
    /\ pc[s] = "select"
    /\ base' = [base EXCEPT ![s] = Visible(s)]
    /\ Goto(s, "flush")
    /\ UNCHANGED <<queueVars, rowVars, target, seen, plan, request, faults>>

\* The UPDATE gets the row lock and no index entry stands in its way.
CanFlush(s) ==
    /\ pc[s] = "flush"
    /\ ~LockedByOther(s)
    /\ NewVersion(s).status = "completed" => ~KeyInFlight(s)

\* Mutant: no partial unique index on completed analyses.
NeverRefused(s) == FALSE

Refused(s) == NewVersion(s).status = "completed" /\ KeyTaken(s)

AfterFlush(op) ==
    CASE op = "start"                           -> "analyze"
      [] op \in {"complete", "fail", "exhaust"} -> "ack"
      [] op = "retry"                           -> "nack"
      [] op = "cancel"                          -> "commit"

UpdateFlush(s) ==
    /\ CanFlush(s)
    /\ ~Refused(s)
    /\ Loadable(Entity(s))
    /\ own' = [own EXCEPT ![s] = NewVersion(s)]
    /\ Goto(s, AfterFlush(plan[s]))
    /\ UNCHANGED <<queueVars, db, target, seen, base, plan, request, faults>>

-----------------------------------------------------------------------------
(* A worker process *)

\* run_worker ends with an exception: the session is rolled back, the process
\* exits and the broker sees its connection close.
Die(w) ==
    /\ DropConsumer(w)
    /\ EndSession(w, "dead")

\* Mutant: one attempt too many.
HandleFailureLate(w, hasMessage) ==
    \/ /\ seen[w].retry <= MaxRetries
       /\ Updating(w, "retry")
       /\ UNCHANGED <<target, seen, base>>
    \/ /\ seen[w].retry > MaxRetries
       /\ Updating(w, "exhaust")
       /\ UNCHANGED <<target, seen, base>>

\* _handle_failure.  The entity is the one read when the job was claimed: its
\* retry_count and, when start() was made on a copy, its pending status are
\* stale here.  A TimeoutError has an empty message, which fail() rejects.
HandleFailure(w, hasMessage) ==
    \/ /\ NextRetry(seen[w]) <= MaxRetries
       /\ Updating(w, "retry")
       /\ UNCHANGED <<target, seen, base>>
    \/ /\ NextRetry(seen[w]) > MaxRetries
       /\ seen[w].status = "running"
       /\ hasMessage
       /\ Updating(w, "exhaust")
       /\ UNCHANGED <<target, seen, base>>

HandlerRaises(w, hasMessage) ==
    /\ NextRetry(seen[w]) > MaxRetries
    /\ ~(seen[w].status = "running" /\ hasMessage)

Claim(w, a) ==
    /\ pc[w] = "idle"
    /\ ClaimJob(w, a)
    /\ Goto(w, "load")
    /\ target' = [target EXCEPT ![w] = a]
    /\ UNCHANGED <<rowVars, seen, base, plan, request, faults>>

\* get_by_id finds an analysis to work on.
LoadAnalysis(w) ==
    /\ pc[w] = "load"
    /\ EngineBound
    /\ db[target[w]].status \in Active
    /\ Loadable(db[target[w]])
    /\ seen' = [seen EXCEPT ![w] = db[target[w]]]
    /\ IF db[target[w]].status = "pending"
       THEN Updating(w, "start")
       ELSE Goto(w, "analyze") /\ UNCHANGED plan
    /\ UNCHANGED <<queueVars, rowVars, target, base, request, faults>>

\* Mutant: only pending analyses are worked on.
SkipRunning(w) ==
    /\ pc[w] = "load"
    /\ EngineBound
    /\ db[target[w]].status # "pending"
    /\ AckJob(w)
    /\ Goto(w, "commit")
    /\ UNCHANGED <<rowVars, target, seen, base, plan, request, faults>>

\* The row is missing, unreadable or terminal: the job is acknowledged.
SkipAnalysis(w) ==
    /\ pc[w] = "load"
    /\ EngineBound
    /\ ~(db[target[w]].status \in Active /\ Loadable(db[target[w]]))
    /\ AckJob(w)
    /\ Goto(w, "commit")
    /\ UNCHANGED <<rowVars, target, seen, base, plan, request, faults>>

\* get_by_id raises: no entity, so _handle_failure acknowledges the job.  With
\* no engine behind the session every read ends like this.
LoadFails(w) ==
    /\ pc[w] = "load"
    /\ IF EngineBound THEN Inject("db") ELSE UNCHANGED faults
    /\ AckJob(w)
    /\ Goto(w, "commit")
    /\ UNCHANGED <<rowVars, target, seen, base, plan, request>>

\* analyze() under wait_for.
AnalyzerReturns(w) ==
    /\ pc[w] = "analyze"
    /\ \/ "verdict" \in Outcomes /\ Updating(w, "complete")
       \/ "failed" \in Outcomes  /\ Updating(w, "fail")
    /\ UNCHANGED <<queueVars, rowVars, target, seen, base, request, faults>>

AnalyzerRaises(w) ==
    /\ pc[w] = "analyze"
    /\ \E hasMessage \in BOOLEAN :
         /\ (IF hasMessage THEN "error" ELSE "timeout") \in Outcomes
         /\ \/ HandleFailure(w, hasMessage) /\ UNCHANGED <<queueVars, own>>
            \/ HandlerRaises(w, hasMessage) /\ Die(w)
    /\ UNCHANGED <<db, request, faults>>

\* The flush of start() succeeds in the database, but the row it returns (one
\* cancelled in the meantime) is no valid entity: the handler takes over.
StartRejected(w) ==
    /\ CanFlush(w)
    /\ plan[w] = "start"
    /\ ~Loadable(Entity(w))
    /\ \/ /\ HandleFailure(w, TRUE)
          /\ own' = [own EXCEPT ![w] = NewVersion(w)]
          /\ UNCHANGED queueVars
       \/ /\ HandlerRaises(w, TRUE)
          /\ Die(w)
    /\ UNCHANGED <<db, request, faults>>

\* The unique index rejects the completion: the session cannot be used again,
\* and the handler's own update raises.
CompletionRefused(w) ==
    /\ CanFlush(w)
    /\ w \in Workers
    /\ Refused(w)
    /\ Die(w)
    /\ UNCHANGED <<db, request, faults>>

\* The update made by the handler itself yields no valid entity.
RetryRejected(w) ==
    /\ CanFlush(w)
    /\ plan[w] = "retry"
    /\ ~Loadable(Entity(w))
    /\ Die(w)
    /\ UNCHANGED <<db, request, faults>>

\* The broker is told first, the transaction commits afterwards.
Acknowledge(w) ==
    /\ pc[w] = "ack"
    /\ AckJob(w)
    /\ Goto(w, "commit")
    /\ UNCHANGED <<rowVars, target, seen, base, plan, request, faults>>

\* ack() raises; whether the broker removed the job or not, the claim is gone.
\* The handler takes the attempt that was just written for a failed one; its
\* own acknowledgement is outside the try and ends the process.
AcknowledgeRaises(w) ==
    /\ pc[w] = "ack"
    /\ Inject("broker")
    /\ AckJob(w) \/ DropConsumer(w)
    /\ \/ /\ plan[w] # "exhaust"
          /\ HandleFailure(w, TRUE)
          /\ UNCHANGED own
       \/ /\ plan[w] = "exhaust" \/ HandlerRaises(w, TRUE)
          /\ EndSession(w, "dead")
    /\ UNCHANGED <<db, request>>

\* Mutant: a job to be retried is acknowledged.
AcknowledgeRetry(w) ==
    /\ pc[w] = "nack"
    /\ AckJob(w)
    /\ Goto(w, "commit")
    /\ UNCHANGED <<rowVars, target, seen, base, plan, request, faults>>

Requeue(w) ==
    /\ pc[w] = "nack"
    /\ NackJob(w)
    /\ Goto(w, "commit")
    /\ UNCHANGED <<rowVars, target, seen, base, plan, request, faults>>

WorkerCommit(w) ==
    /\ pc[w] = "commit"
    /\ db' = [db EXCEPT ![target[w]] = Visible(w)]
    /\ EndSession(w, "idle")
    /\ UNCHANGED <<queueVars, request, faults>>

Crash(w) ==
    /\ pc[w] # "dead"
    /\ Inject("crash")
    /\ Die(w)
    /\ UNCHANGED <<db, request>>

\* restart: unless-stopped
Restart(w) ==
    /\ pc[w] = "dead"
    /\ Goto(w, "idle")
    /\ UNCHANGED <<queueVars, rowVars, target, seen, base, plan, request, faults>>

Redeliver(a) ==
    /\ RestoreJob(a)
    /\ UNCHANGED <<rowVars, sessionVars, request, faults>>

-----------------------------------------------------------------------------
(* Everything that was asked for is over: the workers poll an empty queue. *)
Quiescent ==
    /\ \A a \in Analyses : /\ request[a] \in {"replayed", "refused",
                                              "accepted", "lost"}
                           /\ ready[a] = 0
                           /\ unacked[a] = 0
    /\ \A w \in Workers : pc[w] = "idle"
    /\ \A c \in Cancels : pc[c] = "done"
    /\ UNCHANGED vars

Request(a) ==
    \/ RequestAnalysis(a)
    \/ PublishJob(a)
    \/ PublicationFails(a)
    \/ CommitRequest(a)
    \/ CommitRequestFails(a)

Cancel(c) ==
    \/ \E a \in Analyses : CancelLoad(c, a)
    \/ UpdateSelect(c)
    \/ UpdateFlush(c)
    \/ CancelCommit(c)
    \/ CancelAborts(c)

Process(w) ==
    \/ LoadAnalysis(w)
    \/ SkipAnalysis(w)
    \/ LoadFails(w)
    \/ UpdateSelect(w)
    \/ UpdateFlush(w)
    \/ StartRejected(w)
    \/ CompletionRefused(w)
    \/ RetryRejected(w)
    \/ AnalyzerReturns(w)
    \/ AnalyzerRaises(w)
    \/ Acknowledge(w)
    \/ AcknowledgeRaises(w)
    \/ Requeue(w)
    \/ WorkerCommit(w)

Next ==
    \/ \E a \in Analyses : Request(a)
    \/ \E c \in Cancels : Cancel(c)
    \/ \E w \in Workers, a \in Analyses : Claim(w, a)
    \/ \E w \in Workers : Process(w)
    \/ \E w \in Workers : Crash(w)
    \/ \E w \in Workers : Restart(w)
    \/ \E a \in Analyses : Redeliver(a)
    \/ Quiescent

Spec == Init /\ [][Next]_vars

-----------------------------------------------------------------------------
(* Fairness.  A request, a canceller and a worker process that can take a  *)
(* step eventually do; a stopped container is restarted; the broker        *)
(* restores what was not acknowledged.  Jobs are delivered in FIFO order   *)
(* and a rejected one goes to the back of the queue, so a job that is      *)
(* ready again and again is delivered in the end: strong fairness.         *)
Fairness ==
    /\ \A a \in Analyses : WF_vars(Request(a))
    /\ \A c \in Cancels : WF_vars(Cancel(c))
    /\ \A w \in Workers : WF_vars(Process(w))
    /\ \A w \in Workers : WF_vars(Restart(w))
    /\ \A a \in Analyses : SF_vars(\E w \in Workers : Claim(w, a))
    /\ \A a \in Analyses : WF_vars(Redeliver(a))

FairSpec == Spec /\ Fairness

-----------------------------------------------------------------------------
(* Safety *)

\* Every committed row can be read back: get_by_id never raises on a row that
\* is active and yet has completed_at (AnalysisRepository._to_domain), although
\* a worker's UPDATE may land on a row cancelled after it was loaded.
RowsLoadable == \A a \in Analyses : Loadable(db[a])

\* At most one completed analysis per asset, analyzer and version, whatever
\* workers finish at the same time (the partial unique index of models/analysis.py).
UniqueCompleted ==
    \A a \in Analyses : db[a].status = "completed" =>
        \A b \in Rivals(a) : db[b].status # "completed"

\* No interleaving of deliveries drives the committed retry_count above max_retries
\* while the analysis may still be tried, or further than one above it at the end.
\* The attempts made may be more: deliveries that overlap read the same count, and
\* count one attempt between them.
RetryBounded ==
    \A a \in Analyses : db[a].retry <= IF db[a].status \in Terminal
                                       THEN MaxRetries + 1 ELSE MaxRetries

\* No writer, late or duplicated, makes a finished analysis active again.
NeverReopened ==
    [][\A a \in Analyses : db[a].status \in Terminal => db'[a].status \in Terminal]_db

\* The broker still has a job for a, or a worker is about to commit its end.
Cared(a) ==
    \/ InQueue(a)
    \/ \E w \in Workers : /\ pc[w] = "commit" /\ target[w] = a
                         /\ Dirty(w) /\ own[w].status \in Terminal

\* "A worker crash does not leave a job in an unrecoverable state", but in three
\* windows.  An unfinished analysis loses its last job only when get_by_id raises,
\* which every read does without an engine (the handler acknowledges what it could
\* not read); when the acknowledgement itself raises and the job is gone; or when
\* the worker dies between its acknowledgement and its commit.
JobsLostOnlyInWindows ==
    [][\A a \in Analyses :
         db[a].status \in Active /\ db'[a].status \in Active /\ Cared(a) /\ ~Cared(a)'
            => \E w \in Workers :
                  /\ target[w] = a
                  /\ LoadFails(w) \/ AcknowledgeRaises(w) \/ (pc[w] = "commit" /\ Crash(w))]_vars

\* A POST answered with an existing result is backed by one for ever after
\* (completed analyses are immutable; stated for systems without cancellation).
ReplayedStaysCompleted ==
    \A a \in Analyses : request[a] = "replayed" =>
        \E b \in Rivals(a) : db[b].status = "completed"

\* The committed rows follow the life cycle of the domain entity, one attempt
\* counted at a time (stated for systems without cancellation or duplication).
Lifecycle == INSTANCE AnalysisLifecycle WITH
    status  <- [a \in Analyses |-> db[a].status],
    retries <- [a \in Analyses |-> db[a].retry]

ImplementsLifecycle == Lifecycle!Spec

\* The session is in a transaction about an analysis.
Open(s) == pc[s] \in {"load", "select", "flush", "analyze", "ack", "nack", "commit"}

\* The UPDATE that s stands before waits for another transaction.
Waits(s) == pc[s] = "flush" /\ ~CanFlush(s)

\* Workers and cancel requests that lock rows and index entries never wait for each
\* other in a circle: of the open transactions, however many, one does not wait.
NoCircularWait ==
    (\E s \in Sessions : Open(s)) => \E s \in Sessions : Open(s) /\ ~Waits(s)

-----------------------------------------------------------------------------
(* What the broker owes an unfinished analysis *)

\* A job for `a` is queued, or a worker that already gave its job back or
\* acknowledged it is about to commit the row.
HasJob(a) ==
    \/ InQueue(a)
    \/ \E w \in Workers : pc[w] = "commit" /\ target[w] = a /\ Dirty(w)

\* A pending row is "Queued, awaiting worker pickup" (models/analysis.py).
PendingHasJob == \A a \in Analyses : db[a].status = "pending" => HasJob(a)

\* Without crashes and failing calls, a running analysis always has a job: an attempt
\* that is to be repeated is put back before it is committed as running, and no other
\* worker or cancellation takes the job away.
RunningHasJob == \A a \in Analyses : db[a].status = "running" => HasJob(a)

-----------------------------------------------------------------------------
(* Liveness *)

\* An analysis somebody began to work on is finished.
RunningResolves ==
    \A a \in Analyses : db[a].status = "running" ~> db[a].status \in Terminal

\* The broker ends up with nothing to deliver.
JobsDrain == \A a \in Analyses : InQueue(a) ~> ~InQueue(a)

-----------------------------------------------------------------------------
(* The inductive invariant behind the safety properties: what each session *)
(* may still assume about a row other sessions went on writing.            *)

Holding(w) == Open(w) /\ pc[w] # "commit"

\* `later` may be a later version of the row than `earlier`.
Follows(earlier, later) ==
    /\ earlier.status # "absent" => later.status # "absent"
    /\ earlier.status = "running" => later.status # "pending"
    /\ earlier.status \in Terminal => later.status \in Terminal

\* Where the session stands decides what it acts on, holds and has written.
Shape(s) ==
    /\ s \in Workers => /\ pc[s] \in WorkerStep
                        /\ held[s] \in {target[s], NoAnalysis}
                        /\ ~Holding(s) => held[s] = NoAnalysis
    /\ s \in Cancels => pc[s] \in CancelStep
    /\ Open(s) <=> target[s] \in Analyses
    /\ Dirty(s) => Open(s) /\ pc[s] # "load"
    /\ pc[s] \in {"select", "flush"} =>
          plan[s] \in Operation /\ (plan[s] = "cancel" <=> s \in Cancels)

\* The entity read first, compared with what is committed since.
SeenInv(s) ==
    pc[s] \in {"select", "flush", "analyze", "ack"} =>
        /\ seen[s].status \in Active
        /\ ~seen[s].done
        /\ seen[s].retry <= MaxRetries
        /\ Follows(seen[s], db[target[s]])

PlanInv(s) ==
    /\ pc[s] \in {"select", "flush"} =>
        /\ plan[s] = "start" => seen[s].status = "pending" /\ ~Dirty(s)
        /\ plan[s] = "retry" => NextRetry(seen[s]) <= MaxRetries
        /\ plan[s] \notin {"start", "cancel"} /\ seen[s].status = "pending" => Dirty(s)
    /\ pc[s] = "analyze" /\ seen[s].status = "pending" => Dirty(s)

\* The row `update` loaded: the session's own version, or a committed one.
BaseInv(s) ==
    pc[s] = "flush" =>
        /\ base[s].status # "absent"
        /\ base[s].status \in Terminal => base[s].done
        /\ Dirty(s) => base[s] = own[s]
        /\ ~Dirty(s) => Loadable(base[s])
        /\ Follows(seen[s], base[s])
        /\ Follows(base[s], Visible(s))

\* The uncommitted version: valid once its last flush was validated; revived
\* from a finished row only as "running" with completed_at, which no commit
\* lets through.
OwnInv(s) ==
    Dirty(s) =>
        /\ db[target[s]].status # "absent"
        /\ own[s].status \in {"running"} \union Terminal
        /\ own[s].status \in Terminal => own[s].done
        /\ own[s].retry <= MaxRetries + 1
        /\ ~own[s].done => /\ own[s].retry <= MaxRetries
                           /\ db[target[s]].status \in Active
        /\ pc[s] \in {"ack", "nack", "commit"} => Loadable(own[s])

AckInv(s) == pc[s] = "ack" => Dirty(s) /\ own[s].status \in Terminal

SingleWriter ==
    \A s, t \in Sessions : Dirty(s) /\ Dirty(t) /\ target[s] = target[t] => s = t

\* A completion waiting for its commit excludes every other one of its triple.
CompletionReserved ==
    \A s \in Sessions : Dirty(s) /\ own[s].status = "completed" =>
        /\ \A b \in Rivals(target[s]) : db[b].status # "completed"
        /\ \A t \in Sessions : Dirty(t) /\ target[t] \in Rivals(target[s])
                                  => own[t].status # "completed"

RowInv ==
    \A a \in Analyses : /\ db[a].done <=> db[a].status \in Terminal
                        /\ request[a] # "accepted" => db[a] = NoRow

SessionInv(s) == /\ Shape(s)
                 /\ SeenInv(s)
                 /\ PlanInv(s)
                 /\ BaseInv(s)
                 /\ OwnInv(s)
                 /\ AckInv(s)

IInv ==
    /\ TypeOK
    /\ \A s \in Sessions : SessionInv(s)
    /\ SingleWriter
    /\ CompletionReserved
    /\ RowInv
    /\ RetryBounded
    /\ UniqueCompleted
=============================================================================
