------------------------ MODULE AnalysisPipelineProofs ------------------------
(***************************************************************************)
(* Proofs about AnalysisPipeline, for every number of requests, workers,   *)
(* cancellations, copies, retries and failures.                            *)
(*                                                                         *)
(* IInv is inductive.  A step touches one session, so what it does to the  *)
(* others is settled once, by lemma Bystander; what it does to the         *)
(* invariants that relate several sessions is settled by one lemma per     *)
(* kind of step: PrivateStep, WriteStep and CommitStep.                    *)
(***************************************************************************)
EXTENDS AnalysisPipeline, TLAPS

USE MaxRetriesAssumption, QueueAssumption, PipelineAssumption

-----------------------------------------------------------------------------
(* One row *)

\* The status each update writes.
LEMMA NewStatusValue ==
    /\ NewStatus("start") = "running"
    /\ NewStatus("retry") = "running"
    /\ NewStatus("complete") = "completed"
    /\ NewStatus("fail") = "failed"
    /\ NewStatus("exhaust") = "failed"
    /\ NewStatus("cancel") = "cancelled"
BY DEF NewStatus

\* An UPDATE computed from rows yields a row.
LEMMA MergedIsRow ==
    ASSUME NEW latest \in Row, NEW old \in Row, NEW entity \in Row,
           NEW op \in Operation
    PROVE  Merged(latest, old, op, entity) \in Row
<1>1. NewStatus(op) \in {"running", "completed", "failed", "cancelled"}
  BY NewStatusValue DEF Operation
<1>2. NextRetry(entity) \in Nat
  BY DEF NextRetry, Row
<1> QED
  BY <1>1, <1>2 DEF Merged, Row, Active, Terminal

\* Later than later is later.
LEMMA FollowsTransitive ==
    ASSUME NEW r1 \in Row, NEW r2 \in Row, NEW r3 \in Row,
           Follows(r1, r2), Follows(r2, r3)
    PROVE  Follows(r1, r3)
BY DEF Follows, Row, Active, Terminal

LEMMA FollowsReflexive ==
    ASSUME NEW r \in Row
    PROVE  Follows(r, r)
BY DEF Follows, Row, Active, Terminal

-----------------------------------------------------------------------------
(* Sessions that do not act *)

\* The step leaves session s alone.
Same(s) ==
    /\ own'[s] = own[s]
    /\ pc'[s] = pc[s]
    /\ target'[s] = target[s]
    /\ seen'[s] = seen[s]
    /\ base'[s] = base[s]
    /\ plan'[s] = plan[s]
    /\ s \in Workers => held'[s] = held[s]

\* A session keeps its invariant when the row it acts on is not written, or is
\* written by somebody else while it has no version of its own.
LEMMA Bystander ==
    ASSUME IInv, TypeOK', NEW s \in Sessions, Same(s),
           Open(s) => \/ db'[target[s]] = db[target[s]]
                      \/ ~Dirty(s) /\ Follows(db[target[s]], db'[target[s]])
    PROVE  SessionInv(s)'
<1>1. /\ SessionInv(s)
      /\ TypeOK
  BY DEF IInv
<1>2. /\ Dirty(s)' <=> Dirty(s)
      /\ Open(s)' <=> Open(s)
      /\ Holding(s)' <=> Holding(s)
  BY DEF Same, Dirty, Open, Holding
<1>3. Shape(s)'
  BY <1>1, <1>2 DEF SessionInv, Shape, Same
<1>4. CASE ~Open(s)
  BY <1>1, <1>2, <1>3, <1>4
     DEF SessionInv, SeenInv, PlanInv, BaseInv, OwnInv, AckInv, Shape, Open, Same
<1>5. CASE Open(s)
  <2>1. /\ target[s] \in Analyses
        /\ db[target[s]] \in Row
        /\ db'[target[s]] \in Row
        /\ seen[s] \in Row
        /\ base[s] \in Row
    BY <1>1, <1>5 DEF SessionInv, Shape, TypeOK
  <2>2. Follows(db[target[s]], db'[target[s]])
    BY <1>5, <2>1, FollowsReflexive
  <2>3. SeenInv(s)'
    BY <1>1, <2>1, <2>2, FollowsTransitive DEF SessionInv, SeenInv, Same
  <2>4. PlanInv(s)'
    BY <1>1, <1>2 DEF SessionInv, PlanInv, Same
  <2>5. BaseInv(s)'
    <3>1. Dirty(s) => Visible(s)' = Visible(s)
      BY <1>2 DEF Visible, Same
    <3>2. ~Dirty(s) => Visible(s) = db[target[s]] /\ Visible(s)' = db'[target[s]]
      BY <1>2 DEF Visible, Same
    <3>3. pc[s] = "flush" => Follows(base[s], Visible(s)')
      <4>1. CASE Dirty(s)
        BY <1>1, <3>1, <4>1 DEF SessionInv, BaseInv
      <4>2. CASE ~Dirty(s)
        BY <1>1, <2>1, <2>2, <3>2, <4>2, FollowsTransitive DEF SessionInv, BaseInv
      <4> QED
        BY <4>1, <4>2
    <3> QED
      BY <1>1, <1>2, <3>3 DEF SessionInv, BaseInv, Same
  <2>6. OwnInv(s)'
    BY <1>1, <1>2, <1>5 DEF SessionInv, OwnInv, Same
  <2>7. AckInv(s)'
    BY <1>1, <1>2 DEF SessionInv, AckInv, Same
  <2> QED
    BY <1>3, <2>3, <2>4, <2>5, <2>6, <2>7 DEF SessionInv
<1> QED
  BY <1>4, <1>5

-----------------------------------------------------------------------------
(* Invariants that relate several sessions, one lemma per kind of step *)

\* The step is one of session s, or of none when s is not a session.
OnlyBy(s) == \A t \in Sessions \ {s} : Same(t)

\* No row is written; what is left of the session's own version is all of it
\* or nothing.
LEMMA PrivateStep ==
    ASSUME IInv, TypeOK', NEW s \in Sessions, OnlyBy(s),
           db' = db,
           \A a \in Analyses : request'[a] # "accepted" => request[a] # "accepted",
           own'[s] = NoRow \/ (own'[s] = own[s] /\ target'[s] = target[s]),
           SessionInv(s)'
    PROVE  IInv'
<1>1. /\ TypeOK
      /\ SingleWriter
      /\ CompletionReserved
      /\ RowInv
      /\ RetryBounded
      /\ UniqueCompleted
  BY DEF IInv
<1>2. \A t \in Sessions : SessionInv(t)'
  <2>1. ASSUME NEW t \in Sessions, t # s
        PROVE  SessionInv(t)'
    BY <2>1, Bystander DEF OnlyBy
  <2> QED
    BY <2>1
<1>3. \A t \in Sessions : Dirty(t)' => /\ Dirty(t)
                                       /\ own'[t] = own[t]
                                       /\ target'[t] = target[t]
  BY DEF OnlyBy, Same, Dirty
<1>4. SingleWriter'
  BY <1>1, <1>3 DEF SingleWriter
<1>5. CompletionReserved'
  BY <1>1, <1>3 DEF CompletionReserved, Rivals
<1>6. RowInv' /\ RetryBounded' /\ UniqueCompleted'
  BY <1>1 DEF RowInv, RetryBounded, UniqueCompleted, Rivals
<1> QED
  BY <1>2, <1>4, <1>5, <1>6 DEF IInv

\* An UPDATE statement: it holds the row lock and, if it completes an analysis,
\* its index entry neither exists nor is being inserted or removed.
LEMMA WriteStep ==
    ASSUME IInv, TypeOK', NEW s \in Sessions, OnlyBy(s),
           db' = db, request' = request,
           CanFlush(s), ~Refused(s),
           own'[s] = NewVersion(s), target'[s] = target[s],
           SessionInv(s)'
    PROVE  IInv'
<1>1. /\ TypeOK
      /\ SingleWriter
      /\ CompletionReserved
      /\ RowInv
      /\ RetryBounded
      /\ UniqueCompleted
      /\ SessionInv(s)
  BY DEF IInv
<1>2. \A t \in Sessions : SessionInv(t)'
  <2>1. ASSUME NEW t \in Sessions, t # s
        PROVE  SessionInv(t)'
    BY <2>1, Bystander DEF OnlyBy
  <2> QED
    BY <2>1
<1>3. \A t \in Sessions \ {s} : /\ Dirty(t)' <=> Dirty(t)
                                /\ own'[t] = own[t]
                                /\ target'[t] = target[t]
  BY DEF OnlyBy, Same, Dirty
<1>4. \A t \in Sessions \ {s} : ~(target[t] = target[s] /\ Dirty(t))
  BY DEF CanFlush, LockedByOther
<1>5. SingleWriter'
  BY <1>1, <1>3, <1>4 DEF SingleWriter
<1>6. CompletionReserved'
  <2>1. target[s] \in Analyses
    BY <1>1 DEF SessionInv, Shape, CanFlush, Open
  <2>2. SUFFICES ASSUME NEW t \in Sessions, Dirty(t)', own'[t].status = "completed"
                 PROVE  /\ \A b \in Rivals(target'[t]) : db[b].status # "completed"
                        /\ \A u \in Sessions :
                              Dirty(u)' /\ target'[u] \in Rivals(target'[t])
                                 => own'[u].status # "completed"
    BY DEF CompletionReserved, Rivals
  <2>3. \A a, b \in Analyses : a \in Rivals(b) <=> b \in Rivals(a)
    BY DEF Rivals
  <2>4. own'[s].status = "completed" =>
          /\ \A b \in Rivals(target[s]) : db[b].status # "completed"
          /\ \A u \in Sessions \ {s} : Dirty(u) /\ target[u] \in Rivals(target[s])
                                          => own[u].status # "completed"
    BY DEF CanFlush, Refused, KeyTaken, KeyInFlight
  <2>5. target[s] \notin Rivals(target[s])
    BY DEF Rivals
  <2>6. CASE t = s
    BY <1>3, <2>2, <2>4, <2>5, <2>6
  <2>7. CASE t # s
    <3>1. Dirty(t) /\ own[t].status = "completed" /\ target'[t] = target[t]
      BY <1>3, <2>2, <2>7
    <3>2. target[t] \in Analyses
      BY <3>1 DEF IInv, SessionInv, Shape
    <3>3. \A b \in Rivals(target[t]) : db[b].status # "completed"
      BY <1>1, <3>1 DEF CompletionReserved
    <3>4. ASSUME NEW u \in Sessions, Dirty(u)', target'[u] \in Rivals(target[t])
          PROVE  own'[u].status # "completed"
      <4>1. CASE u = s
        BY <2>1, <2>3, <2>4, <2>7, <3>1, <3>2, <3>4, <4>1
      <4>2. CASE u # s
        BY <1>1, <1>3, <3>1, <3>4, <4>2 DEF CompletionReserved
      <4> QED
        BY <4>1, <4>2
    <3> QED
      BY <3>1, <3>3, <3>4
  <2> QED
    BY <2>6, <2>7
<1>7. RowInv' /\ RetryBounded' /\ UniqueCompleted'
  BY <1>1 DEF RowInv, RetryBounded, UniqueCompleted, Rivals
<1> QED
  BY <1>2, <1>5, <1>6, <1>7 DEF IInv

\* What a session is about to commit is a later version of the row.
LEMMA CommitFollows ==
    ASSUME IInv, NEW s \in Sessions, pc[s] = "commit"
    PROVE  /\ target[s] \in Analyses
           /\ Visible(s) \in Row
           /\ Follows(db[target[s]], Visible(s))
           /\ Visible(s).done <=> Visible(s).status \in Terminal
           /\ Visible(s).retry <= IF Visible(s).status \in Terminal
                                  THEN MaxRetries + 1 ELSE MaxRetries
<1>1. /\ TypeOK
      /\ RowInv
      /\ RetryBounded
      /\ SessionInv(s)
  BY DEF IInv
<1>2. target[s] \in Analyses
  BY <1>1 DEF SessionInv, Shape, Open
<1>3. /\ db[target[s]] \in Row
      /\ own[s] \in Row
      /\ Visible(s) \in Row
  BY <1>1, <1>2 DEF TypeOK, Visible
<1>4. CASE Dirty(s)
  <2>1. Visible(s) = own[s]
    BY <1>4 DEF Visible
  <2> QED
    BY <1>1, <1>2, <1>3, <1>4, <2>1
       DEF SessionInv, OwnInv, Loadable, Follows, Row, Active, Terminal
<1>5. CASE ~Dirty(s)
  <2>1. Visible(s) = db[target[s]]
    BY <1>5 DEF Visible
  <2> QED
    BY <1>1, <1>2, <1>3, <2>1, FollowsReflexive DEF RowInv, RetryBounded
<1> QED
  BY <1>4, <1>5

\* COMMIT: the session's version, if it has one, becomes the row.
LEMMA CommitStep ==
    ASSUME IInv, TypeOK', NEW s \in Sessions, OnlyBy(s),
           pc[s] = "commit",
           db' = [db EXCEPT ![target[s]] = Visible(s)],
           request' = request,
           own'[s] = NoRow,
           SessionInv(s)'
    PROVE  IInv'
<1>1. /\ TypeOK
      /\ SingleWriter
      /\ CompletionReserved
      /\ RowInv
      /\ RetryBounded
      /\ UniqueCompleted
      /\ SessionInv(s)
  BY DEF IInv
<1>2. /\ target[s] \in Analyses
      /\ Visible(s) \in Row
      /\ Follows(db[target[s]], Visible(s))
      /\ Visible(s).done <=> Visible(s).status \in Terminal
      /\ Visible(s).retry <= IF Visible(s).status \in Terminal
                             THEN MaxRetries + 1 ELSE MaxRetries
  BY CommitFollows
<1>3. /\ db'[target[s]] = Visible(s)
      /\ \A a \in Analyses \ {target[s]} : db'[a] = db[a]
  BY <1>1, <1>2 DEF TypeOK
<1>4. CASE ~Dirty(s)
  <2>1. db' = db
    BY <1>1, <1>2, <1>4 DEF TypeOK, Visible
  <2> QED
    BY <2>1, PrivateStep
<1>5. CASE Dirty(s)
  <2>1. Visible(s) = own[s]
    BY <1>5 DEF Visible
  <2>2. \A t \in Sessions : SessionInv(t)'
    <3>1. ASSUME NEW t \in Sessions, t # s
          PROVE  SessionInv(t)'
      <4>1. SessionInv(t) /\ Same(t)
        BY <3>1 DEF IInv, OnlyBy
      <4>2. Open(t) => target[t] \in Analyses
        BY <4>1 DEF SessionInv, Shape
      <4>3. target[t] = target[s] => ~Dirty(t)
        BY <1>1, <1>5, <3>1 DEF SingleWriter
      <4> QED
        BY <1>2, <1>3, <4>1, <4>2, <4>3, Bystander
    <3> QED
      BY <3>1
  <2>3. \A t \in Sessions : Dirty(t)' => /\ t # s
                                         /\ Dirty(t)
                                         /\ own'[t] = own[t]
                                         /\ target'[t] = target[t]
    BY DEF OnlyBy, Same, Dirty
  <2>4. SingleWriter'
    BY <1>1, <2>3 DEF SingleWriter
  <2>5. CompletionReserved'
    BY <1>1, <1>2, <1>3, <1>5, <2>1, <2>3 DEF CompletionReserved, Rivals
  <2>6. RowInv'
    <3>1. db[target[s]] # NoRow
      BY <1>1, <1>5 DEF SessionInv, OwnInv, NoRow
    <3> QED
      BY <1>1, <1>2, <1>3, <3>1 DEF RowInv
  <2>7. RetryBounded'
    BY <1>1, <1>2, <1>3 DEF RetryBounded
  <2>8. UniqueCompleted'
    <3>1. SUFFICES ASSUME NEW a \in Analyses, NEW b \in Rivals(a),
                          db'[a].status = "completed"
                   PROVE  db'[b].status # "completed"
      BY DEF UniqueCompleted, Rivals
    <3>2. b \in Analyses \ {a} /\ a \in Rivals(b)
      BY DEF Rivals
    <3>3. CASE a = target[s]
      BY <1>1, <1>3, <1>5, <2>1, <3>1, <3>2, <3>3 DEF CompletionReserved
    <3>4. CASE b = target[s]
      BY <1>1, <1>3, <1>5, <2>1, <3>1, <3>2, <3>4 DEF CompletionReserved
    <3>5. CASE a # target[s] /\ b # target[s]
      BY <1>1, <1>3, <3>1, <3>2, <3>5 DEF UniqueCompleted
    <3> QED
      BY <3>3, <3>4, <3>5
  <2> QED
    BY <2>2, <2>4, <2>5, <2>6, <2>7, <2>8 DEF IInv
<1> QED
  BY <1>4, <1>5

\* The commit that makes a new row visible: no session can have written it.
LEMMA AcceptStep ==
    ASSUME IInv, TypeOK', NEW a \in Analyses,
           \A s \in Sessions : Same(s),
           db[a] = NoRow,
           db' = [db EXCEPT ![a] = PendingRow],
           \A b \in Analyses \ {a} : request'[b] = request[b],
           request'[a] = "accepted"
    PROVE  IInv'
<1>1. /\ TypeOK
      /\ SingleWriter
      /\ CompletionReserved
      /\ RowInv
      /\ RetryBounded
      /\ UniqueCompleted
  BY DEF IInv
<1>2. /\ db'[a] = PendingRow
      /\ \A b \in Analyses \ {a} : db'[b] = db[b]
  BY <1>1 DEF TypeOK
<1>3. \A s \in Sessions : SessionInv(s)'
  <2>1. ASSUME NEW s \in Sessions
        PROVE  SessionInv(s)'
    <3>1. SessionInv(s) /\ Same(s)
      BY <2>1 DEF IInv
    <3>2. Open(s) => target[s] \in Analyses
      BY <3>1 DEF SessionInv, Shape
    <3>3. target[s] = a => ~Dirty(s)
      BY <3>1 DEF SessionInv, OwnInv, NoRow
    <3>4. Follows(NoRow, PendingRow)
      BY DEF Follows, NoRow, PendingRow, Terminal
    <3> QED
      BY <1>2, <3>1, <3>2, <3>3, <3>4, Bystander
  <2> QED
    BY <2>1
<1>4. \A s \in Sessions : /\ Dirty(s)' <=> Dirty(s)
                          /\ own'[s] = own[s]
                          /\ target'[s] = target[s]
  BY DEF Same, Dirty
<1>5. SingleWriter'
  BY <1>1, <1>4 DEF SingleWriter
<1>6. CompletionReserved'
  BY <1>1, <1>2, <1>4 DEF CompletionReserved, Rivals, PendingRow
<1>7. RowInv' /\ RetryBounded' /\ UniqueCompleted'
  BY <1>1, <1>2 DEF RowInv, RetryBounded, UniqueCompleted, Rivals, PendingRow, Terminal
<1> QED
  BY <1>3, <1>5, <1>6, <1>7 DEF IInv

-----------------------------------------------------------------------------
(* Types *)

\* The step an update leads to, by who makes it.
LEMMA AfterFlushStep ==
    ASSUME NEW op \in Operation
    PROVE  /\ op = "cancel" => AfterFlush(op) = "commit"
           /\ op # "cancel" => AfterFlush(op) \in {"analyze", "ack", "nack"}
           /\ AfterFlush(op) = "analyze" <=> op = "start"
           /\ AfterFlush(op) = "nack" <=> op = "retry"
<1>1. /\ AfterFlush("start") = "analyze"
      /\ AfterFlush("complete") = "ack"
      /\ AfterFlush("fail") = "ack"
      /\ AfterFlush("exhaust") = "ack"
      /\ AfterFlush("retry") = "nack"
      /\ AfterFlush("cancel") = "commit"
  BY DEF AfterFlush
<1> QED
  BY <1>1 DEF Operation

\* What a session writes is a row.
LEMMA NewVersionIsRow ==
    ASSUME IInv, NEW s \in Sessions, pc[s] = "flush"
    PROVE  /\ target[s] \in Analyses
           /\ plan[s] \in Operation
           /\ Visible(s) \in Row
           /\ NewVersion(s) \in Row
<1>1. /\ TypeOK
      /\ Shape(s)
  BY DEF IInv, SessionInv
<1>2. target[s] \in Analyses /\ plan[s] \in Operation
  BY <1>1 DEF Shape, Open
<1>3. Visible(s) \in Row
  BY <1>1, <1>2 DEF TypeOK, Visible
<1> QED
  BY <1>1, <1>2, <1>3, MergedIsRow DEF NewVersion, TypeOK

\* Ending a session, with or without its claim, keeps the types.
LEMMA EndSessionType ==
    ASSUME TypeOK, NEW s \in Sessions,
           NEW step \in {"dead", "idle", "done"}, EndSession(s, step)
    PROVE  /\ own' \in [Sessions -> Row]
           /\ pc' \in [Sessions -> WorkerStep \union CancelStep]
           /\ target' \in [Sessions -> Analyses \union {NoAnalysis}]
           /\ seen' \in [Sessions -> Row]
           /\ base' \in [Sessions -> Row]
           /\ plan' \in [Sessions -> Operation \union {"none"}]
<1>1. NoRow \in Row
  BY DEF NoRow, Row
<1> QED
  BY <1>1 DEF TypeOK, EndSession, Goto, WorkerStep, CancelStep

\* Choosing the next update keeps them, too.
LEMMA UpdatingType ==
    ASSUME TypeOK, NEW s \in Sessions, NEW op \in Operation, Updating(s, op)
    PROVE  /\ pc' \in [Sessions -> WorkerStep \union CancelStep]
           /\ plan' \in [Sessions -> Operation \union {"none"}]
BY DEF TypeOK, Updating, Goto, WorkerStep

LEMMA GotoType ==
    ASSUME TypeOK, NEW s \in Sessions, NEW step \in WorkerStep \union CancelStep,
           Goto(s, step)
    PROVE  pc' \in [Sessions -> WorkerStep \union CancelStep]
BY DEF TypeOK, Goto

LEMMA RequestType ==
    ASSUME IInv, NEW a \in Analyses, Request(a)
    PROVE  TypeOK'
<1> USE DEF RequestStep
<1>1. TypeOK /\ QueueTypeOK
  BY DEF IInv, TypeOK
<1>2. CASE RequestAnalysis(a)
  BY <1>1, <1>2 DEF RequestAnalysis, TypeOK, QueueTypeOK, queueVars, rowVars, sessionVars
<1>3. CASE PublishJob(a)
  <2>1. QueueTypeOK'
    BY <1>1, <1>3 DEF PublishJob, Enqueue, QueueTypeOK
  <2> QED
    BY <1>1, <1>3, <2>1 DEF PublishJob, TypeOK, rowVars, sessionVars
<1>4. CASE PublicationFails(a)
  <2>1. QueueTypeOK'
    BY <1>1, <1>4 DEF PublicationFails, Enqueue, QueueTypeOK
  <2> QED
    BY <1>1, <1>4, <2>1 DEF PublicationFails, TypeOK, rowVars, sessionVars
<1>5. CASE CommitRequest(a)
  BY <1>1, <1>5
     DEF CommitRequest, TypeOK, QueueTypeOK, queueVars, sessionVars, PendingRow, Row, Active
<1>6. CASE CommitRequestFails(a)
  BY <1>1, <1>6
     DEF CommitRequestFails, Inject, TypeOK, QueueTypeOK, queueVars, rowVars, sessionVars
<1> QED
  BY <1>2, <1>3, <1>4, <1>5, <1>6 DEF Request

LEMMA UpdateType ==
    ASSUME IInv, NEW s \in Sessions, UpdateSelect(s) \/ UpdateFlush(s)
    PROVE  TypeOK'
<1>1. TypeOK /\ QueueTypeOK
  BY DEF IInv, TypeOK
<1>2. CASE UpdateSelect(s)
  <2>1. Visible(s) \in Row
    <3>1. Shape(s) /\ pc[s] = "select"
      BY <1>2 DEF IInv, SessionInv, UpdateSelect
    <3> QED
      BY <1>1, <3>1 DEF Shape, Open, Visible, TypeOK
  <2>2. pc' \in [Sessions -> WorkerStep \union CancelStep]
    BY <1>1, <1>2, GotoType DEF UpdateSelect, WorkerStep
  <2> QED
    BY <1>1, <1>2, <2>1, <2>2 DEF UpdateSelect, TypeOK, QueueTypeOK, queueVars, rowVars
<1>3. CASE UpdateFlush(s)
  <2>1. NewVersion(s) \in Row /\ plan[s] \in Operation
    BY <1>3, NewVersionIsRow DEF UpdateFlush, CanFlush
  <2>2. AfterFlush(plan[s]) \in WorkerStep
    BY <2>1, AfterFlushStep DEF WorkerStep
  <2>3. pc' \in [Sessions -> WorkerStep \union CancelStep]
    BY <1>1, <1>3, <2>2, GotoType DEF UpdateFlush
  <2> QED
    BY <1>1, <1>3, <2>1, <2>3 DEF UpdateFlush, TypeOK, QueueTypeOK, queueVars
<1> QED
  BY <1>2, <1>3

LEMMA CancelType ==
    ASSUME IInv, NEW c \in Cancels, Cancel(c)
    PROVE  TypeOK'
<1>1. TypeOK /\ QueueTypeOK /\ c \in Sessions
  BY DEF IInv, TypeOK, Sessions
<1>2. ASSUME NEW a \in Analyses, CancelLoad(c, a)
      PROVE  TypeOK'
  <2>1. db[a] \in Row
    BY <1>1 DEF TypeOK
  <2>2. CASE db[a].status \in Active /\ Loadable(db[a])
    <3>1. /\ pc' \in [Sessions -> WorkerStep \union CancelStep]
          /\ plan' \in [Sessions -> Operation \union {"none"}]
      BY <1>1, <1>2, <2>2, UpdatingType DEF CancelLoad, Operation
    <3>2. /\ target' = [target EXCEPT ![c] = a]
          /\ seen' = [seen EXCEPT ![c] = db[a]]
          /\ UNCHANGED <<queueVars, rowVars, base, request, faults>>
      BY <1>2, <2>2 DEF CancelLoad
    <3> QED
      BY <1>1, <2>1, <3>1, <3>2 DEF TypeOK, QueueTypeOK, queueVars, rowVars
  <2>3. CASE ~(db[a].status \in Active /\ Loadable(db[a]))
    <3>1. pc' \in [Sessions -> WorkerStep \union CancelStep]
      BY <1>1, <1>2, <2>3, GotoType DEF CancelLoad, CancelStep
    <3> QED
      BY <1>1, <1>2, <2>3, <3>1 DEF CancelLoad, TypeOK, QueueTypeOK, queueVars, rowVars
  <2> QED
    BY <2>2, <2>3
<1>3. CASE CancelCommit(c)
  <2>1. Visible(c) \in Row /\ target[c] \in Analyses
    BY <1>1, <1>3, CommitFollows DEF CancelCommit
  <2> QED
    BY <1>1, <1>3, <2>1, EndSessionType DEF CancelCommit, TypeOK, QueueTypeOK, queueVars
<1>4. CASE CancelAborts(c)
  BY <1>1, <1>4, EndSessionType DEF CancelAborts, Inject, TypeOK, QueueTypeOK, queueVars
<1> QED
  BY <1>1, <1>2, <1>3, <1>4, UpdateType DEF Cancel

\* What is left to show of a worker's step that ends or goes on without a flush.
LEMMA FailureType ==
    ASSUME TypeOK, NEW w \in Workers, NEW m \in BOOLEAN, HandleFailure(w, m)
    PROVE  /\ pc' \in [Sessions -> WorkerStep \union CancelStep]
           /\ plan' \in [Sessions -> Operation \union {"none"}]
           /\ UNCHANGED <<target, seen, base>>
<1>1. w \in Sessions /\ "retry" \in Operation /\ "exhaust" \in Operation
  BY DEF Sessions, Operation
<1>2. \/ Updating(w, "retry") /\ UNCHANGED <<target, seen, base>>
      \/ Updating(w, "exhaust") /\ UNCHANGED <<target, seen, base>>
  BY DEF HandleFailure
<1> QED
  BY <1>1, <1>2, UpdatingType

LEMMA DieType ==
    ASSUME TypeOK, NEW w \in Workers, Die(w),
           UNCHANGED <<db, request>>, faults' \in Nat
    PROVE  TypeOK'
<1>1. w \in Sessions /\ QueueTypeOK
  BY DEF Sessions, TypeOK
<1>2. QueueTypeOK'
  BY <1>1 DEF Die, DropConsumer, QueueTypeOK
<1> QED
  BY <1>1, <1>2, EndSessionType DEF Die, TypeOK

LEMMA WorkerType ==
    ASSUME IInv, NEW w \in Workers, Process(w)
    PROVE  TypeOK'
<1>1. TypeOK /\ QueueTypeOK /\ w \in Sessions
  BY DEF IInv, TypeOK, Sessions
<1>2. CASE LoadAnalysis(w)
  <2>1. target[w] \in Analyses
    <3>1. Shape(w) /\ pc[w] = "load"
      BY <1>1, <1>2 DEF IInv, SessionInv, LoadAnalysis
    <3> QED
      BY <3>1 DEF Shape, Open
  <2>2. /\ pc' \in [Sessions -> WorkerStep \union CancelStep]
        /\ plan' \in [Sessions -> Operation \union {"none"}]
    <3>1. CASE db[target[w]].status = "pending"
      BY <1>1, <1>2, <3>1, UpdatingType DEF LoadAnalysis, Operation
    <3>2. CASE db[target[w]].status # "pending"
      <4>1. Goto(w, "analyze") /\ UNCHANGED plan
        BY <1>2, <3>2 DEF LoadAnalysis
      <4> QED
        BY <1>1, <4>1, GotoType DEF TypeOK, WorkerStep
    <3> QED
      BY <3>1, <3>2
  <2> QED
    BY <1>1, <1>2, <2>1, <2>2 DEF LoadAnalysis, TypeOK, QueueTypeOK, queueVars, rowVars
<1>3. CASE SkipAnalysis(w) \/ LoadFails(w) \/ Acknowledge(w)
  <2>1. AckJob(w) /\ Goto(w, "commit") /\ faults' \in Nat
    BY <1>1, <1>3 DEF SkipAnalysis, LoadFails, Acknowledge, Inject, TypeOK
  <2>2. QueueTypeOK'
    BY <1>1, <2>1 DEF AckJob, QueueTypeOK
  <2>3. pc' \in [Sessions -> WorkerStep \union CancelStep]
    BY <1>1, <2>1, GotoType DEF WorkerStep
  <2>4. UNCHANGED <<rowVars, target, seen, base, plan, request>>
    BY <1>3 DEF SkipAnalysis, LoadFails, Acknowledge
  <2> QED
    BY <1>1, <2>1, <2>2, <2>3, <2>4 DEF TypeOK, rowVars
<1>4. CASE Requeue(w)
  <2>1. QueueTypeOK'
    BY <1>1, <1>4 DEF Requeue, NackJob, QueueTypeOK
  <2>2. pc' \in [Sessions -> WorkerStep \union CancelStep]
    BY <1>1, <1>4, GotoType DEF Requeue, WorkerStep
  <2> QED
    BY <1>1, <1>4, <2>1, <2>2 DEF Requeue, TypeOK, rowVars
<1>5. CASE AnalyzerReturns(w)
  <2>1. /\ pc' \in [Sessions -> WorkerStep \union CancelStep]
        /\ plan' \in [Sessions -> Operation \union {"none"}]
    BY <1>1, <1>5, UpdatingType DEF AnalyzerReturns, Operation
  <2> QED
    BY <1>1, <1>5, <2>1 DEF AnalyzerReturns, TypeOK, QueueTypeOK, queueVars, rowVars
<1>6. CASE AnalyzerRaises(w)
  <2>1. PICK m \in BOOLEAN : \/ HandleFailure(w, m) /\ UNCHANGED <<queueVars, own>>
                             \/ HandlerRaises(w, m) /\ Die(w)
    BY <1>6 DEF AnalyzerRaises
  <2>2. UNCHANGED <<db, request, faults>>
    BY <1>6 DEF AnalyzerRaises
  <2>3. CASE HandleFailure(w, m) /\ UNCHANGED <<queueVars, own>>
    BY <1>1, <2>2, <2>3, FailureType DEF TypeOK, QueueTypeOK, queueVars
  <2>4. CASE Die(w)
    BY <1>1, <2>2, <2>4, DieType DEF TypeOK
  <2> QED
    BY <2>1, <2>3, <2>4
<1>7. CASE StartRejected(w)
  <2>1. NewVersion(w) \in Row
    BY <1>1, <1>7, NewVersionIsRow DEF StartRejected, CanFlush
  <2>2. UNCHANGED <<db, request, faults>>
    BY <1>7 DEF StartRejected
  <2>3. CASE /\ HandleFailure(w, TRUE)
             /\ own' = [own EXCEPT ![w] = NewVersion(w)]
             /\ UNCHANGED queueVars
    BY <1>1, <2>1, <2>2, <2>3, FailureType DEF TypeOK, QueueTypeOK, queueVars
  <2>4. CASE Die(w)
    BY <1>1, <2>2, <2>4, DieType DEF TypeOK
  <2> QED
    BY <1>7, <2>3, <2>4 DEF StartRejected
<1>8. CASE CompletionRefused(w) \/ RetryRejected(w)
  BY <1>1, <1>8, DieType DEF CompletionRefused, RetryRejected, TypeOK
<1>9. CASE AcknowledgeRaises(w)
  <2>1. /\ AckJob(w) \/ DropConsumer(w)
        /\ UNCHANGED <<db, request>> /\ faults' \in Nat
    BY <1>1, <1>9 DEF AcknowledgeRaises, Inject, TypeOK
  <2>2. QueueTypeOK'
    BY <1>1, <2>1 DEF AckJob, DropConsumer, QueueTypeOK
  <2>3. CASE HandleFailure(w, TRUE) /\ UNCHANGED own
    BY <1>1, <2>1, <2>2, <2>3, FailureType DEF TypeOK
  <2>4. CASE EndSession(w, "dead")
    BY <1>1, <2>1, <2>2, <2>4, EndSessionType DEF TypeOK
  <2> QED
    BY <1>9, <2>3, <2>4 DEF AcknowledgeRaises
<1>10. CASE WorkerCommit(w)
  <2>1. Visible(w) \in Row /\ target[w] \in Analyses
    BY <1>1, <1>10, CommitFollows DEF WorkerCommit
  <2> QED
    BY <1>1, <1>10, <2>1, EndSessionType DEF WorkerCommit, TypeOK, QueueTypeOK, queueVars
<1> QED
  BY <1>1, <1>2, <1>3, <1>4, <1>5, <1>6, <1>7, <1>8, <1>9, <1>10, UpdateType
     DEF Process

LEMMA ClaimType ==
    ASSUME IInv, NEW w \in Workers, NEW a \in Analyses, Claim(w, a)
    PROVE  TypeOK'
<1>1. TypeOK /\ QueueTypeOK /\ w \in Sessions
  BY DEF IInv, TypeOK, Sessions
<1>2. QueueTypeOK'
  BY <1>1 DEF Claim, ClaimJob, QueueTypeOK
<1>3. pc' \in [Sessions -> WorkerStep \union CancelStep]
  BY <1>1, GotoType DEF Claim, WorkerStep
<1> QED
  BY <1>1, <1>2, <1>3 DEF Claim, TypeOK, rowVars

-----------------------------------------------------------------------------
(* The UPDATE *)

\* What the newest version of the row can be when a session's UPDATE gets it.
LEMMA LatestRow ==
    ASSUME IInv, NEW s \in Sessions, pc[s] = "flush"
    PROVE  /\ Visible(s).status # "absent"
           /\ Visible(s).status \in Terminal => Visible(s).done
           /\ Visible(s).retry <= MaxRetries + 1
           /\ ~Visible(s).done => /\ Visible(s).retry <= MaxRetries
                                  /\ db[target[s]].status \in Active
           /\ db[target[s]].status # "absent"
<1>1. /\ target[s] \in Analyses
      /\ Visible(s) \in Row
      /\ db[target[s]] \in Row
  BY NewVersionIsRow DEF IInv, TypeOK
<1>2. SessionInv(s) /\ RowInv /\ RetryBounded
  BY DEF IInv
<1>3. db[target[s]].status # "absent"
  BY <1>1, <1>2 DEF SessionInv, SeenInv, Follows, Active
<1>4. CASE Dirty(s)
  BY <1>1, <1>2, <1>3, <1>4 DEF SessionInv, OwnInv, Visible, Row, Active, Terminal
<1>5. CASE ~Dirty(s)
  BY <1>1, <1>2, <1>3, <1>5 DEF RowInv, RetryBounded, Visible, Row, Active, Terminal
<1> QED
  BY <1>4, <1>5

\* What the UPDATE makes of it: never a row another session could not live with,
\* whatever was committed since the entity and the row were read.
LEMMA FlushedRow ==
    ASSUME IInv, NEW s \in Sessions, pc[s] = "flush"
    PROVE  /\ NewVersion(s) # NoRow
           /\ NewVersion(s).status \in {"running"} \union Terminal
           /\ NewVersion(s).status \in Terminal => NewVersion(s).done
           /\ NewVersion(s).retry <= MaxRetries + 1
           /\ ~NewVersion(s).done => /\ NewVersion(s).retry <= MaxRetries
                                     /\ db[target[s]].status \in Active
           /\ plan[s] \notin {"start", "retry"} => NewVersion(s).status \in Terminal
           /\ plan[s] = "retry" /\ Loadable(Entity(s)) => Loadable(NewVersion(s))
<1> DEFINE n == NewVersion(s)
           latest == Visible(s)
<1>1. /\ target[s] \in Analyses
      /\ plan[s] \in Operation
      /\ latest \in Row
      /\ n \in Row
      /\ base[s] \in Row
      /\ seen[s] \in Row
      /\ db[target[s]] \in Row
  BY NewVersionIsRow DEF IInv, TypeOK
<1>2. SessionInv(s) /\ RowInv /\ RetryBounded
  BY DEF IInv
<1>3. /\ latest.status # "absent"
      /\ latest.status \in Terminal => latest.done
      /\ latest.retry <= MaxRetries + 1
      /\ ~latest.done => /\ latest.retry <= MaxRetries
                         /\ db[target[s]].status \in Active
  BY LatestRow
<1>4. /\ seen[s].status \in Active
      /\ seen[s].retry <= MaxRetries
      /\ NextRetry(seen[s]) \in Nat
      /\ NextRetry(seen[s]) <= MaxRetries + 1
      /\ plan[s] = "retry" => NextRetry(seen[s]) <= MaxRetries
      /\ plan[s] = "retry" /\ seen[s].status = "pending" => Dirty(s)
  BY <1>1, <1>2 DEF SessionInv, SeenInv, PlanInv, NextRetry, Row
<1>5. /\ base[s].status # "absent"
      /\ base[s].status \in Terminal => base[s].done
      /\ Dirty(s) => base[s] = latest
      /\ ~Dirty(s) => Loadable(base[s])
      /\ Follows(seen[s], base[s])
      /\ Follows(base[s], latest)
  BY <1>2 DEF SessionInv, BaseInv, Visible
<1>6. CASE plan[s] \in {"start", "retry"}
  <2>1. /\ NewStatus(plan[s]) = "running"
        /\ n.status = IF base[s].status # "running" THEN "running" ELSE latest.status
        /\ n.done = latest.done
        /\ n.retry \in {latest.retry, NextRetry(seen[s])}
        /\ plan[s] = "start" => n.retry = latest.retry
    BY <1>1, <1>3, <1>6, NewStatusValue DEF NewVersion, Merged, Row, Terminal, CountsRetry
  <2>2. n.status \in {"running"} \union Terminal
    BY <1>1, <1>3, <1>5, <2>1 DEF Follows, Row, Active, Terminal
  <2>3. n.status \in Terminal => n.done
    BY <1>3, <2>1 DEF Terminal
  <2>4. /\ n.retry <= MaxRetries + 1
        /\ ~n.done => n.retry <= MaxRetries
    BY <1>1, <1>3, <1>4, <1>6, <2>1 DEF Row
  <2>5. plan[s] = "retry" /\ Loadable(Entity(s)) => Loadable(n)
    <3>1. SUFFICES ASSUME plan[s] = "retry", Loadable(Entity(s)), n.status \notin Terminal
                   PROVE  ~n.done
      BY DEF Loadable
    <3>2. ~base[s].done
      BY <1>1, <2>1, <3>1 DEF Loadable, Entity, Assigned, Terminal, Row
    <3>3. CASE Dirty(s)
      BY <1>5, <2>1, <3>2, <3>3
    <3>4. CASE ~Dirty(s)
      <4>1. base[s].status = "running"
        BY <1>1, <1>4, <1>5, <3>1, <3>2, <3>4 DEF Follows, Row, Active, Terminal
      <4>2. latest = db[target[s]] /\ latest.status \notin Terminal
        BY <2>1, <3>1, <3>4, <4>1 DEF Visible
      <4> QED
        BY <1>1, <1>2, <2>1, <4>2 DEF RowInv
    <3> QED
      BY <3>3, <3>4
  <2> QED
    BY <1>3, <1>6, <2>1, <2>2, <2>3, <2>4, <2>5 DEF NoRow, Terminal
<1>7. CASE plan[s] \notin {"start", "retry"}
  <2>1. NewStatus(plan[s]) \in Terminal
    BY <1>1, <1>7, NewStatusValue DEF Operation, Terminal
  <2>2. n.status \in Terminal
    BY <1>1, <1>5, <2>1 DEF NewVersion, Merged, Follows
  <2>3. /\ n.done
        /\ n.retry <= MaxRetries + 1
    BY <1>1, <1>3, <1>4, <2>1 DEF NewVersion, Merged, Row
  <2> QED
    BY <1>7, <2>2, <2>3 DEF NoRow, Terminal
<1> QED
  BY <1>6, <1>7

LEMMA UpdateSelectStep ==
    ASSUME IInv, TypeOK', NEW s \in Sessions, UpdateSelect(s)
    PROVE  IInv'
<1>1. TypeOK /\ SessionInv(s) /\ RowInv /\ pc[s] = "select"
  BY DEF IInv, UpdateSelect
<1>2. /\ pc'[s] = "flush"
      /\ base'[s] = Visible(s)
      /\ own' = own /\ db' = db /\ request' = request /\ held' = held
      /\ target' = target /\ seen' = seen /\ plan' = plan
  BY <1>1 DEF UpdateSelect, Goto, TypeOK, rowVars, queueVars
<1>3. OnlyBy(s)
  BY <1>1, <1>2 DEF UpdateSelect, Goto, TypeOK, OnlyBy, Same
<1>4. target[s] \in Analyses /\ Visible(s) \in Row /\ own[s] \in Row
      /\ db[target[s]] \in Row /\ seen[s] \in Row
  BY <1>1 DEF SessionInv, Shape, Open, Visible, TypeOK
<1>5. /\ Dirty(s)' <=> Dirty(s)
      /\ Visible(s)' = Visible(s)
      /\ Open(s) /\ Open(s)' /\ Holding(s) /\ Holding(s)'
  BY <1>1, <1>2 DEF Dirty, Visible, Open, Holding
<1>6. Shape(s)'
  BY <1>1, <1>2, <1>5 DEF SessionInv, Shape, WorkerStep, CancelStep
<1>7. SeenInv(s)' /\ PlanInv(s)'
  BY <1>1, <1>2, <1>5 DEF SessionInv, SeenInv, PlanInv
<1>8. OwnInv(s)' /\ AckInv(s)'
  BY <1>1, <1>2, <1>5 DEF SessionInv, OwnInv, AckInv
<1>9. BaseInv(s)'
  <2>1. Follows(Visible(s), Visible(s))
    BY <1>4, FollowsReflexive
  <2>2. CASE Dirty(s)
    <3>1. /\ Visible(s) = own[s]
          /\ own[s].status \in {"running"} \union Terminal
          /\ own[s].status \in Terminal => own[s].done
          /\ seen[s].status \in Active
      BY <1>1, <2>2 DEF SessionInv, OwnInv, SeenInv, Visible
    <3>2. Follows(seen[s], own[s])
      BY <1>4, <3>1 DEF Follows, Active, Terminal
    <3> QED
      BY <1>2, <1>5, <2>1, <2>2, <3>1, <3>2 DEF BaseInv, Terminal
  <2>3. CASE ~Dirty(s)
    <3>1. /\ Visible(s) = db[target[s]]
          /\ Follows(seen[s], db[target[s]])
          /\ seen[s].status # "absent"
          /\ db[target[s]].done <=> db[target[s]].status \in Terminal
      BY <1>1, <1>4, <2>3 DEF SessionInv, SeenInv, Visible, RowInv, Active
    <3> QED
      BY <1>2, <1>5, <2>1, <2>3, <3>1 DEF BaseInv, Loadable, Follows
  <2> QED
    BY <2>2, <2>3
<1> QED
  BY <1>2, <1>3, <1>6, <1>7, <1>8, <1>9, PrivateStep DEF SessionInv

LEMMA UpdateFlushStep ==
    ASSUME IInv, TypeOK', NEW s \in Sessions, UpdateFlush(s)
    PROVE  IInv'
<1>1. /\ TypeOK /\ SessionInv(s) /\ pc[s] = "flush"
      /\ CanFlush(s) /\ ~Refused(s) /\ Loadable(Entity(s))
  BY DEF IInv, UpdateFlush, CanFlush
<1>2. /\ pc'[s] = AfterFlush(plan[s])
      /\ own'[s] = NewVersion(s)
      /\ db' = db /\ request' = request /\ held' = held
      /\ target' = target /\ seen' = seen /\ plan' = plan /\ base' = base
  BY <1>1 DEF UpdateFlush, Goto, TypeOK, queueVars
<1>3. OnlyBy(s)
  BY <1>1, <1>2 DEF UpdateFlush, Goto, TypeOK, OnlyBy, Same
<1>4. /\ plan[s] \in Operation
      /\ plan[s] = "cancel" <=> s \in Cancels
      /\ target[s] \in Analyses
      /\ s \in Workers => held[s] \in {target[s], NoAnalysis}
  BY <1>1, NewVersionIsRow DEF SessionInv, Shape, Holding, Open
<1>5. /\ plan[s] = "cancel" => pc'[s] = "commit"
      /\ plan[s] # "cancel" => pc'[s] \in {"analyze", "ack", "nack"}
      /\ pc'[s] = "analyze" <=> plan[s] = "start"
      /\ pc'[s] = "nack" <=> plan[s] = "retry"
  BY <1>2, <1>4, AfterFlushStep
<1>6. Dirty(s)'
  BY <1>1, <1>2, FlushedRow DEF Dirty
<1>7. Shape(s)'
  BY <1>2, <1>4, <1>5 DEF Shape, Open, Holding, WorkerStep, CancelStep, Sessions
<1>8. SeenInv(s)' /\ PlanInv(s)' /\ BaseInv(s)'
  BY <1>1, <1>2, <1>5, <1>6 DEF SessionInv, SeenInv, PlanInv, BaseInv
<1>9. OwnInv(s)' /\ AckInv(s)'
  <2>1. db'[target'[s]].status # "absent"
    BY <1>1, <1>2, LatestRow
  <2>2. pc'[s] \in {"ack", "nack", "commit"} => Loadable(NewVersion(s))
    BY <1>1, <1>5, FlushedRow DEF Loadable
  <2>3. pc'[s] = "ack" => NewVersion(s).status \in Terminal
    BY <1>1, <1>5, FlushedRow
  <2> QED
    BY <1>1, <1>2, <1>6, <2>1, <2>2, <2>3, FlushedRow DEF OwnInv, AckInv
<1> QED
  BY <1>1, <1>2, <1>3, <1>7, <1>8, <1>9, WriteStep DEF SessionInv

-----------------------------------------------------------------------------
(* The end of a session *)

\* A session that ended is in no transaction: its invariant asks for nothing.
LEMMA EndedSession ==
    ASSUME IInv, NEW s \in Sessions, NEW step \in {"dead", "idle", "done"},
           EndSession(s, step),
           s \in Workers => /\ step # "done"
                            /\ held' = [held EXCEPT ![s] = NoAnalysis],
           s \in Cancels => step = "done" /\ held' = held
    PROVE  /\ OnlyBy(s)
           /\ own'[s] = NoRow
           /\ SessionInv(s)'
<1>1. TypeOK /\ QueueTypeOK
  BY DEF IInv, TypeOK
<1>2. /\ own'[s] = NoRow /\ pc'[s] = step /\ target'[s] = NoAnalysis
      /\ s \in Workers => held'[s] = NoAnalysis
  BY <1>1 DEF EndSession, Goto, TypeOK, QueueTypeOK
<1>3. OnlyBy(s)
  BY <1>1 DEF EndSession, Goto, OnlyBy, Same, TypeOK, QueueTypeOK, Sessions
<1>4. ~Dirty(s)' /\ ~Open(s)' /\ ~Holding(s)'
  BY <1>2 DEF Dirty, Open, Holding
<1>5. Shape(s)'
  BY <1>2, <1>4 DEF Shape, WorkerStep, CancelStep
<1>6. /\ SeenInv(s)' /\ PlanInv(s)' /\ BaseInv(s)'
      /\ OwnInv(s)' /\ AckInv(s)'
  BY <1>2, <1>4 DEF SeenInv, PlanInv, BaseInv, OwnInv, AckInv
<1> QED
  BY <1>2, <1>3, <1>5, <1>6 DEF SessionInv

LEMMA DieStep ==
    ASSUME IInv, TypeOK', NEW w \in Workers, Die(w), UNCHANGED <<db, request>>
    PROVE  IInv'
<1>1. w \in Sessions /\ w \notin Cancels
  BY DEF Sessions
<1>2. EndSession(w, "dead") /\ held' = [held EXCEPT ![w] = NoAnalysis]
  BY DEF Die, DropConsumer
<1>3. OnlyBy(w) /\ own'[w] = NoRow /\ SessionInv(w)'
  BY <1>1, <1>2, EndedSession
<1> QED
  BY <1>1, <1>3, PrivateStep

-----------------------------------------------------------------------------
(* The worker *)

\* After the analyzer, or an acknowledgement that raised, a worker goes on to an
\* update of its own transaction, with its claim or without.
LEMMA NextUpdate ==
    ASSUME IInv, TypeOK', NEW w \in Workers, pc[w] \in {"analyze", "ack"},
           NEW op \in {"complete", "fail", "retry", "exhaust"},
           Updating(w, op),
           op = "retry" => NextRetry(seen[w]) <= MaxRetries,
           held' \in {held, [held EXCEPT ![w] = NoAnalysis]},
           UNCHANGED <<rowVars, target, seen, base, request>>
    PROVE  IInv'
<1>1. TypeOK /\ QueueTypeOK /\ SessionInv(w) /\ w \in Sessions /\ w \notin Cancels
  BY DEF IInv, TypeOK, Sessions
<1>2. /\ pc'[w] = "select" /\ plan'[w] = op
      /\ own' = own /\ db' = db /\ request' = request
      /\ held'[w] \in {held[w], NoAnalysis}
      /\ target' = target /\ seen' = seen
  BY <1>1 DEF Updating, Goto, TypeOK, QueueTypeOK, rowVars
<1>3. OnlyBy(w)
  BY <1>1 DEF Updating, Goto, TypeOK, QueueTypeOK, OnlyBy, Same, rowVars
<1>4. Dirty(w)' <=> Dirty(w)
  BY <1>2 DEF Dirty
<1>5. Shape(w)'
  BY <1>1, <1>2, <1>4 DEF SessionInv, Shape, Open, Holding, WorkerStep, Operation
<1>6. SeenInv(w)' /\ PlanInv(w)' /\ BaseInv(w)'
  BY <1>1, <1>2, <1>4 DEF SessionInv, SeenInv, PlanInv, BaseInv, AckInv
<1>7. OwnInv(w)' /\ AckInv(w)'
  BY <1>1, <1>2, <1>4 DEF SessionInv, OwnInv, AckInv
<1> QED
  BY <1>1, <1>2, <1>3, <1>5, <1>6, <1>7, PrivateStep DEF SessionInv

LEMMA AcknowledgeRaisesStep ==
    ASSUME IInv, TypeOK', NEW w \in Workers, AcknowledgeRaises(w)
    PROVE  IInv'
<1>1. /\ pc[w] = "ack" /\ w \in Sessions /\ w \notin Cancels
      /\ held' = [held EXCEPT ![w] = NoAnalysis]
      /\ UNCHANGED <<db, request>>
  BY DEF AcknowledgeRaises, AckJob, DropConsumer, Sessions
<1>2. CASE HandleFailure(w, TRUE) /\ UNCHANGED own
  <2>1. UNCHANGED <<rowVars, target, seen, base, request>>
    BY <1>1, <1>2 DEF HandleFailure, rowVars
  <2>2. \/ Updating(w, "retry") /\ NextRetry(seen[w]) <= MaxRetries
        \/ Updating(w, "exhaust")
    BY <1>2 DEF HandleFailure
  <2> QED
    BY <1>1, <2>1, <2>2, NextUpdate
<1>3. CASE EndSession(w, "dead")
  <2>1. OnlyBy(w) /\ own'[w] = NoRow /\ SessionInv(w)'
    BY <1>1, <1>3, EndedSession
  <2> QED
    BY <1>1, <2>1, PrivateStep
<1> QED
  BY <1>2, <1>3 DEF AcknowledgeRaises

LEMMA AnalyzerStep ==
    ASSUME IInv, TypeOK', NEW w \in Workers, AnalyzerReturns(w) \/ AnalyzerRaises(w)
    PROVE  IInv'
<1>1. CASE AnalyzerReturns(w)
  <2>1. /\ pc[w] = "analyze" /\ held' = held
        /\ UNCHANGED <<rowVars, target, seen, base, request>>
    BY <1>1 DEF AnalyzerReturns, queueVars
  <2>2. Updating(w, "complete") \/ Updating(w, "fail")
    BY <1>1 DEF AnalyzerReturns
  <2> QED
    BY <2>1, <2>2, NextUpdate
<1>2. CASE AnalyzerRaises(w)
  <2>1. pc[w] = "analyze" /\ UNCHANGED <<db, request>>
    BY <1>2 DEF AnalyzerRaises
  <2>2. PICK m \in BOOLEAN : \/ HandleFailure(w, m) /\ UNCHANGED <<queueVars, own>>
                             \/ HandlerRaises(w, m) /\ Die(w)
    BY <1>2 DEF AnalyzerRaises
  <2>3. CASE HandleFailure(w, m) /\ UNCHANGED <<queueVars, own>>
    <3>1. held' = held /\ UNCHANGED <<rowVars, target, seen, base, request>>
      BY <2>1, <2>3 DEF HandleFailure, rowVars, queueVars
    <3>2. \/ Updating(w, "retry") /\ NextRetry(seen[w]) <= MaxRetries
          \/ Updating(w, "exhaust")
      BY <2>3 DEF HandleFailure
    <3> QED
      BY <2>1, <3>1, <3>2, NextUpdate
  <2>4. CASE Die(w)
    BY <2>1, <2>4, DieStep
  <2> QED
    BY <2>2, <2>3, <2>4
<1> QED
  BY <1>1, <1>2

\* The rejected start leaves a row with completed_at in the transaction; the
\* handler's retry is still to be validated.
LEMMA StartRejectedStep ==
    ASSUME IInv, TypeOK', NEW w \in Workers, StartRejected(w)
    PROVE  IInv'
<1>1. /\ TypeOK /\ SessionInv(w) /\ w \in Sessions /\ w \notin Cancels
      /\ RowInv
      /\ CanFlush(w) /\ pc[w] = "flush" /\ plan[w] = "start"
      /\ UNCHANGED <<db, request>>
  BY DEF IInv, Sessions, StartRejected, CanFlush
<1>2. CASE Die(w)
  BY <1>1, <1>2, DieStep
<1>3. CASE /\ HandleFailure(w, TRUE)
           /\ own' = [own EXCEPT ![w] = NewVersion(w)]
           /\ UNCHANGED queueVars
  <2>1. seen[w].status = "pending"
    BY <1>1 DEF SessionInv, PlanInv
  <2>2. /\ NextRetry(seen[w]) <= MaxRetries
        /\ Updating(w, "retry")
        /\ UNCHANGED <<target, seen, base>>
    BY <1>3, <2>1 DEF HandleFailure
  <2>3. /\ pc'[w] = "select" /\ plan'[w] = "retry"
        /\ own'[w] = NewVersion(w)
        /\ db' = db /\ request' = request /\ held' = held
        /\ target' = target /\ seen' = seen
    BY <1>1, <1>3, <2>2 DEF Updating, Goto, TypeOK, queueVars
  <2>4. OnlyBy(w)
    BY <1>1, <1>3, <2>2 DEF Updating, Goto, TypeOK, OnlyBy, Same, queueVars
  <2>5. Dirty(w)'
    BY <1>1, <2>3, FlushedRow DEF Dirty
  <2>6. ~Refused(w)
    <3>1. NewVersion(w).done /\ NewVersion(w).status # "completed"
      <4>1. NewStatus("start") = "running" /\ base[w] \in Row
        BY <1>1, NewStatusValue DEF TypeOK
      <4>2. ~Loadable(Entity(w)) => base[w].done
        BY <1>1, <4>1 DEF Loadable, Entity, Assigned, Terminal, Row
      <4>3. base[w].status \in Terminal /\ ~Dirty(w)
        BY <1>1, <4>1, <4>2
           DEF StartRejected, SessionInv, PlanInv, BaseInv, Loadable
      <4>4. Visible(w).done
        BY <1>1, <4>3, LatestRow DEF SessionInv, BaseInv, Follows
      <4> QED
        BY <1>1, <4>1, <4>3, <4>4 DEF NewVersion, Merged, Terminal
    <3> QED
      BY <3>1 DEF Refused
  <2>7. Shape(w)'
    BY <1>1, <2>3 DEF SessionInv, Shape, Open, Holding, WorkerStep, Operation
  <2>8. SeenInv(w)' /\ PlanInv(w)' /\ BaseInv(w)'
    BY <1>1, <2>2, <2>3, <2>5 DEF SessionInv, SeenInv, PlanInv, BaseInv
  <2>9. OwnInv(w)' /\ AckInv(w)'
    BY <1>1, <2>3, <2>5, FlushedRow, LatestRow DEF OwnInv, AckInv
  <2> QED
    BY <1>1, <2>3, <2>4, <2>6, <2>7, <2>8, <2>9, WriteStep DEF SessionInv
<1> QED
  BY <1>2, <1>3 DEF StartRejected

LEMMA LoadStep ==
    ASSUME IInv, TypeOK', NEW w \in Workers, LoadAnalysis(w)
    PROVE  IInv'
<1>1. /\ TypeOK /\ SessionInv(w) /\ w \in Sessions /\ w \notin Cancels
      /\ RowInv /\ RetryBounded /\ pc[w] = "load"
  BY DEF IInv, Sessions, LoadAnalysis
<1>2. /\ target[w] \in Analyses /\ db[target[w]] \in Row
      /\ held[w] \in {target[w], NoAnalysis} /\ ~Dirty(w)
  BY <1>1 DEF SessionInv, Shape, Open, Holding, TypeOK
<1>3. /\ db[target[w]].status \in Active /\ ~db[target[w]].done
      /\ db[target[w]].retry <= MaxRetries
  BY <1>1, <1>2 DEF LoadAnalysis, RowInv, RetryBounded, Active, Terminal
<1>4. /\ seen'[w] = db[target[w]]
      /\ own' = own /\ db' = db /\ request' = request /\ held' = held /\ target' = target
      /\ pc'[w] \in {"select", "analyze"}
      /\ pc'[w] = "select" => plan'[w] = "start" /\ db[target[w]].status = "pending"
      /\ pc'[w] = "analyze" => db[target[w]].status # "pending"
  BY <1>1 DEF LoadAnalysis, Updating, Goto, TypeOK, rowVars, queueVars
<1>5. OnlyBy(w)
  BY <1>1 DEF LoadAnalysis, Updating, Goto, TypeOK, OnlyBy, Same, rowVars, queueVars
<1>6. ~Dirty(w)'
  BY <1>2, <1>4 DEF Dirty
<1>7. Shape(w)'
  BY <1>1, <1>2, <1>4, <1>6 DEF Shape, Open, Holding, WorkerStep, Operation
<1>8. SeenInv(w)' /\ PlanInv(w)' /\ BaseInv(w)' /\ OwnInv(w)' /\ AckInv(w)'
  <2>1. Follows(db[target[w]], db[target[w]])
    BY <1>2, FollowsReflexive
  <2> QED
    BY <1>2, <1>3, <1>4, <1>6, <2>1 DEF SeenInv, PlanInv, BaseInv, OwnInv, AckInv
<1> QED
  BY <1>1, <1>4, <1>5, <1>7, <1>8, PrivateStep DEF SessionInv

\* The job is given back or acknowledged; the commit is all that is left.
LEMMA ReleaseStep ==
    ASSUME IInv, TypeOK', NEW w \in Workers,
           SkipAnalysis(w) \/ LoadFails(w) \/ Acknowledge(w) \/ Requeue(w)
    PROVE  IInv'
<1>1. TypeOK /\ SessionInv(w) /\ w \in Sessions /\ w \notin Cancels
  BY DEF IInv, Sessions
<1>2. /\ pc[w] \in {"load", "ack", "nack"}
      /\ held' = [held EXCEPT ![w] = NoAnalysis]
      /\ Goto(w, "commit")
      /\ UNCHANGED <<rowVars, target, seen, base, plan, request>>
  BY DEF SkipAnalysis, LoadFails, Acknowledge, Requeue, AckJob, NackJob
<1>3. /\ pc'[w] = "commit" /\ held'[w] = NoAnalysis
      /\ own' = own /\ db' = db /\ request' = request /\ target' = target
  BY <1>1, <1>2 DEF Goto, TypeOK, QueueTypeOK, rowVars
<1>4. OnlyBy(w)
  BY <1>1, <1>2 DEF Goto, TypeOK, QueueTypeOK, OnlyBy, Same, rowVars
<1>5. Dirty(w)' <=> Dirty(w)
  BY <1>3 DEF Dirty
<1>6. Shape(w)'
  BY <1>1, <1>2, <1>3, <1>5 DEF SessionInv, Shape, Open, Holding, WorkerStep
<1>7. SeenInv(w)' /\ PlanInv(w)' /\ BaseInv(w)' /\ AckInv(w)'
  BY <1>3 DEF SeenInv, PlanInv, BaseInv, AckInv
<1>8. OwnInv(w)'
  BY <1>1, <1>2, <1>3, <1>5 DEF SessionInv, Shape, OwnInv
<1> QED
  BY <1>1, <1>3, <1>4, <1>6, <1>7, <1>8, PrivateStep DEF SessionInv

LEMMA WorkerCommitStep ==
    ASSUME IInv, TypeOK', NEW w \in Workers, WorkerCommit(w)
    PROVE  IInv'
<1>1. w \in Sessions /\ w \notin Cancels /\ TypeOK /\ SessionInv(w) /\ pc[w] = "commit"
  BY DEF Sessions, IInv, WorkerCommit
<1>2. held' = [held EXCEPT ![w] = NoAnalysis]
  BY <1>1 DEF WorkerCommit, queueVars, SessionInv, Shape, Holding, TypeOK, QueueTypeOK
<1>3. OnlyBy(w) /\ own'[w] = NoRow /\ SessionInv(w)'
  BY <1>1, <1>2, EndedSession DEF WorkerCommit
<1> QED
  BY <1>1, <1>3, CommitStep DEF WorkerCommit

LEMMA ProcessStep ==
    ASSUME IInv, TypeOK', NEW w \in Workers, Process(w)
    PROVE  IInv'
<1>1. w \in Sessions
  BY DEF Sessions
<1>2. CASE CompletionRefused(w) \/ RetryRejected(w)
  BY <1>2, DieStep DEF CompletionRefused, RetryRejected
<1> QED
  BY <1>1, <1>2, UpdateSelectStep, UpdateFlushStep, AnalyzerStep, StartRejectedStep,
     AcknowledgeRaisesStep,
     LoadStep, ReleaseStep, WorkerCommitStep
     DEF Process

LEMMA ClaimStep ==
    ASSUME IInv, TypeOK', NEW w \in Workers, NEW a \in Analyses, Claim(w, a)
    PROVE  IInv'
<1>1. /\ TypeOK /\ QueueTypeOK /\ SessionInv(w) /\ w \in Sessions /\ w \notin Cancels
      /\ pc[w] = "idle"
  BY DEF IInv, TypeOK, Sessions, Claim
<1>2. /\ pc'[w] = "load" /\ held'[w] = a /\ target'[w] = a
      /\ own' = own /\ db' = db /\ request' = request
  BY <1>1 DEF Claim, ClaimJob, Goto, TypeOK, QueueTypeOK, rowVars
<1>3. OnlyBy(w)
  BY <1>1 DEF Claim, ClaimJob, Goto, TypeOK, QueueTypeOK, OnlyBy, Same, rowVars
<1>4. ~Dirty(w) /\ ~Dirty(w)' /\ own'[w] = NoRow
  BY <1>1, <1>2 DEF SessionInv, Shape, Open, Dirty
<1>5. SessionInv(w)'
  BY <1>1, <1>2, <1>4
     DEF SessionInv, Shape, Open, Holding, WorkerStep, SeenInv, PlanInv, BaseInv, OwnInv, AckInv
<1> QED
  BY <1>1, <1>2, <1>3, <1>4, <1>5, PrivateStep

LEMMA RestartStep ==
    ASSUME IInv, TypeOK', NEW w \in Workers, Restart(w)
    PROVE  IInv'
<1>1. /\ TypeOK /\ SessionInv(w) /\ w \in Sessions /\ w \notin Cancels
      /\ pc[w] = "dead"
  BY DEF IInv, Sessions, Restart
<1>2. /\ pc'[w] = "idle" /\ held' = held /\ target' = target
      /\ own' = own /\ db' = db /\ request' = request
  BY <1>1 DEF Restart, Goto, TypeOK, queueVars, rowVars
<1>3. OnlyBy(w)
  BY <1>1 DEF Restart, Goto, TypeOK, OnlyBy, Same, queueVars, rowVars
<1>4. SessionInv(w)'
  BY <1>1, <1>2
     DEF SessionInv, Shape, Open, Dirty, Holding, WorkerStep, SeenInv, PlanInv, BaseInv,
         OwnInv, AckInv
<1> QED
  BY <1>1, <1>2, <1>3, <1>4, PrivateStep

-----------------------------------------------------------------------------
(* Steps of no session: the requests and the broker *)

LEMMA QuietStep ==
    ASSUME IInv, TypeOK', \A s \in Sessions : Same(s), db' = db,
           \A a \in Analyses : request'[a] # "accepted" => request[a] # "accepted"
    PROVE  IInv'
<1>1. /\ SingleWriter
      /\ CompletionReserved
      /\ RowInv
      /\ RetryBounded
      /\ UniqueCompleted
  BY DEF IInv
<1>2. \A s \in Sessions : SessionInv(s)'
  BY Bystander
<1>3. \A s \in Sessions : /\ Dirty(s)' <=> Dirty(s)
                          /\ own'[s] = own[s]
                          /\ target'[s] = target[s]
  BY DEF Same, Dirty
<1>4. SingleWriter' /\ CompletionReserved'
  BY <1>1, <1>3 DEF SingleWriter, CompletionReserved, Rivals
<1>5. RowInv' /\ RetryBounded' /\ UniqueCompleted'
  BY <1>1 DEF RowInv, RetryBounded, UniqueCompleted, Rivals
<1> QED
  BY <1>2, <1>4, <1>5 DEF IInv

LEMMA RequestStepInv ==
    ASSUME IInv, TypeOK', NEW a \in Analyses, Request(a)
    PROVE  IInv'
<1>1. TypeOK
  BY DEF IInv
<1>2. CASE CommitRequest(a)
  <2>1. /\ \A s \in Sessions : Same(s)
        /\ db' = [db EXCEPT ![a] = PendingRow]
        /\ \A b \in Analyses \ {a} : request'[b] = request[b]
        /\ request'[a] = "accepted"
    BY <1>1, <1>2 DEF CommitRequest, Same, queueVars, sessionVars, TypeOK
  <2>2. db[a] = NoRow
    BY <1>2 DEF IInv, RowInv, CommitRequest
  <2> QED
    BY <2>1, <2>2, AcceptStep
<1>3. CASE \/ RequestAnalysis(a) \/ PublishJob(a)
           \/ PublicationFails(a) \/ CommitRequestFails(a)
  <2>1. /\ \A s \in Sessions : Same(s)
        /\ db' = db
    BY <1>3 DEF RequestAnalysis, PublishJob, PublicationFails, CommitRequestFails,
                Enqueue, Same, queueVars, rowVars, sessionVars
  <2>2. \A b \in Analyses : request'[b] # "accepted" => request[b] # "accepted"
    BY <1>1, <1>3 DEF RequestAnalysis, PublishJob, PublicationFails, CommitRequestFails, TypeOK
  <2> QED
    BY <2>1, <2>2, QuietStep
<1> QED
  BY <1>2, <1>3 DEF Request

LEMMA RedeliverStep ==
    ASSUME IInv, TypeOK', NEW a \in Analyses, Redeliver(a)
    PROVE  IInv'
BY QuietStep DEF Redeliver, RestoreJob, Same, rowVars, sessionVars

-----------------------------------------------------------------------------
(* The canceller *)

LEMMA CancelStepInv ==
    ASSUME IInv, TypeOK', NEW c \in Cancels, Cancel(c)
    PROVE  IInv'
<1>1. TypeOK /\ SessionInv(c) /\ c \in Sessions /\ c \notin Workers /\ RowInv /\ RetryBounded
  BY DEF IInv, Sessions
<1>2. ASSUME NEW a \in Analyses, CancelLoad(c, a)
      PROVE  IInv'
  <2>1. db[a] \in Row /\ pc[c] = "new" /\ ~Dirty(c) /\ ~Open(c) /\ own[c] = NoRow
    BY <1>1, <1>2 DEF TypeOK, CancelLoad, SessionInv, Shape, Open, Dirty
  <2>2. /\ own' = own /\ db' = db /\ request' = request /\ held' = held
    BY <1>2 DEF CancelLoad, rowVars, queueVars
  <2>3. ~Dirty(c)'
    BY <2>1, <2>2 DEF Dirty
  <2>4. CASE db[a].status \in Active /\ Loadable(db[a])
    <3>1. /\ Updating(c, "cancel")
          /\ target' = [target EXCEPT ![c] = a]
          /\ seen' = [seen EXCEPT ![c] = db[a]]
          /\ base' = base
      BY <1>2, <2>4 DEF CancelLoad
    <3>2. /\ pc'[c] = "select" /\ plan'[c] = "cancel" /\ target'[c] = a /\ seen'[c] = db[a]
      BY <1>1, <3>1 DEF Updating, Goto, TypeOK
    <3>3. OnlyBy(c)
      BY <1>1, <2>2, <3>1 DEF Updating, Goto, TypeOK, OnlyBy, Same
    <3>4. /\ ~db[a].done
          /\ db[a].retry <= MaxRetries
          /\ Follows(db[a], db[a])
      BY <1>1, <2>1, <2>4, FollowsReflexive DEF RowInv, RetryBounded, Active, Terminal
    <3>5. Shape(c)'
      BY <1>1, <2>3, <3>2 DEF Shape, Open, CancelStep, Operation
    <3>6. SeenInv(c)' /\ PlanInv(c)' /\ BaseInv(c)' /\ OwnInv(c)' /\ AckInv(c)'
      BY <2>2, <2>3, <2>4, <3>2, <3>4 DEF SeenInv, PlanInv, BaseInv, OwnInv, AckInv
    <3> QED
      BY <1>1, <2>1, <2>2, <3>3, <3>5, <3>6, PrivateStep DEF SessionInv
  <2>5. CASE ~(db[a].status \in Active /\ Loadable(db[a]))
    <3>1. Goto(c, "done") /\ UNCHANGED <<plan, target, seen>> /\ base' = base
      BY <1>2, <2>5 DEF CancelLoad
    <3>2. pc'[c] = "done"
      BY <1>1, <3>1 DEF Goto, TypeOK
    <3>3. OnlyBy(c)
      BY <1>1, <2>2, <3>1 DEF Goto, TypeOK, OnlyBy, Same
    <3>4. SessionInv(c)'
      BY <1>1, <2>1, <2>3, <3>1, <3>2
         DEF SessionInv, Shape, Open, CancelStep, SeenInv, PlanInv, BaseInv, OwnInv, AckInv
    <3> QED
      BY <1>1, <2>1, <2>2, <3>3, <3>4, PrivateStep
  <2> QED
    BY <2>4, <2>5
<1>3. CASE CancelCommit(c) \/ CancelAborts(c)
  <2>1. EndSession(c, "done") /\ held' = held /\ request' = request
    BY <1>3 DEF CancelCommit, CancelAborts, queueVars
  <2>2. OnlyBy(c) /\ own'[c] = NoRow /\ SessionInv(c)'
    BY <1>1, <2>1, EndedSession
  <2>3. CASE CancelCommit(c)
    BY <1>1, <2>1, <2>2, <2>3, CommitStep DEF CancelCommit
  <2>4. CASE CancelAborts(c)
    BY <1>1, <2>1, <2>2, <2>4, PrivateStep DEF CancelAborts
  <2> QED
    BY <1>3, <2>3, <2>4
<1> QED
  BY <1>1, <1>2, <1>3, UpdateSelectStep, UpdateFlushStep DEF Cancel

-----------------------------------------------------------------------------
(* The invariant *)

LEMMA InitInv == Init => IInv
<1> SUFFICES ASSUME Init PROVE IInv
  OBVIOUS
<1>1. NoRow \in Row
  BY DEF NoRow, Row
<1>2. TypeOK
  <2>1. QueueTypeOK
    BY DEF Init, QueueInit, QueueTypeOK
  <2> QED
    BY <1>1, <2>1 DEF Init, TypeOK, WorkerStep, CancelStep, RequestStep
<1>3. \A s \in Sessions : ~Dirty(s) /\ ~Open(s) /\ pc[s] \in {"idle", "new"}
  BY DEF Init, Dirty, Open
<1>4. ASSUME NEW s \in Sessions
      PROVE  SessionInv(s)
  <2>1. Shape(s)
    BY <1>3 DEF Init, QueueInit, Shape, Open, Holding, WorkerStep, CancelStep, Sessions
  <2> QED
    BY <1>3, <2>1 DEF SessionInv, SeenInv, PlanInv, BaseInv, OwnInv, AckInv, Open
<1>5. SingleWriter /\ CompletionReserved
  BY <1>3 DEF SingleWriter, CompletionReserved
<1>6. RowInv /\ RetryBounded /\ UniqueCompleted
  BY DEF Init, NoRow, RowInv, RetryBounded, UniqueCompleted, Terminal, Rivals
<1> QED
  BY <1>2, <1>4, <1>5, <1>6 DEF IInv

LEMMA StepInv == IInv /\ [Next]_vars => IInv'
<1> SUFFICES ASSUME IInv, [Next]_vars
             PROVE  IInv'
  OBVIOUS
<1>1. ASSUME NEW a \in Analyses, Request(a)
      PROVE  IInv'
  BY <1>1, RequestType, RequestStepInv
<1>2. ASSUME NEW c \in Cancels, Cancel(c)
      PROVE  IInv'
  BY <1>2, CancelType, CancelStepInv
<1>3. ASSUME NEW w \in Workers, NEW a \in Analyses, Claim(w, a)
      PROVE  IInv'
  BY <1>3, ClaimType, ClaimStep
<1>4. ASSUME NEW w \in Workers, Process(w)
      PROVE  IInv'
  BY <1>4, WorkerType, ProcessStep
<1>5. ASSUME NEW w \in Workers, Crash(w)
      PROVE  IInv'
  <2>1. TypeOK'
    BY <1>5, DieType DEF IInv, Crash, Inject, TypeOK
  <2> QED
    BY <1>5, <2>1, DieStep DEF Crash
<1>6. ASSUME NEW w \in Workers, Restart(w)
      PROVE  IInv'
  <2>1. TypeOK'
    <3>1. TypeOK /\ w \in Sessions
      BY DEF IInv, Sessions
    <3>2. pc' \in [Sessions -> WorkerStep \union CancelStep]
      BY <1>6, <3>1, GotoType DEF Restart, WorkerStep
    <3> QED
      BY <1>6, <3>1, <3>2 DEF Restart, TypeOK, QueueTypeOK, queueVars, rowVars
  <2> QED
    BY <1>6, <2>1, RestartStep
<1>7. ASSUME NEW a \in Analyses, Redeliver(a)
      PROVE  IInv'
  <2>1. TypeOK'
    BY <1>7 DEF IInv, Redeliver, RestoreJob, TypeOK, QueueTypeOK, rowVars, sessionVars
  <2> QED
    BY <1>7, <2>1, RedeliverStep
<1>8. CASE UNCHANGED vars
  <2>1. TypeOK'
    BY <1>8 DEF IInv, TypeOK, QueueTypeOK, vars
  <2>2. (\A s \in Sessions : Same(s)) /\ db' = db /\ request' = request
    BY <1>8 DEF vars, Same
  <2> QED
    BY <2>1, <2>2, QuietStep
<1> QED
  BY <1>1, <1>2, <1>3, <1>4, <1>5, <1>6, <1>7, <1>8 DEF Next, Quiescent

THEOREM Invariance == Spec => []IInv
<1>1. Init => IInv
  BY InitInv
<1>2. IInv /\ [Next]_vars => IInv'
  BY StepInv
<1> QED
  BY <1>1, <1>2, PTL DEF Spec

-----------------------------------------------------------------------------
(* The theorems *)

\* Every variable keeps its type.
THEOREM TypeCorrect == Spec => []TypeOK
<1>1. IInv => TypeOK
  BY DEF IInv
<1> QED
  BY <1>1, Invariance, PTL

\* No interleaving of requests, workers and cancellations commits a row that
\* get_by_id cannot turn into an entity.
THEOREM AlwaysLoadable == Spec => []RowsLoadable
<1>1. IInv => RowsLoadable
  BY DEF IInv, RowInv, RowsLoadable, Loadable
<1> QED
  BY <1>1, Invariance, PTL

\* However many deliveries and workers a job has, its analysis consumes no more
\* than the configured number of retries before it is finished.
THEOREM RetriesBounded == Spec => []RetryBounded
<1>1. IInv => RetryBounded
  BY DEF IInv
<1> QED
  BY <1>1, Invariance, PTL

\* One asset, analyzer and version never gets two completed analyses.
THEOREM OneResult == Spec => []UniqueCompleted
<1>1. IInv => UniqueCompleted
  BY DEF IInv
<1> QED
  BY <1>1, Invariance, PTL

\* A step writes a row only by a commit, of a later version of it.
LEMMA RowsFollow ==
    ASSUME IInv, [Next]_vars, NEW a \in Analyses
    PROVE  Follows(db[a], db'[a])
<1>1. TypeOK /\ db[a] \in Row
  BY DEF IInv, TypeOK
<1>2. CASE db' = db
  BY <1>1, <1>2, FollowsReflexive
<1>3. ASSUME NEW b \in Analyses, CommitRequest(b)
      PROVE  Follows(db[a], db'[a])
  <2>1. db[b] = NoRow
    BY <1>3 DEF IInv, RowInv, CommitRequest
  <2> QED
    BY <1>1, <1>3, <2>1, FollowsReflexive
       DEF CommitRequest, TypeOK, Follows, NoRow, PendingRow, Terminal
<1>4. ASSUME NEW s \in Sessions, pc[s] = "commit",
             db' = [db EXCEPT ![target[s]] = Visible(s)]
      PROVE  Follows(db[a], db'[a])
  <2>1. target[s] \in Analyses /\ Follows(db[target[s]], Visible(s))
    BY <1>4, CommitFollows
  <2> QED
    BY <1>1, <1>4, <2>1, FollowsReflexive DEF TypeOK
<1>5. ASSUME NEW c \in Cancels, Cancel(c)
      PROVE  db' = db \/ CancelCommit(c)
  BY <1>5 DEF Cancel, CancelLoad, UpdateSelect, UpdateFlush, CancelAborts, rowVars
<1>6. ASSUME NEW w \in Workers, Process(w)
      PROVE  db' = db \/ WorkerCommit(w)
  BY <1>6 DEF Process, LoadAnalysis, SkipAnalysis, LoadFails, UpdateSelect, UpdateFlush,
              StartRejected, CompletionRefused, RetryRejected, AnalyzerReturns,
              AnalyzerRaises, Acknowledge, AcknowledgeRaises, Requeue, rowVars
<1>7. ASSUME NEW b \in Analyses, Request(b)
      PROVE  db' = db \/ CommitRequest(b)
  BY <1>7 DEF Request, RequestAnalysis, PublishJob, PublicationFails, CommitRequestFails,
              rowVars
<1>8. \/ db' = db
      \/ \E b \in Analyses : CommitRequest(b)
      \/ \E c \in Cancels : CancelCommit(c)
      \/ \E w \in Workers : WorkerCommit(w)
  <2>1. CASE UNCHANGED vars
    BY <2>1 DEF vars
  <2>2. CASE \/ \E w \in Workers, b \in Analyses : Claim(w, b)
             \/ \E w \in Workers : Crash(w) \/ Restart(w)
             \/ \E b \in Analyses : Redeliver(b)
    BY <2>2 DEF Claim, Crash, Restart, Redeliver, rowVars
  <2> QED
    BY <1>5, <1>6, <1>7, <2>1, <2>2 DEF Next, Quiescent
<1>9. CASE \E c \in Cancels : CancelCommit(c)
  BY <1>4, <1>9 DEF CancelCommit, Sessions
<1>10. CASE \E w \in Workers : WorkerCommit(w)
  BY <1>4, <1>10 DEF WorkerCommit, Sessions
<1> QED
  BY <1>2, <1>3, <1>8, <1>9, <1>10

\* A finished analysis never becomes pending or running again, whatever a late
\* worker, a duplicated job or a cancellation writes.
THEOREM FinishedStaysFinished == Spec => NeverReopened
<1>1. IInv /\ [Next]_vars =>
        [\A a \in Analyses : db[a].status \in Terminal => db'[a].status \in Terminal]_db
  BY RowsFollow DEF Follows
<1> QED
  BY <1>1, Invariance, PTL DEF Spec, NeverReopened

(***************************************************************************)
(* Where an unfinished analysis loses its last job.                        *)
(***************************************************************************)

\* Worker t is about to commit the end of a.
Ends(t, a) == pc[t] = "commit" /\ target[t] = a /\ Dirty(t) /\ own[t].status \in Terminal

LEMMA CaredKept ==
    ASSUME NEW a, Cared(a),
           InQueue(a) => InQueue(a)',
           \A t \in Workers : Ends(t, a) => Ends(t, a)'
    PROVE  Cared(a)'
BY DEF Cared, Ends

\* What each operation of the broker leaves in the queue.
LEMMA JobsKept ==
    ASSUME QueueTypeOK, NEW a \in Analyses, NEW w \in Workers, InQueue(a),
           \/ AckJob(w) /\ held[w] # a
           \/ DropConsumer(w)
           \/ NackJob(w)
    PROVE  InQueue(a)'
<1>1. PICK v \in Workers : ready[a] > 0 \/ unacked[a] > 0 \/ held[v] = a
  BY DEF InQueue
<1>2. CASE AckJob(w) /\ held[w] # a
  BY <1>1, <1>2 DEF AckJob, InQueue, QueueTypeOK
<1>3. CASE DropConsumer(w)
  <2>1. unacked'[a] = IF a = held[w] THEN unacked[a] + 1 ELSE unacked[a]
    BY <1>3 DEF DropConsumer
  <2>2. ready' = ready /\ held' = [held EXCEPT ![w] = NoAnalysis]
    BY <1>3 DEF DropConsumer
  <2> QED
    BY <1>1, <2>1, <2>2 DEF InQueue, QueueTypeOK
<1>4. CASE NackJob(w)
  <2>1. /\ ready' = [ready EXCEPT ![held[w]] = @ + 1] /\ unacked' = unacked
        /\ held' = [held EXCEPT ![w] = NoAnalysis] /\ held[w] \in Analyses
    BY <1>4 DEF NackJob, QueueTypeOK
  <2>2. ready'[a] >= ready[a] /\ ready'[held[w]] > 0
    BY <2>1 DEF QueueTypeOK
  <2> QED
    BY <1>1, <2>1, <2>2 DEF InQueue, QueueTypeOK
<1> QED
  BY <1>2, <1>3, <1>4

\* A session that is not about to commit the end of a takes no end away, as long as
\* it leaves the other sessions alone.
LEMMA EndsKept ==
    ASSUME NEW a, NEW s \in Sessions, s \in Cancels \/ ~Ends(s, a),
           \A t \in Workers \ {s} : /\ pc'[t] = pc[t] /\ target'[t] = target[t]
                                    /\ own'[t] = own[t],
           NEW t \in Workers, Ends(t, a)
    PROVE  Ends(t, a)'
BY DEF Ends, Dirty

\* The failures that may cost an unfinished analysis its last job.
Window(w, a) ==
    /\ target[w] = a
    /\ LoadFails(w) \/ AcknowledgeRaises(w) \/ (pc[w] = "commit" /\ Crash(w))

LEMMA WorkerLosesJob ==
    ASSUME IInv, NEW w \in Workers, Process(w), NEW a \in Analyses, Cared(a),
           db[a].status \in Active, db'[a].status \in Active
    PROVE  Cared(a)' \/ Window(w, a)
<1>1. /\ TypeOK /\ QueueTypeOK /\ w \in Sessions /\ w \notin Cancels
      /\ Shape(w) /\ AckInv(w)
  BY DEF IInv, SessionInv, TypeOK, Sessions
<1>2. /\ pc \in [Sessions -> WorkerStep \union CancelStep]
      /\ target \in [Sessions -> Analyses \union {NoAnalysis}]
      /\ own \in [Sessions -> Row]
      /\ Workers \subseteq Sessions
  BY <1>1 DEF TypeOK, Sessions
<1>3. ASSUME pc[w] # "commit", InQueue(a) => InQueue(a)',
             \A t \in Workers \ {w} : /\ pc'[t] = pc[t] /\ target'[t] = target[t]
                                      /\ own'[t] = own[t]
      PROVE  Cared(a)'
  <2>1. ~Ends(w, a)
    BY <1>3 DEF Ends
  <2>2. \A t \in Workers : Ends(t, a) => Ends(t, a)'
    BY <1>1, <1>3, <2>1, EndsKept
  <2> QED
    BY <1>3, <2>2, CaredKept
<1>4. held[w] = a => target[w] = a
  BY <1>1 DEF Shape
<1>5. CASE Die(w) /\ pc[w] # "commit"
  <2>1. InQueue(a) => InQueue(a)'
    BY <1>1, <1>5, JobsKept DEF Die
  <2>2. \A t \in Workers \ {w} : /\ pc'[t] = pc[t] /\ target'[t] = target[t]
                                 /\ own'[t] = own[t]
    BY <1>2, <1>5 DEF Die, EndSession, Goto
  <2> QED
    BY <1>3, <1>5, <2>1, <2>2
<1>6. ASSUME pc[w] # "commit", queueVars' = queueVars,
             \A t \in Workers \ {w} : /\ pc'[t] = pc[t] /\ target'[t] = target[t]
                                      /\ own'[t] = own[t]
      PROVE  Cared(a)'
  <2>1. InQueue(a) => InQueue(a)'
    BY <1>6 DEF InQueue, queueVars
  <2> QED
    BY <1>3, <1>6, <2>1
<1>7. CASE LoadAnalysis(w) \/ UpdateSelect(w) \/ UpdateFlush(w)
  BY <1>2, <1>6, <1>7 DEF LoadAnalysis, UpdateSelect, UpdateFlush, CanFlush, Updating, Goto, rowVars
<1>8. CASE AnalyzerReturns(w) \/ AnalyzerRaises(w)
  <2>1. pc[w] # "commit"
    BY <1>8 DEF AnalyzerReturns, AnalyzerRaises
  <2>2. CASE Die(w)
    BY <1>5, <2>1, <2>2
  <2>3. CASE ~ Die(w)
    BY <1>2, <1>6, <1>8, <2>1, <2>3
       DEF AnalyzerReturns, AnalyzerRaises, HandleFailure, Updating, Goto, rowVars
  <2> QED
    BY <2>2, <2>3
<1>9. CASE StartRejected(w) \/ CompletionRefused(w) \/ RetryRejected(w)
  <2>1. pc[w] # "commit"
    BY <1>9 DEF StartRejected, CompletionRefused, RetryRejected, CanFlush
  <2>2. CASE Die(w)
    BY <1>5, <2>1, <2>2
  <2>3. CASE ~ Die(w)
    BY <1>2, <1>6, <1>9, <2>1, <2>3
       DEF StartRejected, CompletionRefused, RetryRejected, HandleFailure, Updating, Goto
  <2> QED
    BY <2>2, <2>3
<1>10. CASE SkipAnalysis(w)
  <2>1. held[w] # a
    <3>1. db[a].done => db[a].status \in Terminal
      BY DEF IInv, RowInv
    <3>2. target[w] # a
      BY <1>10, <3>1 DEF SkipAnalysis, Loadable, Active, Terminal
    <3> QED
      BY <1>4, <3>2
  <2>2. InQueue(a) => InQueue(a)'
    BY <1>1, <1>10, <2>1, JobsKept DEF SkipAnalysis
  <2> QED
    BY <1>2, <1>3, <1>10, <2>2 DEF SkipAnalysis, Goto, rowVars
<1>11. CASE LoadFails(w)
  <2>1. CASE target[w] = a
    BY <1>11, <2>1 DEF Window
  <2>2. CASE target[w] # a
    <3>1. InQueue(a) => InQueue(a)'
      BY <1>1, <1>4, <1>11, <2>2, JobsKept DEF LoadFails
    <3> QED
      BY <1>2, <1>3, <1>11, <3>1 DEF LoadFails, Goto, rowVars
  <2> QED
    BY <2>1, <2>2
<1>12. CASE AcknowledgeRaises(w)
  <2>1. CASE target[w] = a
    BY <1>12, <2>1 DEF Window
  <2>2. CASE target[w] # a
    <3>1. InQueue(a) => InQueue(a)'
      BY <1>1, <1>4, <1>12, <2>2, JobsKept DEF AcknowledgeRaises
    <3> QED
      BY <1>2, <1>3, <1>12, <3>1
         DEF AcknowledgeRaises, HandleFailure, EndSession, Updating, Goto
  <2> QED
    BY <2>1, <2>2
<1>13. CASE Acknowledge(w)
  <2>1. CASE target[w] = a
    <3>1. Dirty(w) /\ own[w].status \in Terminal
      BY <1>1, <1>13 DEF Acknowledge, AckInv
    <3>2. pc'[w] = "commit" /\ target'[w] = a /\ own'[w] = own[w]
      BY <1>1, <1>2, <1>13, <2>1 DEF Acknowledge, Goto, rowVars
    <3> QED
      BY <3>1, <3>2 DEF Cared, Dirty
  <2>2. CASE target[w] # a
    <3>1. InQueue(a) => InQueue(a)'
      BY <1>1, <1>4, <1>13, <2>2, JobsKept DEF Acknowledge
    <3> QED
      BY <1>2, <1>3, <1>13, <3>1 DEF Acknowledge, Goto, rowVars
  <2> QED
    BY <2>1, <2>2
<1>14. CASE Requeue(w)
  <2>1. InQueue(a) => InQueue(a)'
    BY <1>1, <1>14, JobsKept DEF Requeue
  <2> QED
    BY <1>2, <1>3, <1>14, <2>1 DEF Requeue, Goto, rowVars
<1>15. CASE WorkerCommit(w)
  <2>1. InQueue(a) => InQueue(a)'
    BY <1>15 DEF WorkerCommit, InQueue, queueVars
  <2>2. ~Ends(w, a)
    <3>1. ASSUME Ends(w, a) PROVE FALSE
      <4>1. db'[a] = own[w]
        BY <1>1, <1>15, <3>1 DEF WorkerCommit, Ends, Visible, TypeOK
      <4> QED
        BY <3>1, <4>1 DEF Ends, Active, Terminal
    <3> QED
      BY <3>1
  <2>3. \A t \in Workers \ {w} : /\ pc'[t] = pc[t] /\ target'[t] = target[t]
                                 /\ own'[t] = own[t]
    BY <1>2, <1>15 DEF WorkerCommit, EndSession, Goto
  <2>4. \A t \in Workers : Ends(t, a) => Ends(t, a)'
    BY <1>1, <2>2, <2>3, EndsKept
  <2> QED
    BY <2>1, <2>4, CaredKept
<1> QED
  BY <1>7, <1>8, <1>9, <1>10, <1>11, <1>12, <1>13, <1>14, <1>15 DEF Process

\* An analysis that is not finished loses its last job only in three windows: a read
\* that raises, an acknowledgement that raises, and a crash between the acknowledgement
\* and the commit (worker.py:104 and :125, workers/analysis_worker/__main__.py:142).
THEOREM JobsAreLostOnlyInWindows == Spec => JobsLostOnlyInWindows
<1>1. ASSUME IInv, Next, NEW a \in Analyses, Cared(a),
             db[a].status \in Active, db'[a].status \in Active, ~Cared(a)'
      PROVE  \E w \in Workers : Window(w, a)
  <2>1. /\ TypeOK /\ QueueTypeOK
        /\ pc \in [Sessions -> WorkerStep \union CancelStep]
        /\ target \in [Sessions -> Analyses \union {NoAnalysis}]
        /\ own \in [Sessions -> Row]
        /\ Workers \subseteq Sessions /\ Cancels \subseteq Sessions
        /\ Workers \intersect Cancels = {}
    BY <1>1 DEF IInv, TypeOK, Sessions
  <2>2. ASSUME InQueue(a) => InQueue(a)',
               \A t \in Workers : Ends(t, a) => Ends(t, a)'
        PROVE  FALSE
    BY <1>1, <2>2, CaredKept
  <2>3. ASSUME NEW b \in Analyses, Request(b) PROVE FALSE
    <3>1. \/ queueVars' = queueVars
          \/ \E n \in Nat : Enqueue(b, n)
      BY <2>3, QueueAssumption DEF Request, RequestAnalysis, PublishJob, PublicationFails, CommitRequest,
                  CommitRequestFails
    <3>2. UNCHANGED <<pc, target, own>>
      BY <2>3 DEF Request, RequestAnalysis, PublishJob, PublicationFails, CommitRequest,
                  CommitRequestFails, sessionVars, rowVars
    <3>3. InQueue(a) => InQueue(a)'
      BY <2>1, <3>1 DEF InQueue, Enqueue, QueueTypeOK, queueVars
    <3> QED
      BY <2>2, <3>2, <3>3 DEF Ends, Dirty
  <2>4. ASSUME NEW c \in Cancels, Cancel(c) PROVE FALSE
    <3>1. queueVars' = queueVars
      BY <2>4 DEF Cancel, CancelLoad, UpdateSelect, UpdateFlush, CancelCommit, CancelAborts
    <3>2. \A t \in Workers \ {c} : /\ pc'[t] = pc[t] /\ target'[t] = target[t]
                                   /\ own'[t] = own[t]
      BY <2>1, <2>4 DEF Cancel, CancelLoad, UpdateSelect, UpdateFlush, CancelCommit, CancelAborts,
                        Updating, EndSession, Goto, rowVars
    <3>3. \A t \in Workers : Ends(t, a) => Ends(t, a)'
      BY <2>1, <3>2, EndsKept
    <3> QED
      BY <2>2, <3>1, <3>3 DEF InQueue, queueVars
  <2>5. ASSUME NEW w \in Workers, NEW b \in Analyses, Claim(w, b) PROVE FALSE
    <3>1. InQueue(a) => InQueue(a)'
      BY <2>1, <2>5, QueueAssumption DEF Claim, ClaimJob, InQueue, QueueTypeOK
    <3>2. ~Ends(w, a)
      BY <2>5 DEF Claim, Ends
    <3>3. \A t \in Workers \ {w} : /\ pc'[t] = pc[t] /\ target'[t] = target[t]
                                   /\ own'[t] = own[t]
      BY <2>1, <2>5 DEF Claim, Goto, rowVars
    <3>4. \A t \in Workers : Ends(t, a) => Ends(t, a)'
      BY <2>1, <3>2, <3>3, EndsKept
    <3> QED
      BY <2>2, <3>1, <3>4
  <2>6. ASSUME NEW w \in Workers, Process(w) PROVE Window(w, a)
    BY <1>1, <2>6, WorkerLosesJob
  <2>7. ASSUME NEW w \in Workers, Crash(w) PROVE Window(w, a)
    <3>1. InQueue(a) => InQueue(a)'
      BY <2>1, <2>7, JobsKept DEF Crash, Die
    <3>2. \A t \in Workers \ {w} : /\ pc'[t] = pc[t] /\ target'[t] = target[t]
                                   /\ own'[t] = own[t]
      BY <2>1, <2>7 DEF Crash, Die, EndSession, Goto
    <3>3. ASSUME ~Ends(w, a) PROVE FALSE
      <4>1. \A t \in Workers : Ends(t, a) => Ends(t, a)'
        BY <2>1, <3>2, <3>3, EndsKept
      <4> QED
        BY <2>2, <3>1, <4>1
    <3> QED
      BY <2>7, <3>3 DEF Window, Ends
  <2>8. ASSUME NEW w \in Workers, Restart(w) PROVE FALSE
    <3>1. /\ queueVars' = queueVars /\ target' = target /\ own' = own
          /\ pc' = [pc EXCEPT ![w] = "idle"] /\ pc[w] = "dead"
      BY <2>8 DEF Restart, Goto, rowVars
    <3>2. \A t \in Workers : Ends(t, a) => Ends(t, a)'
      BY <2>1, <3>1 DEF Ends, Dirty
    <3> QED
      BY <2>2, <3>1, <3>2 DEF InQueue, queueVars
  <2>9. ASSUME NEW b \in Analyses, Redeliver(b) PROVE FALSE
    <3>1. InQueue(a) => InQueue(a)'
      BY <2>1, <2>9 DEF Redeliver, RestoreJob, InQueue, QueueTypeOK
    <3> QED
      BY <2>2, <2>9, <3>1 DEF Redeliver, sessionVars, rowVars, Ends, Dirty
  <2>10. ASSUME UNCHANGED vars PROVE FALSE
    BY <2>2, <2>10 DEF vars, InQueue, Ends, Dirty
  <2> QED
    BY <1>1, <2>3, <2>4, <2>5, <2>6, <2>7, <2>8, <2>9, <2>10 DEF Next, Quiescent
<1>2. IInv /\ [Next]_vars =>
        [\A a \in Analyses :
           db[a].status \in Active /\ db'[a].status \in Active /\ Cared(a) /\ ~Cared(a)'
              => \E w \in Workers :
                    /\ target[w] = a
                    /\ LoadFails(w) \/ AcknowledgeRaises(w)
                         \/ (pc[w] = "commit" /\ Crash(w))]_vars
  BY <1>1 DEF Window
<1> QED
  BY <1>2, Invariance, PTL DEF Spec, JobsLostOnlyInWindows

(***************************************************************************)
(* Nobody waits in a circle: whoever waits, waits for a session that does  *)
(* not, or for one that waits for such a session.                          *)
(***************************************************************************)

\* Who has written a row waits for no row, and who holds an index entry for none.
LEMMA EntryHolderRuns ==
  ASSUME IInv, NEW t \in Sessions, Dirty(t),
         "completed" \in {own[t].status, db[target[t]].status}
  PROVE  ~Waits(t)
<1> SUFFICES ASSUME Waits(t) PROVE FALSE
  OBVIOUS
<1>1. ~LockedByOther(t)
  BY DEF LockedByOther, IInv, SingleWriter
<1>2. PICK u \in Sessions \ {t} :
         /\ target[u] \in Rivals(target[t])
         /\ Dirty(u)
         /\ "completed" \in {own[u].status, db[target[u]].status}
  BY <1>1 DEF Waits, CanFlush, KeyInFlight
<1>3. target[t] \in Analyses
  BY DEF IInv, SessionInv, Shape
<1>4. target[u] \in Analyses /\ target[t] \in Rivals(target[u])
  BY <1>2, <1>3 DEF Rivals
<1>5. CASE own[t].status = "completed"
  BY <1>2, <1>5 DEF IInv, CompletionReserved
<1>6. CASE db[target[t]].status = "completed"
  <2>1. db[target[u]].status # "completed"
    BY <1>2, <1>3, <1>6 DEF IInv, UniqueCompleted
  <2>2. own[u].status = "completed"
    BY <1>2, <2>1
  <2> QED
    BY <1>2, <1>4, <1>6, <2>2 DEF IInv, CompletionReserved
<1> QED
  BY <1>5, <1>6

LEMMA WriterWaitsForEntry ==
  ASSUME IInv, NEW t \in Sessions, Dirty(t), Waits(t)
  PROVE  \E u \in Sessions : Open(u) /\ ~Waits(u)
<1>1. ~LockedByOther(t)
  BY DEF LockedByOther, IInv, SingleWriter
<1>2. PICK u \in Sessions \ {t} :
         Dirty(u) /\ "completed" \in {own[u].status, db[target[u]].status}
  BY <1>1 DEF Waits, CanFlush, KeyInFlight
<1> QED
  BY <1>2, EntryHolderRuns DEF IInv, SessionInv, Shape

\* However many workers and cancel requests there are, one that has a transaction open
\* is not kept waiting by another (update, repositories/base.py:372-391).
THEOREM PipelineNeverDeadlocks == Spec => []NoCircularWait
<1>1. ASSUME IInv, NEW s \in Sessions, Waits(s)
      PROVE  \E u \in Sessions : Open(u) /\ ~Waits(u)
  <2>1. CASE LockedByOther(s)
    <3>1. PICK t \in Sessions : Dirty(t)
      BY <2>1 DEF LockedByOther
    <3>2. Open(t)
      BY <1>1, <3>1 DEF IInv, SessionInv, Shape
    <3> QED
      BY <1>1, <3>1, <3>2, WriterWaitsForEntry
  <2>2. CASE ~LockedByOther(s)
    <3>1. PICK t \in Sessions :
             Dirty(t) /\ "completed" \in {own[t].status, db[target[t]].status}
      BY <1>1, <2>2 DEF Waits, CanFlush, KeyInFlight
    <3> QED
      BY <1>1, <3>1, EntryHolderRuns DEF IInv, SessionInv, Shape
  <2> QED
    BY <2>1, <2>2
<1>2. IInv => NoCircularWait
  BY <1>1 DEF NoCircularWait
<1> QED
  BY <1>2, Invariance, PTL
=============================================================================
