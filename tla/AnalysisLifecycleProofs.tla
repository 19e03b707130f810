------------------------ MODULE AnalysisLifecycleProofs ------------------------
(***************************************************************************)
(* Proof that AnalysisPipeline implements AnalysisLifecycle, for every     *)
(* number of analyses and workers, when jobs are delivered one at a time:  *)
(* no cancellations, no duplicated publications, and no acknowledgement    *)
(* that raises; crashes, failing reads and failing commits are allowed.    *)
(*                                                                         *)
(* Even then two workers can be busy with one analysis: the job is given   *)
(* back before the attempt is committed, and whoever claims it next reads  *)
(* the row as it was before that attempt.  AttemptsInv says how far it can *)
(* be behind.  It is inductive together with IInv.                         *)
(*                                                                         *)
(* The second part proves that a running analysis always has a job, or a   *)
(* worker about to finish it, for every number of analyses, workers,       *)
(* cancellations and copies, as long as nothing fails but the commits of   *)
(* requests.                                                               *)
(***************************************************************************)
EXTENDS AnalysisPipelineProofs

OneDelivery ==
    /\ Cancels = {}
    /\ MaxCopies = 1
    /\ "broker" \notin Faults

-----------------------------------------------------------------------------
(* The strengthening of IInv *)

NoCopy(a) == ready[a] = 0 /\ unacked[a] = 0

\* No job for `a` is known to the broker.
Unclaimed(a) == NoCopy(a) /\ \A w \in Workers : held[w] # a

\* A job is queued, or lost with its consumer, or held by one worker.
SoleCopy ==
    \A a \in Analyses :
        /\ ready[a] + unacked[a] <= 1
        /\ request[a] \in {"new", "replayed", "inserted"} => Unclaimed(a)
        /\ \A w \in Workers : held[w] = a =>
              NoCopy(a) /\ \A v \in Workers : held[v] = a => v = w

\* At work on an attempt: the entity was loaded, the outcome is not written.
Attempting(w) == pc[w] \in {"select", "flush", "analyze"}

\* A worker that found an active row may be one attempt behind the committed
\* row, and then that attempt left it running.
Behind(w) ==
    /\ Holding(w) => held[w] = target[w]
    /\ Attempting(w) =>
        /\ db[target[w]].status \in Active
        /\ db[target[w]].retry \in {seen[w].retry, NextRetry(seen[w])}
        /\ db[target[w]].retry = NextRetry(seen[w]) => db[target[w]].status = "running"
        /\ Dirty(w) => own[w].status = "running" /\ own[w].retry = db[target[w]].retry
    /\ pc[w] = "flush" /\ ~Dirty(w) =>
        /\ base[w].status \in Active
        /\ base[w].retry \in {seen[w].retry, db[target[w]].retry}
    /\ pc[w] \in {"select", "flush"} /\ plan[w] = "exhaust" =>
        NextRetry(seen[w]) > MaxRetries

\* What an attempt may make of a row: another one is due, the analysis is
\* finished, or the attempt had been counted already.
Outcome(row, version) ==
    /\ row.status \in Active
    /\ \/ /\ version.status = "running"
          /\ \/ version.retry = row.retry /\ row.status = "running"
             \/ version.retry = row.retry + 1 /\ version.retry <= MaxRetries
       \/ /\ version.status \in {"completed", "failed"}
          /\ version.retry = row.retry
       \/ /\ version.status = "failed"
          /\ version.retry = row.retry + 1
          /\ row.retry = MaxRetries

\* An attempt that is written: once it is finished, nobody works on it again.
Written(w) ==
    /\ pc[w] \in {"ack", "nack"} => Dirty(w)
    /\ pc[w] = "nack" => own[w].status = "running"
    /\ pc[w] \in {"ack", "nack", "commit"} /\ Dirty(w) => Outcome(db[target[w]], own[w])
    /\ pc[w] = "commit" /\ Dirty(w) /\ own[w].status \in Terminal => Unclaimed(target[w])

\* The other worker with a version of the row is about to commit an attempt that
\* was not the last, and the row is still the one that was read.
HandedOver(w) ==
    \A v \in Workers \ {w} :
        Holding(w) /\ Dirty(v) /\ target[v] = target[w] =>
            /\ own[v].status = "running"
            /\ Attempting(w) => db[target[w]].retry = seen[w].retry

AttemptsInv ==
    /\ SoleCopy
    /\ \A w \in Workers : Behind(w) /\ Written(w) /\ HandedOver(w)

-----------------------------------------------------------------------------
(* Facts the steps have in common *)

USE MaxRetriesAssumption, QueueAssumption, PipelineAssumption

\* Without cancellations the workers are the only sessions.
LEMMA OnlyWorkers ==
    ASSUME OneDelivery
    PROVE  Sessions = Workers
BY DEF OneDelivery, Sessions

\* What IInv says of one worker, for citing.
LEMMA WorkerFacts ==
    ASSUME IInv, NEW w \in Workers
    PROVE  /\ TypeOK /\ QueueTypeOK
           /\ w \in Sessions /\ w \notin Cancels
           /\ Shape(w) /\ SeenInv(w) /\ PlanInv(w) /\ BaseInv(w) /\ OwnInv(w) /\ AckInv(w)
           /\ own[w] \in Row /\ seen[w] \in Row /\ base[w] \in Row
           /\ Open(w) => target[w] \in Analyses /\ db[target[w]] \in Row
<1>1. w \in Sessions /\ w \notin Cancels
  BY DEF Sessions
<1>2. SessionInv(w) /\ TypeOK /\ QueueTypeOK
  BY <1>1 DEF IInv, TypeOK
<1> QED
  BY <1>1, <1>2 DEF SessionInv, Shape, TypeOK

\* A worker in a transaction holds its job, or has given it back.
LEMMA HolderOrCommitting ==
    ASSUME IInv, NEW w \in Workers, Dirty(w)
    PROVE  Open(w) /\ (Holding(w) \/ pc[w] = "commit")
BY WorkerFacts DEF Shape, Holding

\* Whoever has written a row that somebody else works on has given the job back.
LEMMA OneHolder ==
    ASSUME IInv, AttemptsInv, NEW w \in Workers, NEW v \in Workers,
           Holding(w), Holding(v), target[v] = target[w]
    PROVE  v = w
<1>1. target[w] \in Analyses
  BY WorkerFacts DEF Holding
<1> QED
  BY <1>1 DEF AttemptsInv, SoleCopy, Behind

-----------------------------------------------------------------------------
(* The broker *)

\* What consumers and transport do keeps one copy one copy, and brings none back.
LEMMA QueueStep ==
    ASSUME IInv, SoleCopy, request' = request,
           \/ UNCHANGED queueVars
           \/ \E w \in Workers : \/ AckJob(w) \/ NackJob(w) \/ DropConsumer(w)
                                 \/ \E a \in Analyses : ClaimJob(w, a)
           \/ \E a \in Analyses : RestoreJob(a)
    PROVE  SoleCopy' /\ \A a \in Analyses : Unclaimed(a) => Unclaimed(a)'
<1> USE DEF SoleCopy, Unclaimed, NoCopy
<1>1. QueueTypeOK
  BY DEF IInv, TypeOK
<1>2. CASE UNCHANGED queueVars
  BY <1>2 DEF queueVars
<1>3. ASSUME NEW w \in Workers, AckJob(w)
      PROVE  SoleCopy' /\ \A a \in Analyses : Unclaimed(a) => Unclaimed(a)'
  BY <1>1, <1>3 DEF AckJob, QueueTypeOK
<1>4. ASSUME NEW w \in Workers, NackJob(w)
      PROVE  SoleCopy' /\ \A a \in Analyses : Unclaimed(a) => Unclaimed(a)'
  <2>1. /\ held[w] \in Analyses
        /\ ready' = [ready EXCEPT ![held[w]] = @ + 1]
        /\ held' = [held EXCEPT ![w] = NoAnalysis]
        /\ unacked' = unacked
    BY <1>1, <1>4 DEF NackJob, QueueTypeOK
  <2> QED
    BY <1>1, <2>1 DEF QueueTypeOK
<1>5. ASSUME NEW w \in Workers, DropConsumer(w)
      PROVE  SoleCopy' /\ \A a \in Analyses : Unclaimed(a) => Unclaimed(a)'
  BY <1>1, <1>5 DEF DropConsumer, QueueTypeOK
<1>6. ASSUME NEW w \in Workers, NEW b \in Analyses, ClaimJob(w, b)
      PROVE  SoleCopy' /\ \A a \in Analyses : Unclaimed(a) => Unclaimed(a)'
  <2>1. /\ ready' = [ready EXCEPT ![b] = @ - 1]
        /\ held' = [held EXCEPT ![w] = b]
        /\ unacked' = unacked
        /\ ready[b] > 0
    BY <1>6 DEF ClaimJob
  <2>2. /\ ready[b] = 1 /\ unacked[b] = 0
        /\ request[b] \notin {"new", "replayed", "inserted"}
        /\ \A v \in Workers : held[v] # b
    BY <1>1, <2>1 DEF QueueTypeOK
  <2>3. \A a \in Analyses : Unclaimed(a) => Unclaimed(a)'
    BY <1>1, <2>1, <2>2 DEF QueueTypeOK
  <2>4. ASSUME NEW a \in Analyses
        PROVE  /\ ready'[a] + unacked'[a] <= 1
               /\ \A v \in Workers : held'[v] = a =>
                     ready'[a] = 0 /\ unacked'[a] = 0 /\ \A u \in Workers : held'[u] = a => u = v
    <3>1. CASE a = b
      BY <1>1, <2>1, <2>2, <3>1 DEF QueueTypeOK
    <3>2. CASE a # b
      BY <1>1, <2>1, <3>2 DEF QueueTypeOK
    <3> QED
      BY <3>1, <3>2
  <2>5. \A a \in Analyses : request'[a] \in {"new", "replayed", "inserted"} => Unclaimed(a)'
    BY <2>3
  <2> QED
    BY <2>3, <2>4, <2>5
<1>7. ASSUME NEW b \in Analyses, RestoreJob(b)
      PROVE  SoleCopy' /\ \A a \in Analyses : Unclaimed(a) => Unclaimed(a)'
  BY <1>1, <1>7 DEF RestoreJob, QueueTypeOK
<1> QED
  BY <1>2, <1>3, <1>4, <1>5, <1>6, <1>7

\* A job is published once, before its row is accepted.
LEMMA PublicationStep ==
    ASSUME IInv, OneDelivery, SoleCopy, NEW a \in Analyses, Request(a)
    PROVE  /\ SoleCopy'
           /\ \A b \in Analyses : Unclaimed(b) /\ request[b] = "accepted" => Unclaimed(b)'
<1> USE DEF SoleCopy, Unclaimed, NoCopy
<1>1. QueueTypeOK /\ request \in [Analyses -> RequestStep]
  BY DEF IInv, TypeOK
<1>2. CASE PublishJob(a) \/ PublicationFails(a)
  <2>1. PICK n \in {0, 1} : Enqueue(a, n)
    BY <1>2 DEF PublishJob, PublicationFails, OneDelivery
  <2>2. /\ request[a] = "inserted"
        /\ request' \in {[request EXCEPT ![a] = "published"], [request EXCEPT ![a] = "refused"]}
    BY <1>2 DEF PublishJob, PublicationFails
  <2>3. /\ ready' = [ready EXCEPT ![a] = @ + n] /\ held' = held /\ unacked' = unacked
        /\ ready[a] = 0 /\ unacked[a] = 0
        /\ \A w \in Workers : held[w] # a
    BY <2>1, <2>2 DEF Enqueue
  <2> QED
    BY <1>1, <2>2, <2>3 DEF QueueTypeOK
<1>3. CASE RequestAnalysis(a) \/ CommitRequest(a) \/ CommitRequestFails(a)
  <2>1. /\ ready' = ready /\ held' = held /\ unacked' = unacked
        /\ request[a] \in {"new", "published"}
        /\ request[a] = "new" => request' \in {[request EXCEPT ![a] = "replayed"],
                                               [request EXCEPT ![a] = "inserted"]}
        /\ request[a] = "published" => request' \in {[request EXCEPT ![a] = "accepted"],
                                                     [request EXCEPT ![a] = "lost"]}
    BY <1>3 DEF RequestAnalysis, CommitRequest, CommitRequestFails, queueVars
  <2> QED
    BY <1>1, <2>1 DEF QueueTypeOK
<1> QED
  BY <1>2, <1>3 DEF Request

-----------------------------------------------------------------------------
(* Workers that do not act *)

\* A worker keeps its invariants when its row is not written and nobody joins
\* those who have a version of it.
LEMMA Onlooker ==
    ASSUME IInv, AttemptsInv, NEW v \in Workers, Same(v),
           \A u \in Workers \ {v} :
               Holding(v) /\ Dirty(u)' /\ target'[u] = target[v] =>
                   Dirty(u) /\ target[u] = target[v] /\ own'[u] = own[u],
           \A a \in Analyses : a = target[v] /\ db[a].status # "absent" =>
               /\ db'[a] = db[a]
               /\ Unclaimed(a) => Unclaimed(a)'
    PROVE  Behind(v)' /\ Written(v)' /\ HandedOver(v)'
<1>1. Behind(v) /\ Written(v) /\ HandedOver(v)
  BY DEF AttemptsInv
<1>2. /\ own'[v] = own[v] /\ pc'[v] = pc[v] /\ target'[v] = target[v] /\ seen'[v] = seen[v]
      /\ base'[v] = base[v] /\ plan'[v] = plan[v] /\ held'[v] = held[v]
      /\ Dirty(v)' <=> Dirty(v)
      /\ Holding(v)' <=> Holding(v)
      /\ Attempting(v)' <=> Attempting(v)
  BY DEF Same, Dirty, Holding, Open, Attempting
<1>3. Attempting(v) \/ Dirty(v) => /\ target[v] \in Analyses
                                   /\ db[target[v]].status # "absent"
                                   /\ db'[target[v]] = db[target[v]]
  BY WorkerFacts DEF Attempting, Shape, Open, OwnInv, SeenInv, Follows, Active
<1>4. pc[v] = "flush" => Attempting(v)
  BY DEF Attempting
<1>5. Behind(v)'
  BY <1>1, <1>2, <1>3, <1>4 DEF Behind
<1>6. Written(v)'
  <2>1. ASSUME NEW b, b = target[v]
        PROVE  Unclaimed(target[v])' <=> Unclaimed(b)'
    BY <1>2, <2>1 DEF Unclaimed, NoCopy
  <2>2. Dirty(v) /\ Unclaimed(target[v]) => Unclaimed(target[v])'
    BY <1>3, <2>1
  <2> QED
    BY <1>1, <1>2, <1>3, <2>2 DEF Written
<1>7. HandedOver(v)'
  BY <1>1, <1>2, <1>3 DEF HandedOver
<1> QED
  BY <1>5, <1>6, <1>7

\* A step of worker w that commits nothing is none of the others' business.
LEMMA OthersKeep ==
    ASSUME IInv, AttemptsInv, OneDelivery, NEW w \in Workers, OnlyBy(w), db' = db,
           \A a \in Analyses : Unclaimed(a) => Unclaimed(a)',
           Dirty(w)' => /\ target'[w] = target[w]
                        /\ Holding(w) \/ (Dirty(w) /\ own'[w] = own[w])
    PROVE  \A v \in Workers \ {w} : Behind(v)' /\ Written(v)' /\ HandedOver(v)'
<1> SUFFICES ASSUME NEW v \in Workers \ {w}
             PROVE  Behind(v)' /\ Written(v)' /\ HandedOver(v)'
  OBVIOUS
<1>1. \A u \in Workers \ {w} : Same(u)
  BY OnlyWorkers DEF OnlyBy
<1>2. ASSUME NEW u \in Workers \ {v}, Holding(v), Dirty(u)', target'[u] = target[v]
      PROVE  Dirty(u) /\ target[u] = target[v] /\ own'[u] = own[u]
  <2>1. CASE u = w
    BY <1>2, <2>1, OneHolder
  <2>2. CASE u # w
    BY <1>1, <1>2, <2>2 DEF Same, Dirty
  <2> QED
    BY <2>1, <2>2
<1> QED
  BY <1>1, <1>2, Onlooker

\* A worker that ends, or begins to commit nothing, has nothing to keep.
LEMMA IdleKeeps ==
    ASSUME NEW w \in Workers, pc'[w] \in {"idle", "dead"}
    PROVE  Behind(w)' /\ Written(w)' /\ HandedOver(w)'
BY DEF Behind, Written, HandedOver, Holding, Open, Attempting

\* The worker's version becomes the row: whoever claimed the job in the meantime
\* is one attempt behind from now on.
LEMMA OvertakenKeeps ==
    ASSUME IInv, AttemptsInv, NEW w \in Workers, NEW v \in Workers \ {w},
           pc[w] = "commit", Dirty(w), target[v] = target[w],
           db' = [db EXCEPT ![target[w]] = own[w]],
           \A u \in Workers \ {w} : Same(u), own'[w] = NoRow
    PROVE  Behind(v)' /\ Written(v)' /\ HandedOver(v)'
<1>1. /\ TypeOK /\ w \in Sessions /\ v \in Sessions
      /\ target[w] \in Analyses /\ own[w] \in Row /\ db[target[w]] \in Row
      /\ seen[v] \in Row /\ base[v] \in Row
  BY WorkerFacts DEF Open
<1>2. /\ own'[v] = own[v] /\ pc'[v] = pc[v] /\ target'[v] = target[v] /\ seen'[v] = seen[v]
      /\ base'[v] = base[v] /\ plan'[v] = plan[v] /\ held'[v] = held[v]
      /\ db'[target'[v]] = own[w]
  BY <1>1 DEF Same, TypeOK
<1>3. ~Dirty(v)
  BY <1>1 DEF IInv, SingleWriter
<1>4. ~Dirty(v)' /\ (Holding(v)' <=> Holding(v)) /\ (Attempting(v)' <=> Attempting(v))
  BY <1>2, <1>3 DEF Dirty, Holding, Open, Attempting
<1>5. /\ Behind(v) /\ Written(v) /\ Outcome(db[target[w]], own[w])
      /\ Holding(v) => own[w].status = "running"
      /\ Attempting(v) => Holding(v) /\ db[target[w]].retry = seen[v].retry
  BY DEF AttemptsInv, Written, HandedOver, Attempting, Holding, Open
<1>6. Attempting(v) => /\ own[w].status = "running"
                       /\ own[w].retry \in {seen[v].retry, NextRetry(seen[v])}
                       /\ pc[v] = "flush" => base[v].status \in Active
                                             /\ base[v].retry = seen[v].retry
  BY <1>1, <1>3, <1>5 DEF Outcome, Behind, NextRetry, Row
<1>7. Behind(v)'
  BY <1>2, <1>4, <1>5, <1>6 DEF Behind, Attempting, Active
<1>8. Written(v)'
  BY <1>2, <1>3, <1>4, <1>5 DEF Written
<1>9. ASSUME NEW u \in Workers \ {v}, Dirty(u)', target'[u] = target[v]
      PROVE  FALSE
  <2>1. u # w
    BY <1>9 DEF Dirty
  <2>2. Dirty(u) /\ target[u] = target[w] /\ u \in Sessions
    BY <1>9, <2>1 DEF Dirty, Same, Sessions
  <2> QED
    BY <1>1, <2>1, <2>2 DEF IInv, SingleWriter
<1>10. HandedOver(v)'
  BY <1>2, <1>9 DEF HandedOver
<1> QED
  BY <1>7, <1>8, <1>10

LEMMA CommitKeeps ==
    ASSUME IInv, AttemptsInv, OneDelivery, NEW w \in Workers, WorkerCommit(w)
    PROVE  AttemptsInv'
<1>1. /\ TypeOK /\ pc[w] = "commit" /\ w \in Sessions /\ Shape(w)
      /\ target[w] \in Analyses
  BY WorkerFacts DEF WorkerCommit, Open
<1>2. /\ own'[w] = NoRow /\ pc'[w] = "idle" /\ target'[w] = NoAnalysis
      /\ request' = request /\ UNCHANGED queueVars
      /\ db' = [db EXCEPT ![target[w]] = Visible(w)]
  BY <1>1 DEF WorkerCommit, EndSession, Goto, TypeOK
<1>3. OnlyBy(w)
  BY <1>1 DEF WorkerCommit, EndSession, Goto, TypeOK, OnlyBy, Same, queueVars
<1>4. SoleCopy' /\ \A a \in Analyses : Unclaimed(a) => Unclaimed(a)'
  BY <1>2, QueueStep DEF AttemptsInv
<1>5. Behind(w)' /\ Written(w)' /\ HandedOver(w)'
  BY <1>2, IdleKeeps
<1>6. ~Dirty(w)'
  BY <1>2 DEF Dirty
<1>7. \A u \in Workers \ {w} : Same(u)
  BY <1>3, OnlyWorkers DEF OnlyBy
<1>8. ASSUME NEW v \in Workers \ {w}
      PROVE  Behind(v)' /\ Written(v)' /\ HandedOver(v)'
  <2>1. CASE ~Dirty(w)
    <3>1. db' = db
      BY <1>1, <1>2, <2>1 DEF Visible, TypeOK
    <3> QED
      BY <1>3, <1>4, <1>6, <3>1, OthersKeep
  <2>2. CASE Dirty(w) /\ target[v] = target[w]
    <3>1. db' = [db EXCEPT ![target[w]] = own[w]]
      BY <1>2, <2>2 DEF Visible
    <3> QED
      BY <1>1, <1>2, <1>7, <2>2, <3>1, OvertakenKeeps
  <2>3. CASE target[v] # target[w]
    <3>1. target[v] \in Analyses => db'[target[v]] = db[target[v]]
      BY <1>1, <1>2, <2>3 DEF TypeOK
    <3>2. ASSUME NEW u \in Workers \ {v}, Dirty(u)', target'[u] = target[v]
          PROVE  Dirty(u) /\ target[u] = target[v] /\ own'[u] = own[u]
      <4>1. u # w
        BY <1>6, <3>2
      <4> QED
        BY <1>7, <3>2, <4>1 DEF Same, Dirty
    <3> QED
      BY <1>4, <1>7, <3>1, <3>2, Onlooker
  <2> QED
    BY <2>1, <2>2, <2>3
<1> QED
  BY <1>4, <1>5, <1>8 DEF AttemptsInv

-----------------------------------------------------------------------------
(* The worker that acts *)

\* What is left to show when it commits nothing: its own invariants.
LEMMA WorkerKeeps ==
    ASSUME IInv, AttemptsInv, OneDelivery, NEW w \in Workers, OnlyBy(w),
           db' = db, request' = request,
           \/ UNCHANGED queueVars
           \/ AckJob(w) \/ NackJob(w) \/ DropConsumer(w)
           \/ \E a \in Analyses : ClaimJob(w, a),
           Dirty(w)' => /\ target'[w] = target[w]
                        /\ Holding(w) \/ (Dirty(w) /\ own'[w] = own[w]),
           Behind(w)' /\ Written(w)' /\ HandedOver(w)'
    PROVE  AttemptsInv'
<1>1. SoleCopy' /\ \A a \in Analyses : Unclaimed(a) => Unclaimed(a)'
  BY QueueStep DEF AttemptsInv
<1>2. \A v \in Workers \ {w} : Behind(v)' /\ Written(v)' /\ HandedOver(v)'
  BY <1>1, OthersKeep
<1> QED
  BY <1>1, <1>2 DEF AttemptsInv

\* It learns nothing new of the others while it is at work.
LEMMA StillHandedOver ==
    ASSUME IInv, AttemptsInv, OneDelivery, NEW w \in Workers, OnlyBy(w), db' = db,
           Holding(w), target'[w] = target[w],
           Attempting(w)' => Attempting(w) /\ seen'[w] = seen[w]
    PROVE  HandedOver(w)'
<1>1. HandedOver(w) /\ \A v \in Workers \ {w} : Same(v)
  BY OnlyWorkers DEF AttemptsInv, OnlyBy
<1> QED
  BY <1>1 DEF HandedOver, Same, Dirty

LEMMA DieKeeps ==
    ASSUME IInv, AttemptsInv, OneDelivery, NEW w \in Workers, Die(w),
           db' = db, request' = request
    PROVE  AttemptsInv'
<1>1. TypeOK /\ w \in Sessions
  BY WorkerFacts
<1>2. DropConsumer(w) /\ EndSession(w, "dead")
  BY DEF Die
<1>3. /\ pc'[w] = "dead" /\ ~Dirty(w)'
      /\ OnlyBy(w)
  BY <1>1, <1>2
     DEF DropConsumer, EndSession, Goto, TypeOK, QueueTypeOK, OnlyBy, Same, Dirty, Sessions
<1> QED
  BY <1>2, <1>3, IdleKeeps, WorkerKeeps

LEMMA RestartKeeps ==
    ASSUME IInv, AttemptsInv, OneDelivery, NEW w \in Workers, Restart(w)
    PROVE  AttemptsInv'
<1>1. TypeOK /\ w \in Sessions
  BY WorkerFacts
<1>2. /\ pc'[w] = "idle" /\ (Dirty(w)' => Dirty(w) /\ own'[w] = own[w])
      /\ target'[w] = target[w] /\ db' = db /\ request' = request /\ UNCHANGED queueVars
      /\ OnlyBy(w)
  BY <1>1 DEF Restart, Goto, TypeOK, OnlyBy, Same, Dirty, queueVars, rowVars
<1> QED
  BY <1>2, IdleKeeps, WorkerKeeps

\* A version of the row of a job that can be claimed is about to be committed,
\* and another attempt is due.
LEMMA ClaimKeeps ==
    ASSUME IInv, AttemptsInv, OneDelivery, NEW w \in Workers, NEW a \in Analyses, Claim(w, a)
    PROVE  AttemptsInv'
<1>1. /\ TypeOK /\ QueueTypeOK /\ w \in Sessions /\ Shape(w)
  BY WorkerFacts
<1>2. /\ pc[w] = "idle" /\ ready[a] > 0 /\ ~Dirty(w)
      /\ pc'[w] = "load" /\ held'[w] = a /\ target'[w] = a
      /\ own' = own /\ db' = db /\ request' = request /\ ClaimJob(w, a)
  BY <1>1 DEF Claim, ClaimJob, Goto, TypeOK, QueueTypeOK, rowVars, Shape, Open
<1>3. OnlyBy(w)
  BY <1>1 DEF Claim, ClaimJob, Goto, TypeOK, QueueTypeOK, OnlyBy, Same, rowVars
<1>4. Behind(w)' /\ Written(w)'
  BY <1>2 DEF Behind, Written, Attempting
<1>5. HandedOver(w)'
  <2>1. ~Attempting(w)'
    BY <1>2 DEF Attempting
  <2>2. ASSUME NEW v \in Workers \ {w}, Dirty(v), target[v] = a
        PROVE  own[v].status = "running"
    <3>1. ~Holding(v)
      BY <1>1, <1>2, <2>2 DEF AttemptsInv, SoleCopy, NoCopy, Behind, QueueTypeOK
    <3>2. pc[v] = "commit"
      BY <2>2, <3>1, HolderOrCommitting
    <3> QED
      BY <1>1, <1>2, <2>2, <3>2
         DEF AttemptsInv, Written, Outcome, Unclaimed, NoCopy, Terminal, QueueTypeOK
  <2>3. \A v \in Workers \ {w} : Dirty(v)' /\ target'[v] = a => Dirty(v) /\ target[v] = a
    BY <1>1, <1>2, <1>3, OnlyWorkers DEF OnlyBy, Same, Dirty
  <2> QED
    BY <1>2, <2>1, <2>2, <2>3 DEF HandedOver
<1>6. ~Dirty(w)'
  BY <1>2 DEF Dirty
<1> QED
  BY <1>2, <1>3, <1>4, <1>5, <1>6, WorkerKeeps

LEMMA LoadKeeps ==
    ASSUME IInv, AttemptsInv, OneDelivery, NEW w \in Workers, LoadAnalysis(w)
    PROVE  AttemptsInv'
<1>1. /\ TypeOK /\ QueueTypeOK /\ w \in Sessions /\ Shape(w) /\ pc[w] = "load"
      /\ target[w] \in Analyses /\ db[target[w]] \in Row
  BY WorkerFacts DEF LoadAnalysis, Open
<1>2. /\ ~Dirty(w) /\ Holding(w) /\ Behind(w) /\ HandedOver(w)
      /\ db[target[w]].status \in Active
  BY <1>1 DEF Shape, Holding, Open, LoadAnalysis, AttemptsInv
<1>3. /\ pc'[w] \in {"select", "analyze"}
      /\ pc'[w] = "select" => plan'[w] = "start"
      /\ seen'[w] = db[target[w]]
      /\ own' = own /\ db' = db /\ request' = request /\ target' = target /\ held' = held
      /\ UNCHANGED queueVars
  BY <1>1 DEF LoadAnalysis, Updating, Goto, TypeOK, rowVars, queueVars
<1>4. OnlyBy(w)
  BY <1>1 DEF LoadAnalysis, Updating, Goto, TypeOK, OnlyBy, Same, rowVars, queueVars
<1>5. ~Dirty(w)'
  BY <1>2, <1>3 DEF Dirty
<1>6. Behind(w)'
  BY <1>1, <1>2, <1>3, <1>5 DEF Behind, NextRetry, Row
<1>7. Written(w)'
  BY <1>3, <1>5 DEF Written
<1>8. HandedOver(w)'
  BY <1>2, <1>3 DEF HandedOver, Dirty
<1> QED
  BY <1>3, <1>4, <1>5, <1>6, <1>7, <1>8, WorkerKeeps

LEMMA SelectKeeps ==
    ASSUME IInv, AttemptsInv, OneDelivery, NEW w \in Workers, UpdateSelect(w)
    PROVE  AttemptsInv'
<1>1. TypeOK /\ w \in Sessions /\ pc[w] = "select" /\ Behind(w)
  BY WorkerFacts DEF UpdateSelect, AttemptsInv
<1>2. /\ pc'[w] = "flush" /\ base'[w] = Visible(w)
      /\ own' = own /\ db' = db /\ request' = request
      /\ target' = target /\ seen' = seen /\ plan' = plan /\ held' = held
      /\ UNCHANGED queueVars
  BY <1>1 DEF UpdateSelect, Goto, TypeOK, rowVars, queueVars
<1>3. OnlyBy(w)
  BY <1>1, <1>2 DEF UpdateSelect, Goto, TypeOK, OnlyBy, Same
<1>4. /\ Dirty(w)' <=> Dirty(w)
      /\ Holding(w) /\ Holding(w)' /\ Attempting(w) /\ Attempting(w)'
  BY <1>1, <1>2 DEF Dirty, Holding, Open, Attempting
<1>5. Behind(w)'
  BY <1>1, <1>2, <1>4 DEF Behind, Visible
<1>6. Written(w)' /\ HandedOver(w)'
  BY <1>2, <1>3, <1>4, StillHandedOver DEF Written
<1> QED
  BY <1>2, <1>3, <1>4, <1>5, <1>6, WorkerKeeps

\* The attempt is over; what is to be written follows from the entity.
LEMMA AnalyzerKeeps ==
    ASSUME IInv, AttemptsInv, OneDelivery, NEW w \in Workers, pc[w] = "analyze",
           NEW op \in {"complete", "fail", "retry", "exhaust"}, Updating(w, op),
           op = "exhaust" => NextRetry(seen[w]) > MaxRetries,
           UNCHANGED <<queueVars, rowVars, target, seen, base, request>>
    PROVE  AttemptsInv'
<1>1. TypeOK /\ w \in Sessions /\ Behind(w)
  BY WorkerFacts DEF AttemptsInv
<1>2. /\ pc'[w] = "select" /\ plan'[w] = op
      /\ own' = own /\ db' = db /\ request' = request
      /\ target' = target /\ seen' = seen /\ held' = held
      /\ UNCHANGED queueVars
  BY <1>1 DEF Updating, Goto, TypeOK, rowVars, queueVars
<1>3. OnlyBy(w)
  BY <1>1, <1>2 DEF Updating, Goto, TypeOK, OnlyBy, Same
<1>4. /\ Dirty(w)' <=> Dirty(w)
      /\ Holding(w) /\ Holding(w)' /\ Attempting(w) /\ Attempting(w)'
  BY <1>2 DEF Dirty, Holding, Open, Attempting
<1>5. Behind(w)'
  BY <1>1, <1>2, <1>4 DEF Behind
<1>6. Written(w)' /\ HandedOver(w)'
  BY <1>2, <1>3, <1>4, StillHandedOver DEF Written
<1> QED
  BY <1>2, <1>3, <1>4, <1>5, <1>6, WorkerKeeps

\* The job of an attempt that finished the analysis was the only one; with that
\* of another attempt the worker puts it back.
LEMMA ReleaseKeeps ==
    ASSUME IInv, AttemptsInv, OneDelivery, NEW w \in Workers,
           SkipAnalysis(w) \/ LoadFails(w) \/ Acknowledge(w) \/ Requeue(w)
    PROVE  AttemptsInv'
<1>1. /\ TypeOK /\ QueueTypeOK /\ w \in Sessions /\ Shape(w)
      /\ SoleCopy /\ Behind(w) /\ Written(w)
  BY WorkerFacts DEF AttemptsInv
<1>2. /\ pc[w] \in {"load", "ack", "nack"}
      /\ AckJob(w) \/ (pc[w] = "nack" /\ NackJob(w))
      /\ Goto(w, "commit")
      /\ UNCHANGED <<rowVars, target, seen, base, plan, request>>
  <2>1. CASE SkipAnalysis(w)
    BY <2>1 DEF SkipAnalysis
  <2>2. CASE LoadFails(w)
    BY <2>2 DEF LoadFails
  <2>3. CASE Acknowledge(w)
    BY <2>3 DEF Acknowledge
  <2>4. CASE Requeue(w)
    BY <2>4 DEF Requeue
  <2> QED
    BY <2>1, <2>2, <2>3, <2>4
<1>3. /\ pc'[w] = "commit" /\ held'[w] = NoAnalysis
      /\ own' = own /\ db' = db /\ request' = request /\ target' = target
      /\ OnlyBy(w)
  BY <1>1, <1>2
     DEF AckJob, NackJob, Goto, TypeOK, QueueTypeOK, OnlyBy, Same, rowVars
<1>4. /\ Dirty(w)' <=> Dirty(w)
      /\ Holding(w) /\ ~Holding(w)' /\ ~Attempting(w)'
  BY <1>2, <1>3 DEF Dirty, Holding, Open, Attempting
<1>5. Behind(w)' /\ HandedOver(w)'
  BY <1>3, <1>4 DEF Behind, HandedOver, Attempting
<1>6. Written(w)'
  <2>1. CASE ~Dirty(w)
    BY <1>3, <1>4, <2>1 DEF Written
  <2>2. CASE Dirty(w) /\ own[w].status \notin Terminal
    <3>1. pc[w] \in {"ack", "nack"}
      BY <1>1, <1>2, <2>2 DEF Shape
    <3> QED
      BY <1>1, <1>3, <2>2, <3>1 DEF Written
  <2>3. CASE Dirty(w) /\ own[w].status \in Terminal
    <3>1. pc[w] = "ack"
      BY <1>1, <1>2, <2>3 DEF Shape, Written, Terminal
    <3>2. target[w] \in Analyses /\ held[w] = target[w] /\ AckJob(w)
      BY <1>1, <1>2, <1>4, <3>1 DEF Behind, Shape, Holding
    <3>3. ASSUME NEW a, a = target[w]
          PROVE  Unclaimed(a)'
      <4>1. /\ a \in Analyses /\ held[w] = a
            /\ ready' = ready /\ unacked' = unacked
            /\ held' = [held EXCEPT ![w] = NoAnalysis]
        BY <3>2, <3>3 DEF AckJob
      <4>2. NoCopy(a) /\ \A v \in Workers : held[v] = a => v = w
        BY <1>1, <4>1 DEF SoleCopy
      <4> QED
        BY <1>1, <4>1, <4>2 DEF Unclaimed, NoCopy, QueueTypeOK
    <3>4. Unclaimed(target[w])'
      BY <1>3, <3>3 DEF Unclaimed, NoCopy
    <3> QED
      BY <1>1, <1>3, <3>1, <3>4 DEF Written
  <2> QED
    BY <2>1, <2>2, <2>3
<1>7. AckJob(w) \/ NackJob(w)
  BY <1>2
<1>8. Dirty(w)' => target'[w] = target[w] /\ Holding(w)
  BY <1>3, <1>4
<1> QED
  BY <1>3, <1>5, <1>6, <1>7, <1>8, WorkerKeeps

\* Whatever was committed since the row and the entity were read, the attempt
\* that is flushed is a legal next one, or was counted by the worker before.
LEMMA FlushedAttempt ==
    ASSUME IInv, AttemptsInv, OneDelivery, NEW w \in Workers, pc[w] = "flush"
    PROVE  /\ plan[w] = "start" => /\ NewVersion(w).status = "running"
                                   /\ NewVersion(w).retry = db[target[w]].retry
           /\ plan[w] = "retry" => NewVersion(w).status = "running"
           /\ plan[w] # "start" => Outcome(db[target[w]], NewVersion(w))
<1> DEFINE n == NewVersion(w)
           row == db[target[w]]
           latest == Visible(w)
<1>1. /\ target[w] \in Analyses
      /\ latest \in Row /\ n \in Row /\ row \in Row
      /\ base[w] \in Row /\ seen[w] \in Row /\ own[w] \in Row
      /\ plan[w] \in {"start", "complete", "fail", "retry", "exhaust"}
  BY WorkerFacts, NewVersionIsRow DEF Open, Shape, Operation
<1>2. /\ PlanInv(w) /\ BaseInv(w) /\ SeenInv(w) /\ Behind(w) /\ Attempting(w)
      /\ RetryBounded
  BY WorkerFacts DEF AttemptsInv, Attempting, IInv
<1>3. /\ row.status \in Active
      /\ row.retry \in {seen[w].retry, seen[w].retry + 1}
      /\ row.retry = seen[w].retry + 1 => row.status = "running"
      /\ row.retry <= MaxRetries
      /\ seen[w].retry \in Nat /\ row.retry \in Nat
      /\ NextRetry(seen[w]) = seen[w].retry + 1
  BY <1>1, <1>2 DEF Behind, NextRetry, RetryBounded, Active, Terminal, Row
<1>4. /\ latest.retry = row.retry
      /\ base[w].status \in Active
      /\ base[w].retry \in {seen[w].retry, row.retry}
      /\ latest.status \in Active
      /\ Dirty(w) => base[w] = latest /\ latest.status = "running"
      /\ ~Dirty(w) => latest = row
  BY <1>1, <1>2, <1>3 DEF Behind, BaseInv, Visible, Active
<1>5. base[w].status = "running" => latest.status = "running"
  BY <1>1, <1>2, <1>4 DEF BaseInv, Follows, Active
<1>6. CASE plan[w] = "start"
  <2>1. /\ n.status = IF base[w].status # "running" THEN "running" ELSE latest.status
        /\ n.retry = latest.retry
    BY <1>1, <1>6, NewStatusValue DEF NewVersion, Merged, CountsRetry
  <2> QED
    BY <1>4, <1>5, <1>6, <2>1
<1>7. CASE plan[w] = "retry"
  <2>1. /\ n.status = IF base[w].status # "running" THEN "running" ELSE latest.status
        /\ n.retry = IF NextRetry(seen[w]) # base[w].retry THEN NextRetry(seen[w])
                                                           ELSE latest.retry
    BY <1>1, <1>7, NewStatusValue DEF NewVersion, Merged, CountsRetry
  <2>2. n.status = "running" /\ n.retry = seen[w].retry + 1
    BY <1>3, <1>4, <1>5, <2>1
  <2>3. seen[w].retry + 1 <= MaxRetries
    BY <1>2, <1>3, <1>7 DEF PlanInv
  <2> QED
    BY <1>3, <1>7, <2>2, <2>3 DEF Outcome
<1>8. CASE plan[w] \in {"complete", "fail"}
  <2>1. n.status \in {"completed", "failed"} /\ n.retry = latest.retry
    BY <1>1, <1>4, <1>8, NewStatusValue DEF NewVersion, Merged, CountsRetry, Active
  <2> QED
    BY <1>3, <1>4, <1>8, <2>1 DEF Outcome
<1>9. CASE plan[w] = "exhaust"
  <2>1. seen[w].retry = MaxRetries
    BY <1>2, <1>3, <1>9 DEF Behind, SeenInv
  <2>2. row.retry = MaxRetries /\ base[w].retry = MaxRetries
    BY <1>3, <1>4, <2>1
  <2>3. n.status = "failed" /\ n.retry = NextRetry(seen[w])
    BY <1>1, <1>3, <1>4, <1>9, <2>1, <2>2, NewStatusValue
       DEF NewVersion, Merged, CountsRetry, Active
  <2> QED
    BY <1>3, <1>9, <2>1, <2>2, <2>3 DEF Outcome
<1> QED
  BY <1>1, <1>6, <1>7, <1>8, <1>9

LEMMA FlushKeeps ==
    ASSUME IInv, AttemptsInv, OneDelivery, NEW w \in Workers, UpdateFlush(w)
    PROVE  AttemptsInv'
<1>1. /\ TypeOK /\ w \in Sessions /\ w \notin Cancels /\ pc[w] = "flush"
      /\ Shape(w) /\ Behind(w)
  BY WorkerFacts DEF UpdateFlush, CanFlush, AttemptsInv
<1>2. plan[w] \in Operation /\ plan[w] # "cancel"
  BY <1>1 DEF Shape
<1>3. /\ pc'[w] \in {"analyze", "ack", "nack"}
      /\ pc'[w] = "analyze" <=> plan[w] = "start"
      /\ pc'[w] = "nack" <=> plan[w] = "retry"
      /\ own'[w] = NewVersion(w)
      /\ db' = db /\ request' = request /\ target' = target /\ seen' = seen /\ held' = held
      /\ UNCHANGED queueVars
  BY <1>1, <1>2, AfterFlushStep DEF UpdateFlush, Goto, TypeOK, queueVars
<1>4. OnlyBy(w)
  BY <1>1 DEF UpdateFlush, Goto, TypeOK, OnlyBy, Same, queueVars
<1>5. /\ Holding(w) /\ Holding(w)' /\ Attempting(w)
      /\ Attempting(w)' <=> pc'[w] = "analyze"
      /\ Dirty(w)'
  BY <1>1, <1>3, FlushedRow DEF Holding, Open, Attempting, Dirty
<1>6. Behind(w)'
  BY <1>1, <1>3, <1>5, FlushedAttempt DEF Behind
<1>7. Written(w)'
  BY <1>1, <1>3, <1>5, FlushedAttempt DEF Written
<1>8. HandedOver(w)'
  BY <1>3, <1>4, <1>5, StillHandedOver
<1>9. Dirty(w)' => target'[w] = target[w] /\ Holding(w)
  BY <1>3, <1>5
<1>10. db' = db /\ request' = request /\ UNCHANGED queueVars
  BY <1>3
<1> QED
  BY <1>4, <1>6, <1>7, <1>8, <1>9, <1>10, WorkerKeeps

\* Nobody finishes an analysis whose job somebody holds: a start is never made
\* on a row that cannot be read back.
LEMMA StartIsAccepted ==
    ASSUME IInv, AttemptsInv, NEW w \in Workers
    PROVE  ~StartRejected(w)
<1> SUFFICES ASSUME StartRejected(w)
             PROVE  FALSE
  OBVIOUS
<1>1. /\ pc[w] = "flush" /\ plan[w] = "start" /\ ~Loadable(Entity(w))
      /\ PlanInv(w) /\ BaseInv(w) /\ Behind(w) /\ base[w] \in Row
  BY WorkerFacts DEF StartRejected, CanFlush, AttemptsInv
<1>2. base[w].status \in Active /\ Loadable(base[w])
  BY <1>1 DEF PlanInv, BaseInv, Behind
<1>3. ~base[w].done
  BY <1>2 DEF Loadable, Active, Terminal
<1>4. ~Entity(w).done
  BY <1>1, <1>3, NewStatusValue DEF Entity, Assigned, Terminal
<1> QED
  BY <1>1, <1>4 DEF Loadable

LEMMA ProcessKeeps ==
    ASSUME IInv, AttemptsInv, OneDelivery, NEW w \in Workers, Process(w)
    PROVE  AttemptsInv'
<1>1. CASE AnalyzerReturns(w)
  <2>1. /\ pc[w] = "analyze"
        /\ UNCHANGED <<queueVars, rowVars, target, seen, base, request>>
        /\ Updating(w, "complete") \/ Updating(w, "fail")
    BY <1>1 DEF AnalyzerReturns
  <2> QED
    BY <2>1, AnalyzerKeeps
<1>2. CASE AnalyzerRaises(w)
  <2>1. PICK m \in BOOLEAN : \/ HandleFailure(w, m) /\ UNCHANGED <<queueVars, own>>
                             \/ HandlerRaises(w, m) /\ Die(w)
    BY <1>2 DEF AnalyzerRaises
  <2>2. pc[w] = "analyze" /\ UNCHANGED <<db, request>>
    BY <1>2 DEF AnalyzerRaises
  <2>3. CASE HandleFailure(w, m) /\ UNCHANGED <<queueVars, own>>
    <3>1. UNCHANGED <<queueVars, rowVars, target, seen, base, request>>
      BY <2>2, <2>3 DEF HandleFailure, rowVars
    <3>2. \/ Updating(w, "retry")
          \/ Updating(w, "exhaust") /\ NextRetry(seen[w]) > MaxRetries
      BY <2>3 DEF HandleFailure
    <3> QED
      BY <2>2, <3>1, <3>2, AnalyzerKeeps
  <2>4. CASE Die(w)
    BY <2>2, <2>4, DieKeeps
  <2> QED
    BY <2>1, <2>3, <2>4
<1>3. CASE CompletionRefused(w) \/ RetryRejected(w)
  <2>1. Die(w) /\ db' = db /\ request' = request
    BY <1>3 DEF CompletionRefused, RetryRejected
  <2> QED
    BY <2>1, DieKeeps
<1>4. ~AcknowledgeRaises(w)
  BY DEF AcknowledgeRaises, Inject, OneDelivery
<1> QED
  BY <1>1, <1>2, <1>3, <1>4, StartIsAccepted, LoadKeeps, SelectKeeps, FlushKeeps,
     ReleaseKeeps, CommitKeeps
     DEF Process

\* Steps of no worker: the requests and the broker.
LEMMA RequestKeeps ==
    ASSUME IInv, AttemptsInv, OneDelivery, NEW a \in Analyses, Request(a)
    PROVE  AttemptsInv'
<1>1. TypeOK
  BY DEF IInv
<1>2. /\ SoleCopy'
      /\ \A b \in Analyses : Unclaimed(b) /\ request[b] = "accepted" => Unclaimed(b)'
  BY PublicationStep DEF AttemptsInv
<1>3. \A w \in Workers : Same(w)
  BY DEF Request, RequestAnalysis, PublishJob, PublicationFails, CommitRequest,
         CommitRequestFails, Enqueue, Same, queueVars, rowVars, sessionVars
<1>4. \A b \in Analyses : db[b].status # "absent" => db'[b] = db[b]
  <2>1. CASE CommitRequest(a)
    <3>1. db[a] = NoRow
      BY <2>1 DEF CommitRequest, IInv, RowInv
    <3> QED
      BY <1>1, <2>1, <3>1 DEF CommitRequest, TypeOK, NoRow
  <2>2. CASE ~CommitRequest(a)
    BY <2>2 DEF Request, RequestAnalysis, PublishJob, PublicationFails, CommitRequestFails,
                rowVars
  <2> QED
    BY <2>1, <2>2
<1>5. \A b \in Analyses : db[b].status # "absent" => request[b] = "accepted"
  BY DEF IInv, RowInv, NoRow
<1>6. ASSUME NEW v \in Workers
      PROVE  Behind(v)' /\ Written(v)' /\ HandedOver(v)'
  <2>1. \A u \in Workers : /\ Dirty(u)' <=> Dirty(u)
                           /\ target'[u] = target[u] /\ own'[u] = own[u]
    BY <1>3 DEF Same, Dirty
  <2> QED
    BY <1>2, <1>3, <1>4, <1>5, <2>1, Onlooker
<1> QED
  BY <1>2, <1>6 DEF AttemptsInv

LEMMA RedeliverKeeps ==
    ASSUME IInv, AttemptsInv, OneDelivery, NEW a \in Analyses, Redeliver(a)
    PROVE  AttemptsInv'
<1>1. /\ SoleCopy'
      /\ \A b \in Analyses : Unclaimed(b) => Unclaimed(b)'
  BY QueueStep DEF AttemptsInv, Redeliver
<1>2. /\ \A w \in Workers : Same(w)
      /\ db' = db
  BY DEF Redeliver, RestoreJob, Same, rowVars, sessionVars
<1>3. \A u \in Workers : /\ Dirty(u)' <=> Dirty(u)
                         /\ target'[u] = target[u] /\ own'[u] = own[u]
  BY <1>2 DEF Same, Dirty
<1>4. \A v \in Workers : Behind(v)' /\ Written(v)' /\ HandedOver(v)'
  BY <1>1, <1>2, <1>3, Onlooker
<1> QED
  BY <1>1, <1>4 DEF AttemptsInv

LEMMA StutterKeeps ==
    ASSUME IInv, AttemptsInv, OneDelivery, UNCHANGED vars
    PROVE  AttemptsInv'
<1>1. /\ UNCHANGED queueVars /\ request' = request /\ db' = db
      /\ \A w \in Workers : Same(w)
  BY DEF vars, queueVars, Same
<1>2. /\ SoleCopy'
      /\ \A b \in Analyses : Unclaimed(b) => Unclaimed(b)'
  BY <1>1, QueueStep DEF AttemptsInv
<1>3. \A u \in Workers : /\ Dirty(u)' <=> Dirty(u)
                         /\ target'[u] = target[u] /\ own'[u] = own[u]
  BY <1>1 DEF Same, Dirty
<1>4. \A v \in Workers : Behind(v)' /\ Written(v)' /\ HandedOver(v)'
  BY <1>1, <1>2, <1>3, Onlooker
<1> QED
  BY <1>2, <1>4 DEF AttemptsInv

LEMMA AttemptsStep ==
    ASSUME IInv, AttemptsInv, OneDelivery, [Next]_vars
    PROVE  AttemptsInv'
<1>1. ASSUME NEW w \in Workers, Crash(w)
      PROVE  AttemptsInv'
  BY <1>1, DieKeeps DEF Crash
<1>2. ~\E c \in Cancels : Cancel(c)
  BY DEF OneDelivery
<1>3. CASE Quiescent \/ UNCHANGED vars
  BY <1>3, StutterKeeps DEF Quiescent
<1> QED
  BY <1>1, <1>2, <1>3, ProcessKeeps, RequestKeeps, RedeliverKeeps, ClaimKeeps, RestartKeeps
     DEF Next

LEMMA AttemptsInit ==
    ASSUME Init, OneDelivery
    PROVE  AttemptsInv
<1>1. /\ \A a \in Analyses : ready[a] = 0 /\ unacked[a] = 0
      /\ \A w \in Workers : held[w] = NoAnalysis /\ pc[w] = "idle" /\ own[w] = NoRow
  BY DEF Init, QueueInit, Sessions
<1>2. SoleCopy
  BY <1>1 DEF SoleCopy, Unclaimed, NoCopy
<1>3. \A w \in Workers : Behind(w) /\ Written(w) /\ HandedOver(w)
  BY <1>1 DEF Behind, Written, HandedOver, Attempting, Holding, Open
<1> QED
  BY <1>2, <1>3 DEF AttemptsInv

\* While one worker has given a job back and not yet committed its attempt, the
\* next one is at most that attempt behind, and never works on a finished row.
THEOREM AttemptsInvariance ==
    ASSUME OneDelivery
    PROVE  Spec => []AttemptsInv
<1>1. Init => AttemptsInv
  BY AttemptsInit
<1>2. IInv /\ AttemptsInv /\ [Next]_vars => AttemptsInv'
  BY AttemptsStep
<1> QED
  BY <1>1, <1>2, Invariance, PTL DEF Spec

-----------------------------------------------------------------------------
(* The refinement *)

\* Rows are written by the commit of a request or of a worker, and by nothing else.
LEMMA RowsWritten ==
    ASSUME OneDelivery, [Next]_vars
    PROVE  \/ db' = db
           \/ \E a \in Analyses : CommitRequest(a)
           \/ \E w \in Workers : WorkerCommit(w)
<1>1. ASSUME NEW w \in Workers, Process(w)
      PROVE  db' = db \/ WorkerCommit(w)
  BY <1>1 DEF Process, LoadAnalysis, SkipAnalysis, LoadFails, UpdateSelect, UpdateFlush,
              StartRejected, CompletionRefused, RetryRejected, AnalyzerReturns,
              AnalyzerRaises, Acknowledge, AcknowledgeRaises, Requeue, rowVars
<1>2. ASSUME NEW a \in Analyses, Request(a)
      PROVE  db' = db \/ CommitRequest(a)
  BY <1>2 DEF Request, RequestAnalysis, PublishJob, PublicationFails, CommitRequestFails,
              rowVars
<1>3. CASE \/ \E w \in Workers, b \in Analyses : Claim(w, b)
           \/ \E w \in Workers : Crash(w) \/ Restart(w)
           \/ \E b \in Analyses : Redeliver(b)
  BY <1>3 DEF Claim, Crash, Restart, Redeliver, rowVars
<1>4. CASE UNCHANGED vars
  BY <1>4 DEF vars
<1>5. ~\E c \in Cancels : Cancel(c)
  BY DEF OneDelivery
<1> QED
  BY <1>1, <1>2, <1>3, <1>4, <1>5 DEF Next, Quiescent

\* The commit of a request is Submit.
LEMMA RequestImplements ==
    ASSUME IInv, NEW a \in Analyses, CommitRequest(a)
    PROVE  Lifecycle!Submit(a)
<1>1. /\ db[a] = NoRow /\ db \in [Analyses -> Row]
      /\ db' = [db EXCEPT ![a] = PendingRow]
  BY DEF CommitRequest, IInv, RowInv, TypeOK
<1>2. [b \in Analyses |-> db'[b].status] =
        [[b \in Analyses |-> db[b].status] EXCEPT ![a] = "pending"]
  BY <1>1 DEF PendingRow
<1>3. [b \in Analyses |-> db'[b].retry] = [b \in Analyses |-> db[b].retry]
  BY <1>1 DEF PendingRow, NoRow
<1> QED
  BY <1>1, <1>2, <1>3 DEF Lifecycle!Submit, NoRow

\* The commit of a worker is one step of the life cycle of its analysis, or
\* writes again an attempt that was counted.
LEMMA AttemptImplements ==
    ASSUME IInv, AttemptsInv, OneDelivery, NEW w \in Workers, WorkerCommit(w), db' # db
    PROVE  \/ Lifecycle!Next
           \/ UNCHANGED <<[b \in Analyses |-> db[b].status], [b \in Analyses |-> db[b].retry]>>
<1> DEFINE a == target[w]
           status == [b \in Analyses |-> db[b].status]
           retries == [b \in Analyses |-> db[b].retry]
<1>1. /\ pc[w] = "commit" /\ a \in Analyses /\ w \in Sessions
      /\ db \in [Analyses -> Row]
      /\ db' = [db EXCEPT ![a] = Visible(w)]
  BY WorkerFacts DEF WorkerCommit, Open, TypeOK
<1>2. Dirty(w) /\ Visible(w) = own[w]
  BY <1>1 DEF Visible
<1>3. Outcome(db[a], own[w])
  BY <1>1, <1>2 DEF AttemptsInv, Written
<1>4. PICK b \in Analyses : b = a
  BY <1>1
<1>5. /\ db[b] \in Row /\ own[w] \in Row
      /\ status' = [status EXCEPT ![b] = own[w].status]
      /\ retries' = [retries EXCEPT ![b] = own[w].retry]
      /\ status[b] = db[b].status /\ retries[b] = db[b].retry
  BY <1>1, <1>2, <1>4 DEF IInv, TypeOK
<1>6. Lifecycle!Unfinished(b)
  BY <1>3, <1>4, <1>5 DEF Lifecycle!Unfinished, Outcome, Active
<1>7. CASE own[w].status = "running" /\ own[w].retry = db[b].retry
  <2>1. db[b].status = "running"
    BY <1>3, <1>4, <1>5, <1>7 DEF Outcome, Row
  <2> QED
    BY <1>5, <1>7, <2>1
<1>8. CASE own[w].status = "running" /\ own[w].retry # db[b].retry
  <2>1. own[w].retry = db[b].retry + 1 /\ db[b].retry < MaxRetries
    BY <1>3, <1>4, <1>5, <1>8 DEF Outcome, Row
  <2>2. Lifecycle!Retry(b)
    BY <1>5, <1>6, <1>8, <2>1 DEF Lifecycle!Retry
  <2> QED
    BY <2>2 DEF Lifecycle!Next
<1>9. CASE own[w].status = "completed"
  <2>1. ~Lifecycle!HasResult(TripleOf[b])
    <3>1. SUFFICES ASSUME NEW c \in Analyses, TripleOf[c] = TripleOf[b],
                          db[c].status = "completed"
                   PROVE  FALSE
      BY DEF Lifecycle!HasResult
    <3>2. c # b
      BY <1>3, <1>4, <3>1 DEF Outcome, Active
    <3> QED
      BY <1>1, <1>2, <1>4, <1>9, <3>1, <3>2 DEF IInv, CompletionReserved, Rivals
  <2>2. own[w].retry = db[b].retry
    BY <1>3, <1>4, <1>9 DEF Outcome
  <2>3. Lifecycle!Complete(b)
    BY <1>5, <1>6, <1>9, <2>1, <2>2 DEF Lifecycle!Complete
  <2> QED
    BY <2>3 DEF Lifecycle!Next
<1>10. CASE own[w].status = "failed"
  <2>1. \/ own[w].retry = db[b].retry
        \/ db[b].retry = MaxRetries /\ own[w].retry = db[b].retry + 1
    BY <1>3, <1>4, <1>10 DEF Outcome
  <2>2. Lifecycle!Fail(b)
    BY <1>5, <1>6, <1>10, <2>1 DEF Lifecycle!Fail
  <2> QED
    BY <2>2 DEF Lifecycle!Next
<1> QED
  BY <1>3, <1>7, <1>8, <1>9, <1>10 DEF Outcome

\* Whatever crashes, is lost or restored, and however two workers follow each
\* other on one row: to a reader of the committed rows each step is one step of
\* the life cycle, or none.
THEOREM PipelineImplementsLifecycle ==
    ASSUME OneDelivery
    PROVE  Spec => ImplementsLifecycle
<1>1. Init => Lifecycle!Init
  BY DEF Init, Lifecycle!Init, NoRow
<1>2. IInv /\ AttemptsInv /\ [Next]_vars =>
        [Lifecycle!Next]_<<[a \in Analyses |-> db[a].status], [a \in Analyses |-> db[a].retry]>>
  <2> SUFFICES ASSUME IInv, AttemptsInv, [Next]_vars
               PROVE  \/ Lifecycle!Next
                      \/ UNCHANGED <<[a \in Analyses |-> db[a].status],
                                     [a \in Analyses |-> db[a].retry]>>
    OBVIOUS
  <2>1. CASE db' = db
    BY <2>1
  <2>2. CASE \E a \in Analyses : CommitRequest(a)
    BY <2>2, RequestImplements DEF Lifecycle!Next
  <2>3. CASE db' # db /\ \E w \in Workers : WorkerCommit(w)
    BY <2>3, AttemptImplements
  <2> QED
    BY <2>1, <2>2, <2>3, RowsWritten
<1> QED
  BY <1>1, <1>2, Invariance, AttemptsInvariance, PTL DEF Spec, ImplementsLifecycle, Lifecycle!Spec

\* A POST that was answered with an existing result goes on being backed by one.
THEOREM ReplayIsBacked ==
    ASSUME OneDelivery
    PROVE  Spec => []ReplayedStaysCompleted
<1>1. Init => ReplayedStaysCompleted
  BY DEF Init, ReplayedStaysCompleted
<1>2. ASSUME IInv, AttemptsInv, [Next]_vars, NEW b \in Analyses, db[b].status = "completed"
      PROVE  db'[b].status = "completed"
  <2>1. db \in [Analyses -> Row]
    BY <1>2 DEF IInv, TypeOK
  <2>2. ASSUME NEW a \in Analyses, CommitRequest(a)
        PROVE  db'[b].status = "completed"
    <3>1. a # b
      BY <1>2, <2>2 DEF CommitRequest, IInv, RowInv, NoRow
    <3> QED
      BY <1>2, <2>1, <2>2, <3>1 DEF CommitRequest
  <2>3. ASSUME NEW w \in Workers, WorkerCommit(w)
        PROVE  db'[b].status = "completed"
    <3>1. pc[w] = "commit" /\ db' = [db EXCEPT ![target[w]] = Visible(w)]
      BY <2>3 DEF WorkerCommit
    <3>2. target[w] = b => Visible(w) = db[b]
      BY <1>2, <3>1 DEF AttemptsInv, Written, Outcome, Active, Visible
    <3> QED
      BY <1>2, <2>1, <3>1, <3>2
  <2> QED
    BY <1>2, <2>2, <2>3, RowsWritten
<1>3. ASSUME IInv, AttemptsInv, [Next]_vars, ReplayedStaysCompleted
      PROVE  ReplayedStaysCompleted'
  <2>1. SUFFICES ASSUME NEW a \in Analyses, request'[a] = "replayed"
                 PROVE  \E b \in Rivals(a) : db[b].status = "completed"
    BY <1>2, <1>3 DEF ReplayedStaysCompleted, Rivals
  <2>2. CASE request[a] = "replayed"
    BY <1>3, <2>2 DEF ReplayedStaysCompleted
  <2>3. CASE request[a] # "replayed"
    <3>1. RequestAnalysis(a) /\ request \in [Analyses -> RequestStep]
      <4>1. request \in [Analyses -> RequestStep]
        BY <1>3 DEF IInv, TypeOK
      <4>2. request' # request
        BY <2>1, <2>3
      <4>3. \E c \in Analyses : Request(c)
        BY <1>3, <4>2
           DEF Next, Quiescent, vars, OneDelivery, Claim, Crash, Restart, Redeliver, Process,
               LoadAnalysis, SkipAnalysis, LoadFails, UpdateSelect, UpdateFlush, StartRejected,
               CompletionRefused, RetryRejected, AnalyzerReturns, AnalyzerRaises, Acknowledge,
               AcknowledgeRaises, Requeue, WorkerCommit
      <4> QED
        BY <2>1, <2>3, <4>1, <4>3
           DEF Request, RequestAnalysis, PublishJob, PublicationFails, CommitRequest,
               CommitRequestFails
    <3>2. PICK b \in Analyses : TripleOf[b] = TripleOf[a] /\ db[b].status = "completed"
      BY <2>1, <3>1 DEF RequestAnalysis
    <3>3. db[a] = NoRow
      BY <1>3, <3>1 DEF RequestAnalysis, IInv, RowInv
    <3> QED
      BY <3>2, <3>3 DEF Rivals, NoRow
  <2> QED
    BY <2>2, <2>3
<1> QED
  BY <1>1, <1>3, Invariance, AttemptsInvariance, PTL DEF Spec

-----------------------------------------------------------------------------
(* The job of a running analysis *)

Undisturbed ==
    /\ EngineBound
    /\ Faults \subseteq {"commit"}

\* A worker that still has its job to give back holds that of its analysis.
ClaimKept == \A w \in Workers : Holding(w) => held[w] = target[w]

Committing(s) == pc[s] = "commit" /\ Dirty(s)

\* An attempt that leaves the analysis running is committed after its job was
\* put back, and nobody acknowledges that job before.
JobPutBack ==
    \A w \in Workers :
        Committing(w) /\ own[w].status = "running" => InQueue(target[w])

\* What a canceller has written finishes the analysis.
CancelsFinish == \A c \in Cancels : Dirty(c) => own[c].status \in Terminal

DeliveryInv ==
    /\ ClaimKept
    /\ JobPutBack
    /\ RunningHasJob

LEMMA SessionFacts ==
    ASSUME IInv, NEW s \in Sessions
    PROVE  /\ TypeOK /\ QueueTypeOK
           /\ Shape(s) /\ AckInv(s) /\ OwnInv(s)
           /\ own[s] \in Row
           /\ Open(s) => target[s] \in Analyses /\ db[target[s]] \in Row
           /\ Dirty(s) => Open(s)
<1>1. SessionInv(s) /\ TypeOK /\ QueueTypeOK
  BY DEF IInv, TypeOK
<1> QED
  BY <1>1 DEF SessionInv, Shape, TypeOK

\* A row whose next version leaves it running is not finished.
LEMMA RunningOnActive ==
    ASSUME IInv, NEW s \in Sessions, Committing(s), own[s].status = "running"
    PROVE  db[target[s]].status \in Active
BY SessionFacts DEF Committing, OwnInv, Loadable, Terminal

\* Nothing but an acknowledgement takes the last copy of a job.
LEMMA QueueKeeps ==
    ASSUME IInv, NEW a \in Analyses, InQueue(a),
           \/ UNCHANGED queueVars
           \/ \E b \in Analyses, n \in Nat : Enqueue(b, n)
           \/ \E w \in Workers : NackJob(w) \/ DropConsumer(w)
           \/ \E w \in Workers, b \in Analyses : ClaimJob(w, b)
           \/ \E b \in Analyses : RestoreJob(b)
           \/ \E w \in Workers : AckJob(w) /\ held[w] # a
    PROVE  InQueue(a)'
<1> USE DEF InQueue
<1>1. QueueTypeOK
  BY DEF IInv, TypeOK
<1>2. CASE UNCHANGED queueVars
  BY <1>2 DEF queueVars
<1>3. ASSUME NEW b \in Analyses, NEW n \in Nat, Enqueue(b, n)
      PROVE  InQueue(a)'
  BY <1>1, <1>3 DEF Enqueue, QueueTypeOK
<1>4. ASSUME NEW w \in Workers, NackJob(w)
      PROVE  InQueue(a)'
  BY <1>1, <1>4 DEF NackJob, QueueTypeOK
<1>5. ASSUME NEW w \in Workers, DropConsumer(w)
      PROVE  InQueue(a)'
  BY <1>1, <1>5 DEF DropConsumer, QueueTypeOK
<1>6. ASSUME NEW w \in Workers, NEW b \in Analyses, ClaimJob(w, b)
      PROVE  InQueue(a)'
  BY <1>1, <1>6 DEF ClaimJob, QueueTypeOK
<1>7. ASSUME NEW b \in Analyses, RestoreJob(b)
      PROVE  InQueue(a)'
  BY <1>1, <1>7 DEF RestoreJob, QueueTypeOK
<1>8. ASSUME NEW w \in Workers, AckJob(w), held[w] # a
      PROVE  InQueue(a)'
  BY <1>1, <1>8 DEF AckJob, QueueTypeOK
<1> QED
  BY <1>2, <1>3, <1>4, <1>5, <1>6, <1>7, <1>8

-----------------------------------------------------------------------------
(* The three parts, by what the step does *)

\* A step that commits nothing and acknowledges no job.
LEMMA QuietKeeps ==
    ASSUME IInv, IInv', DeliveryInv, ClaimKept',
           \A a \in Analyses : InQueue(a) => InQueue(a)',
           \A a \in Analyses : db'[a].status = "running" => db[a].status = "running",
           \A w \in Workers : Committing(w) =>
               Committing(w)' /\ own'[w] = own[w] /\ target'[w] = target[w],
           \A w \in Workers, b \in Analyses :
               Committing(w)' /\ own'[w].status = "running" /\ target'[w] = b =>
                   \/ Committing(w) /\ own'[w] = own[w] /\ target'[w] = target[w]
                   \/ InQueue(b)'
    PROVE  DeliveryInv'
<1>1. JobPutBack'
  <2>1. SUFFICES ASSUME NEW w \in Workers, Committing(w)', own'[w].status = "running"
                 PROVE  InQueue(target[w])'
    BY DEF JobPutBack
  <2>2. w \in Sessions /\ pc'[w] = "commit"
    BY <2>1 DEF Sessions, Committing
  <2>3. target'[w] \in Analyses
    BY <2>2 DEF IInv, SessionInv, Shape, Open
  <2>4. PICK b \in Analyses : b = target'[w]
    BY <2>3
  <2>5. InQueue(b)'
    BY <2>1, <2>4 DEF DeliveryInv, JobPutBack
  <2> QED
    BY <2>4, <2>5 DEF InQueue
<1>2. RunningHasJob'
  <2>1. SUFFICES ASSUME NEW a \in Analyses, db'[a].status = "running"
                 PROVE  HasJob(a)'
    BY DEF RunningHasJob
  <2>2. CASE InQueue(a)
    BY <2>2 DEF HasJob
  <2>3. CASE \E w \in Workers : Committing(w) /\ target[w] = a
    BY <2>3 DEF HasJob, Committing
  <2> QED
    BY <2>1, <2>2, <2>3 DEF DeliveryInv, RunningHasJob, HasJob, Committing
<1> QED
  BY <1>1, <1>2 DEF DeliveryInv

\* No worker moves.
LEMMA NoWorkerKeeps ==
    ASSUME IInv, IInv', DeliveryInv, \A w \in Workers : Same(w),
           \A a \in Analyses : InQueue(a) => InQueue(a)',
           \A a \in Analyses : db'[a].status = "running" => db[a].status = "running"
    PROVE  DeliveryInv'
<1>1. \A w \in Workers : /\ Committing(w)' <=> Committing(w)
                         /\ Holding(w)' <=> Holding(w)
                         /\ own'[w] = own[w] /\ target'[w] = target[w] /\ held'[w] = held[w]
  BY DEF Same, Committing, Dirty, Holding, Open
<1>2. ClaimKept'
  BY <1>1 DEF DeliveryInv, ClaimKept
<1> QED
  BY <1>1, <1>2, QuietKeeps

\* One moves before its commit: it keeps its job, loses it with its connection,
\* or puts it back.
LEMMA WorkerMoves ==
    ASSUME IInv, IInv', DeliveryInv, NEW w \in Workers, OnlyBy(w), db' = db,
           pc[w] # "commit",
           \A a \in Analyses : InQueue(a) => InQueue(a)',
           Holding(w)' => held'[w] = target'[w],
           \A a \in Analyses : pc'[w] = "commit" /\ target'[w] = a => InQueue(a)'
    PROVE  DeliveryInv'
<1>1. \A v \in Workers \ {w} : Same(v)
  BY DEF OnlyBy, Sessions
<1>2. \A v \in Workers \ {w} : /\ Committing(v)' <=> Committing(v)
                               /\ Holding(v)' <=> Holding(v)
                               /\ own'[v] = own[v] /\ target'[v] = target[v] /\ held'[v] = held[v]
  BY <1>1 DEF Same, Committing, Dirty, Holding, Open
<1>3. ~Committing(w) /\ (Committing(w)' => pc'[w] = "commit")
  BY DEF Committing
<1>4. ClaimKept'
  BY <1>2 DEF DeliveryInv, ClaimKept
<1> QED
  BY <1>2, <1>3, <1>4, QuietKeeps

\* A job goes: its analysis is finished, or will be with the worker's commit.
LEMMA AcknowledgeKeeps ==
    ASSUME IInv, IInv', DeliveryInv, NEW w \in Workers,
           SkipAnalysis(w) \/ Acknowledge(w)
    PROVE  DeliveryInv'
<1>1. /\ TypeOK /\ QueueTypeOK /\ w \in Sessions /\ pc[w] \in {"load", "ack"}
      /\ Holding(w) /\ held[w] = target[w] /\ target[w] \in Analyses
      /\ Shape(w) /\ AckInv(w)
  BY SessionFacts DEF Sessions, SkipAnalysis, Acknowledge, Holding, Open, DeliveryInv, ClaimKept
<1>2. PICK a \in Analyses : a = target[w]
  BY <1>1
<1>3. AckJob(w) /\ Goto(w, "commit") /\ UNCHANGED <<rowVars, target, seen, base, plan, request>>
  <2>1. CASE SkipAnalysis(w)
    BY <2>1 DEF SkipAnalysis
  <2>2. CASE Acknowledge(w)
    BY <2>2 DEF Acknowledge
  <2> QED
    BY <2>1, <2>2
<1>4. /\ pc' = [pc EXCEPT ![w] = "commit"] /\ held' = [held EXCEPT ![w] = NoAnalysis]
      /\ own' = own /\ db' = db /\ target' = target
  BY <1>3 DEF AckJob, Goto, rowVars
<1>5. \A v \in Workers : /\ v # w => /\ Committing(v)' <=> Committing(v)
                                     /\ Holding(v)' <=> Holding(v)
                                     /\ held'[v] = held[v]
                         /\ v = w => ~Holding(v)' /\ ~Committing(v) /\ (Committing(v)' <=> Dirty(v))
  BY <1>1, <1>4 DEF TypeOK, QueueTypeOK, Committing, Dirty, Holding, Open, Sessions
<1>6. \A b \in Analyses \ {a} : InQueue(b) => InQueue(b)'
  BY <1>1, <1>2, <1>3, QueueKeeps
<1>7. \/ ~Dirty(w) /\ db[a].status \notin Active
      \/ Dirty(w) /\ own[w].status \in Terminal
  <2>1. CASE SkipAnalysis(w)
    <3>1. db[a].status \in Active => Loadable(db[a])
      BY DEF IInv, RowInv, Loadable
    <3> QED
      BY <1>1, <1>2, <2>1, <3>1 DEF SkipAnalysis, Shape
  <2>2. CASE Acknowledge(w)
    BY <1>1, <2>2 DEF Acknowledge, AckInv
  <2> QED
    BY <2>1, <2>2
<1>8. ClaimKept'
  BY <1>4, <1>5 DEF DeliveryInv, ClaimKept
<1>9. JobPutBack'
  <2>1. SUFFICES ASSUME NEW v \in Workers, Committing(v)', own[v].status = "running"
                 PROVE  InQueue(target[v])'
    BY <1>4 DEF JobPutBack
  <2>2. v # w
    BY <1>5, <1>7, <2>1 DEF Terminal
  <2>3. Committing(v) /\ v \in Sessions /\ InQueue(target[v])
    BY <1>5, <2>1, <2>2 DEF Sessions, DeliveryInv, JobPutBack
  <2>4. target[v] \in Analyses
    BY <2>3, SessionFacts DEF Committing
  <2>5. target[v] # a
    <3>1. Dirty(w) => target[v] # target[w]
      BY <1>1, <2>2, <2>3 DEF IInv, SingleWriter, Committing
    <3>2. db[target[v]].status \in Active
      BY <2>1, <2>3, RunningOnActive
    <3> QED
      BY <1>2, <1>7, <3>1, <3>2
  <2>6. PICK b \in Analyses : b = target[v]
    BY <2>4
  <2>7. InQueue(b)'
    BY <1>6, <2>3, <2>5, <2>6
  <2> QED
    BY <1>4, <2>6, <2>7 DEF InQueue
<1>10. RunningHasJob'
  <2>1. SUFFICES ASSUME NEW b \in Analyses, db[b].status = "running"
                 PROVE  HasJob(b)'
    BY <1>4 DEF RunningHasJob
  <2>2. HasJob(b)
    BY <2>1 DEF DeliveryInv, RunningHasJob
  <2>3. CASE \E v \in Workers : Committing(v) /\ target[v] = b
    BY <1>4, <1>5, <2>3 DEF HasJob, Committing
  <2>4. CASE InQueue(b) /\ b # a
    BY <1>6, <2>4 DEF HasJob
  <2>5. CASE b = a
    <3>1. Committing(w)'
      BY <1>5, <1>7, <2>1, <2>5 DEF Active
    <3> QED
      BY <1>2, <1>4, <2>5, <3>1 DEF HasJob, Committing
  <2> QED
    BY <2>2, <2>3, <2>4, <2>5 DEF HasJob, Committing
<1> QED
  BY <1>8, <1>9, <1>10 DEF DeliveryInv

\* A commit that leaves the analysis running comes after its job was put back.
LEMMA CommitDelivers ==
    ASSUME IInv, IInv', DeliveryInv, NEW s \in Sessions, pc[s] = "commit",
           db' = [db EXCEPT ![target[s]] = Visible(s)],
           own' = [own EXCEPT ![s] = NoRow], pc'[s] \in {"idle", "done"},
           OnlyBy(s), UNCHANGED queueVars,
           s \in Cancels => ~Dirty(s) \/ own[s].status # "running"
    PROVE  DeliveryInv'
<1>1. TypeOK /\ target[s] \in Analyses
  BY SessionFacts DEF Open
<1>2. \A v \in Workers : /\ v # s => /\ Committing(v)' <=> Committing(v)
                                     /\ Holding(v)' <=> Holding(v)
                                     /\ own'[v] = own[v] /\ target'[v] = target[v]
                         /\ v = s => ~Committing(v)' /\ ~Holding(v)'
                         /\ held'[v] = held[v]
  BY <1>1 DEF OnlyBy, Same, TypeOK, Committing, Dirty, Holding, Open, Sessions, queueVars
<1>3. \A a \in Analyses : InQueue(a)' <=> InQueue(a)
  BY DEF InQueue, queueVars
<1>4. ClaimKept'
  BY <1>2 DEF DeliveryInv, ClaimKept
<1>5. JobPutBack'
  <2>1. SUFFICES ASSUME NEW v \in Workers, Committing(v)', own'[v].status = "running"
                 PROVE  InQueue(target[v])'
    BY DEF JobPutBack
  <2>2. /\ Committing(v) /\ own[v].status = "running" /\ target'[v] = target[v]
        /\ v \in Sessions
    BY <1>2, <2>1 DEF Sessions
  <2>3. InQueue(target[v]) /\ target[v] \in Analyses
    BY <2>2, SessionFacts DEF DeliveryInv, JobPutBack, Committing
  <2>4. PICK b \in Analyses : b = target[v]
    BY <2>3
  <2> QED
    BY <1>3, <2>2, <2>3, <2>4 DEF InQueue
<1>6. RunningHasJob'
  <2>1. SUFFICES ASSUME NEW b \in Analyses, db'[b].status = "running"
                 PROVE  HasJob(b)'
    BY DEF RunningHasJob
  <2>2. CASE Dirty(s) /\ b = target[s]
    <3>1. own[s].status = "running"
      BY <1>1, <2>1, <2>2 DEF Visible, TypeOK
    <3>2. s \in Workers /\ Committing(s)
      BY <2>2, <3>1 DEF Sessions, Committing
    <3>3. InQueue(b)
      BY <2>2, <3>1, <3>2 DEF DeliveryInv, JobPutBack
    <3> QED
      BY <1>3, <3>3 DEF HasJob
  <2>3. CASE ~Dirty(s) \/ b # target[s]
    <3>1. db[b].status = "running"
      BY <1>1, <2>1, <2>3 DEF Visible, TypeOK
    <3>2. CASE InQueue(b)
      BY <1>3, <3>2 DEF HasJob
    <3>3. ASSUME NEW v \in Workers, Committing(v), target[v] = b
          PROVE  HasJob(b)'
      <4>1. v # s
        BY <2>3, <3>3 DEF Committing
      <4> QED
        BY <1>2, <3>3, <4>1 DEF HasJob, Committing
    <3> QED
      BY <3>1, <3>2, <3>3 DEF DeliveryInv, RunningHasJob, HasJob, Committing
  <2> QED
    BY <2>2, <2>3
<1> QED
  BY <1>4, <1>5, <1>6 DEF DeliveryInv

-----------------------------------------------------------------------------
(* The actions *)

\* A worker process that ends leaves its job with the broker.
LEMMA DieDelivers ==
    ASSUME IInv, IInv', DeliveryInv, NEW w \in Workers, Die(w), pc[w] # "commit", db' = db
    PROVE  DeliveryInv'
<1>1. /\ TypeOK /\ QueueTypeOK /\ w \in Sessions
      /\ DropConsumer(w) /\ EndSession(w, "dead")
  BY DEF Sessions, Die, IInv, TypeOK
<1>2. pc'[w] = "dead" /\ ~Holding(w)'
  BY <1>1 DEF EndSession, Goto, TypeOK, Holding, Open
<1>3. OnlyBy(w)
  BY <1>1 DEF EndSession, DropConsumer, Goto, TypeOK, QueueTypeOK, OnlyBy, Same
<1>4. \A a \in Analyses : InQueue(a) => InQueue(a)'
  BY <1>1, QueueKeeps
<1> QED
  BY <1>2, <1>3, <1>4, WorkerMoves

\* A step inside the session's transaction, in which the broker has no part.
LEMMA InsideDelivers ==
    ASSUME IInv, IInv', DeliveryInv, NEW w \in Workers, Holding(w),
           pc' = [pc EXCEPT ![w] = pc'[w]], pc'[w] # "commit",
           target' = target, db' = db, UNCHANGED queueVars, OnlyBy(w)
    PROVE  DeliveryInv'
<1>1. held[w] = target[w] /\ held' = held
  BY DEF DeliveryInv, ClaimKept, queueVars
<1>2. \A a \in Analyses : InQueue(a) => InQueue(a)'
  BY QueueKeeps
<1>3. pc[w] # "commit"
  BY DEF Holding
<1> QED
  BY <1>1, <1>2, <1>3, WorkerMoves

LEMMA UpdatesDeliver ==
    ASSUME IInv, IInv', DeliveryInv, NEW w \in Workers,
           \/ LoadAnalysis(w) \/ UpdateSelect(w) \/ UpdateFlush(w) \/ AnalyzerReturns(w)
           \/ /\ AnalyzerRaises(w) \/ StartRejected(w)
              /\ ~Die(w)
    PROVE  DeliveryInv'
<1>1. /\ TypeOK /\ w \in Sessions /\ w \notin Cancels /\ Shape(w)
  BY SessionFacts DEF Sessions
<1>2. /\ pc[w] \in {"load", "select", "flush", "analyze"}
      /\ target' = target /\ db' = db /\ UNCHANGED queueVars
      /\ \E step \in {"select", "flush", "analyze", "ack", "nack"} :
            pc' = [pc EXCEPT ![w] = step]
      /\ OnlyBy(w)
  <2>1. CASE LoadAnalysis(w)
    BY <1>1, <2>1 DEF LoadAnalysis, Updating, Goto, TypeOK, OnlyBy, Same, rowVars, queueVars
  <2>2. CASE UpdateSelect(w)
    BY <1>1, <2>2 DEF UpdateSelect, Goto, TypeOK, OnlyBy, Same, rowVars, queueVars
  <2>3. CASE UpdateFlush(w)
    <3>1. pc[w] = "flush" /\ plan[w] \in Operation /\ plan[w] # "cancel"
      BY <1>1, <2>3 DEF UpdateFlush, CanFlush, Shape
    <3>2. AfterFlush(plan[w]) \in {"analyze", "ack", "nack"}
      BY <3>1, AfterFlushStep
    <3> QED
      BY <1>1, <2>3, <3>1, <3>2 DEF UpdateFlush, Goto, TypeOK, OnlyBy, Same, queueVars
  <2>4. CASE AnalyzerReturns(w)
    BY <1>1, <2>4
       DEF AnalyzerReturns, Updating, Goto, TypeOK, OnlyBy, Same, rowVars, queueVars
  <2>5. CASE AnalyzerRaises(w) /\ ~Die(w)
    <3>1. PICK m \in BOOLEAN : HandleFailure(w, m) /\ UNCHANGED <<queueVars, own>>
      BY <2>5 DEF AnalyzerRaises
    <3>2. pc[w] = "analyze" /\ db' = db
      BY <2>5 DEF AnalyzerRaises
    <3> QED
      BY <1>1, <3>1, <3>2 DEF HandleFailure, Updating, Goto, TypeOK, OnlyBy, Same, queueVars
  <2>6. CASE StartRejected(w) /\ ~Die(w)
    <3>1. /\ HandleFailure(w, TRUE) /\ UNCHANGED queueVars /\ db' = db
          /\ own' = [own EXCEPT ![w] = NewVersion(w)]
          /\ pc[w] = "flush"
      BY <2>6 DEF StartRejected, CanFlush
    <3> QED
      BY <1>1, <3>1 DEF HandleFailure, Updating, Goto, TypeOK, OnlyBy, Same, queueVars
  <2> QED
    BY <2>1, <2>2, <2>3, <2>4, <2>5, <2>6
<1>3. Holding(w) /\ pc' = [pc EXCEPT ![w] = pc'[w]] /\ pc'[w] # "commit"
  BY <1>1, <1>2 DEF Holding, Open, TypeOK
<1> QED
  BY <1>2, <1>3, InsideDelivers

LEMMA RequeueDelivers ==
    ASSUME IInv, IInv', DeliveryInv, NEW w \in Workers, Requeue(w)
    PROVE  DeliveryInv'
<1>1. /\ TypeOK /\ QueueTypeOK /\ w \in Sessions /\ pc[w] = "nack" /\ NackJob(w)
      /\ Holding(w) /\ held[w] = target[w] /\ target[w] \in Analyses
  BY SessionFacts DEF Sessions, Requeue, Holding, Open, DeliveryInv, ClaimKept
<1>2. /\ pc'[w] = "commit" /\ target' = target /\ db' = db
      /\ ~Holding(w)' /\ OnlyBy(w)
  BY <1>1 DEF Requeue, NackJob, Goto, TypeOK, QueueTypeOK, Holding, OnlyBy, Same, rowVars
<1>3. \A a \in Analyses : InQueue(a) => InQueue(a)'
  BY <1>1, QueueKeeps
<1>4. ASSUME NEW a \in Analyses, target'[w] = a
      PROVE  InQueue(a)'
  BY <1>1, <1>2, <1>4 DEF NackJob, QueueTypeOK, InQueue
<1> QED
  BY <1>1, <1>2, <1>3, <1>4, WorkerMoves

LEMMA WorkerCommitDelivers ==
    ASSUME IInv, IInv', DeliveryInv, NEW w \in Workers, WorkerCommit(w)
    PROVE  DeliveryInv'
<1>1. TypeOK /\ w \in Sessions /\ w \notin Cancels /\ pc[w] = "commit"
  BY DEF Sessions, IInv, WorkerCommit
<1>2. /\ db' = [db EXCEPT ![target[w]] = Visible(w)]
      /\ own' = [own EXCEPT ![w] = NoRow] /\ pc'[w] = "idle"
      /\ UNCHANGED queueVars
  BY <1>1 DEF WorkerCommit, EndSession, Goto, TypeOK
<1>3. OnlyBy(w)
  BY <1>1 DEF WorkerCommit, EndSession, Goto, TypeOK, OnlyBy, Same, queueVars
<1> QED
  BY <1>1, <1>2, <1>3, CommitDelivers

LEMMA ProcessDelivers ==
    ASSUME IInv, IInv', DeliveryInv, Undisturbed, NEW w \in Workers, Process(w)
    PROVE  DeliveryInv'
<1>1. ~LoadFails(w) /\ ~AcknowledgeRaises(w)
  BY DEF LoadFails, AcknowledgeRaises, Inject, Undisturbed
<1>2. CASE CompletionRefused(w) \/ RetryRejected(w)
  <2>1. Die(w) /\ db' = db /\ pc[w] = "flush"
    BY <1>2 DEF CompletionRefused, RetryRejected, CanFlush
  <2> QED
    BY <2>1, DieDelivers
<1>3. CASE Die(w) /\ (AnalyzerRaises(w) \/ StartRejected(w))
  <2>1. db' = db /\ pc[w] \in {"analyze", "flush"}
    BY <1>3 DEF AnalyzerRaises, StartRejected, CanFlush
  <2> QED
    BY <1>3, <2>1, DieDelivers
<1> QED
  BY <1>1, <1>2, <1>3, UpdatesDeliver, AcknowledgeKeeps, RequeueDelivers, WorkerCommitDelivers
     DEF Process

LEMMA CancelDelivers ==
    ASSUME IInv, IInv', DeliveryInv, CancelsFinish, NEW c \in Cancels, Cancel(c)
    PROVE  DeliveryInv'
<1>1. TypeOK /\ c \in Sessions /\ c \notin Workers
  BY DEF Sessions, IInv
<1>2. CASE CancelCommit(c)
  <2>1. /\ pc[c] = "commit"
        /\ db' = [db EXCEPT ![target[c]] = Visible(c)]
        /\ own' = [own EXCEPT ![c] = NoRow] /\ pc'[c] = "done"
        /\ UNCHANGED queueVars
    BY <1>1, <1>2 DEF CancelCommit, EndSession, Goto, TypeOK
  <2>2. OnlyBy(c)
    BY <1>1, <1>2 DEF CancelCommit, EndSession, Goto, TypeOK, OnlyBy, Same, queueVars
  <2>3. ~Dirty(c) \/ own[c].status # "running"
    BY DEF CancelsFinish, Terminal
  <2> QED
    BY <1>1, <2>1, <2>2, <2>3, CommitDelivers
<1>3. CASE ~CancelCommit(c)
  <2>1. /\ \A w \in Workers : Same(w)
        /\ db' = db /\ UNCHANGED queueVars
    BY <1>1, <1>3
       DEF Cancel, CancelLoad, UpdateSelect, UpdateFlush, CancelAborts, Updating, EndSession,
           Goto, TypeOK, Same, Sessions, rowVars, queueVars
  <2>2. \A a \in Analyses : InQueue(a) => InQueue(a)'
    BY <2>1, QueueKeeps
  <2> QED
    BY <2>1, <2>2, NoWorkerKeeps
<1> QED
  BY <1>2, <1>3

LEMMA RequestDelivers ==
    ASSUME IInv, IInv', DeliveryInv, NEW a \in Analyses, Request(a)
    PROVE  DeliveryInv'
<1>1. TypeOK
  BY DEF IInv
<1>2. \A w \in Workers : Same(w)
  BY DEF Request, RequestAnalysis, PublishJob, PublicationFails, CommitRequest,
         CommitRequestFails, Enqueue, Same, queueVars, rowVars, sessionVars
<1>3. \A b \in Analyses : db'[b].status = "running" => db[b].status = "running"
  BY <1>1 DEF Request, RequestAnalysis, PublishJob, PublicationFails, CommitRequest,
              CommitRequestFails, rowVars, TypeOK, PendingRow
<1>4. UNCHANGED queueVars \/ \E n \in Nat : Enqueue(a, n)
  BY DEF Request, RequestAnalysis, PublishJob, PublicationFails, CommitRequest,
         CommitRequestFails
<1>5. \A b \in Analyses : InQueue(b) => InQueue(b)'
  BY <1>4, QueueKeeps
<1> QED
  BY <1>2, <1>3, <1>5, NoWorkerKeeps

LEMMA ClaimDelivers ==
    ASSUME IInv, IInv', DeliveryInv, NEW w \in Workers, NEW a \in Analyses, Claim(w, a)
    PROVE  DeliveryInv'
<1>1. TypeOK /\ QueueTypeOK /\ w \in Sessions
  BY DEF IInv, TypeOK, Sessions
<1>2. /\ pc[w] = "idle" /\ pc'[w] = "load" /\ held'[w] = a /\ target'[w] = a
      /\ db' = db /\ OnlyBy(w) /\ ClaimJob(w, a)
  BY <1>1 DEF Claim, ClaimJob, Goto, TypeOK, QueueTypeOK, OnlyBy, Same, rowVars
<1>3. \A b \in Analyses : InQueue(b) => InQueue(b)'
  BY <1>2, QueueKeeps
<1> QED
  BY <1>2, <1>3, WorkerMoves

LEMMA RestartDelivers ==
    ASSUME IInv, IInv', DeliveryInv, NEW w \in Workers, Restart(w)
    PROVE  DeliveryInv'
<1>1. TypeOK /\ QueueTypeOK /\ w \in Sessions
  BY DEF IInv, TypeOK, Sessions
<1>2. /\ pc[w] = "dead" /\ pc'[w] = "idle" /\ ~Holding(w)'
      /\ db' = db /\ OnlyBy(w) /\ UNCHANGED queueVars
  BY <1>1 DEF Restart, Goto, TypeOK, OnlyBy, Same, Holding, Open, rowVars, queueVars
<1>3. \A b \in Analyses : InQueue(b) => InQueue(b)'
  BY <1>2, QueueKeeps
<1> QED
  BY <1>2, <1>3, WorkerMoves

\* The broker restores a job, or nothing happens.
LEMMA RestDelivers ==
    ASSUME IInv, IInv', DeliveryInv,
           UNCHANGED vars \/ \E a \in Analyses : Redeliver(a)
    PROVE  DeliveryInv'
<1>1. /\ \A w \in Workers : Same(w)
      /\ db' = db
      /\ UNCHANGED queueVars \/ \E a \in Analyses : RestoreJob(a)
  BY DEF Redeliver, RestoreJob, Same, vars, queueVars, rowVars, sessionVars
<1>2. \A b \in Analyses : InQueue(b) => InQueue(b)'
  BY <1>1, QueueKeeps
<1> QED
  BY <1>1, <1>2, NoWorkerKeeps

LEMMA CancelsStep ==
    ASSUME IInv, CancelsFinish, [Next]_vars
    PROVE  CancelsFinish'
<1>1. SUFFICES ASSUME NEW c \in Cancels, Dirty(c)'
               PROVE  own'[c].status \in Terminal
  BY DEF CancelsFinish
<1>2. TypeOK /\ c \in Sessions /\ c \notin Workers
  BY DEF Sessions, IInv
<1>3. CASE own'[c] = own[c]
  BY <1>1, <1>3 DEF CancelsFinish, Dirty
<1>4. CASE UpdateFlush(c)
  <2>1. pc[c] = "flush" /\ plan[c] = "cancel" /\ own'[c] = NewVersion(c)
    BY <1>2, <1>4, SessionFacts DEF UpdateFlush, CanFlush, Shape, TypeOK
  <2> QED
    BY <1>2, <2>1, FlushedRow
<1>5. own'[c] \in {own[c], NoRow} \/ UpdateFlush(c)
  <2>1. ASSUME NEW w \in Workers, Process(w)
        PROVE  own'[c] = own[c]
    BY <1>2, <2>1
       DEF Process, LoadAnalysis, SkipAnalysis, LoadFails, UpdateSelect, UpdateFlush,
           StartRejected, CompletionRefused, RetryRejected, AnalyzerReturns, AnalyzerRaises,
           Acknowledge, AcknowledgeRaises, Requeue, WorkerCommit, Die, EndSession, rowVars, TypeOK
  <2>2. ASSUME NEW d \in Cancels, Cancel(d)
        PROVE  own'[c] \in {own[c], NoRow} \/ UpdateFlush(c)
    <3>1. CASE UpdateFlush(d)
      BY <1>2, <3>1 DEF UpdateFlush, TypeOK
    <3>2. CASE ~UpdateFlush(d)
      BY <1>2, <2>2, <3>2
         DEF Cancel, CancelLoad, UpdateSelect, CancelCommit, CancelAborts, EndSession, rowVars,
             TypeOK
    <3> QED
      BY <3>1, <3>2
  <2>3. ASSUME NEW a \in Analyses, Request(a)
        PROVE  own'[c] = own[c]
    BY <2>3 DEF Request, RequestAnalysis, PublishJob, PublicationFails, CommitRequest,
                CommitRequestFails, rowVars
  <2>4. ASSUME NEW w \in Workers, (\E a \in Analyses : Claim(w, a)) \/ Crash(w) \/ Restart(w)
        PROVE  own'[c] = own[c]
    BY <1>2, <2>4 DEF Claim, Crash, Restart, Die, EndSession, rowVars, TypeOK
  <2>5. CASE UNCHANGED vars \/ \E a \in Analyses : Redeliver(a)
    BY <2>5 DEF Redeliver, rowVars, vars
  <2> QED
    BY <2>1, <2>2, <2>3, <2>4, <2>5 DEF Next, Quiescent
<1> QED
  BY <1>1, <1>3, <1>4, <1>5 DEF Dirty

LEMMA DeliveryStep ==
    ASSUME IInv, IInv', DeliveryInv, CancelsFinish, Undisturbed, [Next]_vars
    PROVE  DeliveryInv'
<1>1. ~\E w \in Workers : Crash(w)
  BY DEF Crash, Inject, Undisturbed
<1> QED
  BY <1>1, ProcessDelivers, CancelDelivers, RequestDelivers, ClaimDelivers, RestartDelivers,
     RestDelivers
     DEF Next, Quiescent

-----------------------------------------------------------------------------

\* The claim a worker holds, the jobs put back and the running rows fit together.
THEOREM DeliveryInvariance ==
    ASSUME Undisturbed
    PROVE  Spec => []DeliveryInv
<1>1. Init => DeliveryInv /\ CancelsFinish
  <2> SUFFICES ASSUME Init
               PROVE  DeliveryInv /\ CancelsFinish
    OBVIOUS
  <2>1. /\ \A s \in Sessions : own[s] = NoRow /\ pc[s] \in {"idle", "new"}
        /\ \A a \in Analyses : db[a].status = "absent"
    BY DEF Init, NoRow
  <2> QED
    BY <2>1 DEF DeliveryInv, CancelsFinish, ClaimKept, JobPutBack, RunningHasJob, Committing,
                Holding, Open, Dirty, Sessions
<1>2. IInv /\ IInv' /\ DeliveryInv /\ CancelsFinish /\ [Next]_vars
        => DeliveryInv' /\ CancelsFinish'
  BY DeliveryStep, CancelsStep
<1> QED
  BY <1>1, <1>2, Invariance, PTL DEF Spec

\* Without crashes a running analysis always has a job that will be delivered, or
\* a worker about to commit the end of it, whatever cancellations come between.
THEOREM RunningIsDelivered ==
    ASSUME Undisturbed
    PROVE  Spec => []RunningHasJob
<1>1. DeliveryInv => RunningHasJob
  BY DEF DeliveryInv
<1> QED
  BY <1>1, DeliveryInvariance, PTL
=============================================================================
