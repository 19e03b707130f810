------------------------------ MODULE AnalysisRow ------------------------------
(***************************************************************************)
(* One row of the `analyses` table, the domain entity read from it and the *)
(* way the repository writes it back.                                      *)
(*                                                                         *)
(* A row keeps what the life cycle tells apart: the status, retry_count    *)
(* and whether completed_at is set.  The repository's `update` is not an   *)
(* assignment: it SELECTs the row, sets attributes on the object it        *)
(* loaded, and flushes an UPDATE that names only the columns whose value   *)
(* differs from what was loaded.  Under READ COMMITTED that UPDATE is      *)
(* applied to the newest committed version of the row, which may not be    *)
(* the loaded one.                                                         *)
(***************************************************************************)
EXTENDS Integers

CONSTANT MaxRetries      \* AnalysisWorkerSettings.max_retries

ASSUME MaxRetriesAssumption == MaxRetries \in Nat

Active   == {"pending", "running"}
Terminal == {"completed", "failed", "cancelled"}

Row == [status : Active \union Terminal \union {"absent"},
        retry  : Nat,
        done   : BOOLEAN]          \* completed_at IS NOT NULL

NoRow      == [status |-> "absent",  retry |-> 0, done |-> FALSE]
PendingRow == [status |-> "pending", retry |-> 0, done |-> FALSE]

\* _to_domain fills in a missing completed_at of a terminal row, so of the
\* checks in Analysis.validate one can still fail: a row that is not terminal
\* must not have completed_at.
Loadable(row) == row.status \notin Terminal => ~row.done

-----------------------------------------------------------------------------
(* The updates the worker and the service pass to AnalysisRepository.update. *)

Operation == {"start", "complete", "fail", "retry", "exhaust", "cancel"}

NewStatus(op) ==
    CASE op \in {"start", "retry"}   -> "running"
      [] op = "complete"             -> "completed"
      [] op \in {"fail", "exhaust"}  -> "failed"
      [] op = "cancel"               -> "cancelled"

\* Only the two writes of _handle_failure name retry_count; the value comes from
\* the entity read when the job was claimed, not from the row being written.
CountsRetry(op)     == op \in {"retry", "exhaust"}
FrozenRetry(entity) == entity.retry             \* mutant: attempts are not counted
NextRetry(entity)   == entity.retry + 1

\* Mutant: what was loaded is not validated along with what was set.
AssignedAlone(base, op, entity) ==
    [status |-> NewStatus(op),
     retry  |-> IF CountsRetry(op) THEN NextRetry(entity) ELSE base.retry,
     done   |-> NewStatus(op) \in Terminal]

\* The object after setattr: what _to_domain validates once the flush is done.
Assigned(base, op, entity) ==
    [status |-> NewStatus(op),
     retry  |-> IF CountsRetry(op) THEN NextRetry(entity) ELSE base.retry,
     done   |-> base.done \/ NewStatus(op) \in Terminal]

\* Mutant: the UPDATE writes every column of the object.
MergedWhole(latest, base, op, entity) == Assigned(base, op, entity)

\* The row after the UPDATE: columns equal to the loaded ones are not in its SET
\* clause and keep the value of the newest version.
Merged(latest, base, op, entity) ==
    [status |-> IF NewStatus(op) # base.status THEN NewStatus(op)
                                               ELSE latest.status,
     retry  |-> IF CountsRetry(op) /\ NextRetry(entity) # base.retry
                THEN NextRetry(entity)
                ELSE latest.retry,
     done   |-> latest.done \/ NewStatus(op) \in Terminal]
=============================================================================
