-------------------------------- MODULE UploadRow --------------------------------
(***************************************************************************)
(* A row of the uploads table and the Upload entity that is made from it:  *)
(* the entity's factory and transitions, what it accepts when a row is     *)
(* loaded, and the CHECK constraints of the table.                         *)
(***************************************************************************)
CONSTANTS
    Uploads,    \* identifiers; an asset has that of the upload it was made from
    NoAsset     \* digital_asset_id is NULL

Statuses         == {"pending", "processing", "completed", "failed"}
TerminalStatuses == {"completed", "failed"}

UploadRow == [status : Statuses \union {"absent"},
              asset  : Uploads \union {NoAsset},
              ended  : BOOLEAN]         \* completed_at is set

NoRow == [status |-> "absent", asset |-> NoAsset, ended |-> FALSE]

NewUpload == [status |-> "pending", asset |-> NoAsset, ended |-> FALSE]

\* Mutant: an UPDATE without the link.
Unlinked(row, a) == [row EXCEPT !.status = "completed", !.ended = TRUE]

\* What each transition of the entity asks for, and the row its UPDATE leaves.
MayStart(row)    == row.status = "pending"
MayComplete(row) == row.status = "processing"
MayFail(row)     == row.status \notin TerminalStatuses

Started(row)      == [row EXCEPT !.status = "processing"]
Completed(row, a) == [row EXCEPT !.status = "completed", !.asset = a, !.ended = TRUE]
Failed(row)       == [row EXCEPT !.status = "failed", !.ended = TRUE]

\* validate(), which runs whenever a row is turned into an entity.
Loadable(row) ==
    /\ row.status \in Statuses
    /\ row.asset # NoAsset => row.status = "completed"
    /\ row.ended <=> row.status \in TerminalStatuses

\* The CHECK constraints.
Checked(row) ==
    /\ row.status \in Statuses
    /\ row.asset = NoAsset \/ row.status = "completed"
==================================================================================
