------------------------------- MODULE AssetStore -------------------------------
(***************************************************************************)
(* What the upload pipeline promises, seen from the committed database: an *)
(* upload appears whole, linked to the one asset of its content; content,  *)
(* once recorded, is there for good, although its asset may be deleted;    *)
(* nothing brings a deleted asset back.                                    *)
(***************************************************************************)
CONSTANTS Uploads, Contents, NoContent

VARIABLES
    kept,       \* what became of each content's asset
    linked      \* the content each recorded upload is linked to

storeVars == <<kept, linked>>

Init ==
    /\ kept = [c \in Contents |-> "absent"]
    /\ linked = [u \in Uploads |-> NoContent]

\* An upload is recorded together with its asset, which it may share.
Record(u, c) ==
    /\ linked[u] = NoContent
    /\ linked' = [linked EXCEPT ![u] = c]
    /\ kept' = [kept EXCEPT ![c] = IF @ = "absent" THEN "live" ELSE @]

Forget(u) ==
    /\ linked[u] # NoContent
    /\ linked' = [linked EXCEPT ![u] = NoContent]
    /\ UNCHANGED kept

Delete(c) ==
    /\ kept[c] = "live"
    /\ kept' = [kept EXCEPT ![c] = "deleted"]
    /\ UNCHANGED linked

Next ==
    \/ \E u \in Uploads : Forget(u) \/ \E c \in Contents : Record(u, c)
    \/ \E c \in Contents : Delete(c)
================================================================================
