----------------------------- MODULE UploadPipeline -----------------------------
(***************************************************************************)
(* The upload pipeline: requests that stream a file to object storage and  *)
(* record it in the database, the routes that delete uploads and assets,   *)
(* and the cleanup of abandoned uploads.                                   *)
(*                                                                         *)
(* A request runs in one database transaction (READ COMMITTED), committed  *)
(* by get_db_session after the handler returned; object storage takes part *)
(* in no transaction.  A step ends where the code awaits one of the two.   *)
(* An INSERT waits at a unique index for the transaction that holds the    *)
(* same value, and then fails if that transaction committed.               *)
(***************************************************************************)
EXTENDS UploadRow

\* An element of Uploads stands for one request and names its row, its object and the
\* asset it may create, whose identifiers are all fresh uuid4s.
CONSTANTS
    Users, Keys, Contents,
    NoKey,      \* the request carries no Idempotency-Key
    NoContent,
    Faults      \* the failures that may happen

ASSUME UploadAssumption ==
    /\ NoAsset \notin Uploads
    /\ NoContent \notin Contents
    /\ Faults \subseteq {"storage", "audit", "abort"}

VARIABLES
    upload,     \* the committed rows of uploads
    asset,      \* the committed rows of digital_assets, by the upload that made them
    object,     \* the storage keys under which an object is stored
    ask,        \* what each request asks for; fixed
    pc,         \* where each request stands
    row,        \* its uncommitted row of uploads
    link,       \* the asset it resolved its content to
    answer      \* what its handler has answered, or raised

rowVars == <<upload, asset, ask>>
vars == <<upload, asset, object, ask, pc, row, link, answer>>

Request == [user : Users, key : Keys \union {NoKey}, content : Contents]

Steps == {"idle", "lookup", "insert", "validate", "store", "resolve", "create",
          "discard", "complete", "audit", "commit", "raise", "done"}

Answers == {"none", "replayed", "mime", "invalid", "too_large", "storage",
            "conflict", "completed", "error"}

UploadsTypeOK ==
    /\ upload \in [Uploads -> UploadRow]
    /\ asset \in [Uploads -> {"absent", "live", "deleted"}]
    /\ object \subseteq Uploads
    /\ ask \in [Uploads -> Request]
    /\ pc \in [Uploads -> Steps]
    /\ row \in [Uploads -> UploadRow]
    /\ link \in [Uploads -> Uploads \union {NoAsset}]
    /\ answer \in [Uploads -> Answers]

Init ==
    /\ upload = [r \in Uploads |-> NoRow]
    /\ asset = [r \in Uploads |-> "absent"]
    /\ object = {}
    /\ ask \in [Uploads -> Request]
    /\ pc = [r \in Uploads |-> "idle"]
    /\ row = [r \in Uploads |-> NoRow]
    /\ link = [r \in Uploads |-> NoAsset]
    /\ answer = [r \in Uploads |-> "none"]

-----------------------------------------------------------------------------
(* The database *)

Recorded(u) == upload[u].status # "absent"
InFlight(u) == row[u].status # "absent"
Stored(a)   == asset[a] # "absent"

\* The partial unique index uq_uploads_user_idempotency_key.
SameKey(q, r) == /\ ask[r].key # NoKey
                 /\ ask[q].key = ask[r].key
                 /\ ask[q].user = ask[r].user

\* Mutant: the index does not see rows in flight.
NoKeyPending(r) == FALSE

KeyTaken(r)   == \E q \in Uploads : Recorded(q) /\ SameKey(q, r)
KeyPending(r) == \E q \in Uploads \ {r} : InFlight(q) /\ SameKey(q, r)

\* The partial unique index uq_digital_assets_sha256_hash, deleted rows included.
SameContent(q, r) == ask[q].content = ask[r].content

\* Mutants: the index leaves out deleted assets; it does not see rows in flight.
LiveTaken(r)        == \E a \in Uploads : asset[a] = "live" /\ SameContent(a, r)
NoContentPending(r) == FALSE

ContentTaken(r)   == \E a \in Uploads : Stored(a) /\ SameContent(a, r)
ContentPending(r) == \E q \in Uploads \ {r} : link[q] = q /\ SameContent(q, r)

-----------------------------------------------------------------------------
(* Bookkeeping of a request *)

Goto(r, step) == pc' = [pc EXCEPT ![r] = step]

\* Mutant: the connection is not given back, and its transaction stays open.
EndLeaking(r, a) ==
    /\ Goto(r, "done")
    /\ answer' = [answer EXCEPT ![r] = a]
    /\ UNCHANGED <<row, link>>

\* The transaction is over.
End(r, a) ==
    /\ Goto(r, "done")
    /\ row' = [row EXCEPT ![r] = NoRow]
    /\ link' = [link EXCEPT ![r] = NoAsset]
    /\ answer' = [answer EXCEPT ![r] = a]

Rollback(r, a) == End(r, a) /\ UNCHANGED rowVars

\* _fail_upload marks the row failed and the exception goes on, to roll it back.
Fail(r, a) ==
    /\ MayFail(row[r])
    /\ Goto(r, "raise")
    /\ row' = [row EXCEPT ![r] = Failed(@)]
    /\ answer' = [answer EXCEPT ![r] = a]
    /\ UNCHANGED <<upload, asset, ask, link>>

\* A step that only goes on to the next one.
Step(r, from, to) ==
    /\ pc[r] = from
    /\ Goto(r, to)
    /\ UNCHANGED <<rowVars, row, link, answer>>

-----------------------------------------------------------------------------
(* process_upload *)

Arrive(r) == Step(r, "idle", "lookup") /\ UNCHANGED object

\* A replay answers with the recorded upload; otherwise the declared type decides.
Lookup(r) ==
    /\ UNCHANGED object
    /\ \/ pc[r] = "lookup" /\ KeyTaken(r) /\ Rollback(r, "replayed")
       \/ pc[r] = "lookup" /\ ~KeyTaken(r) /\ Rollback(r, "mime")
       \/ ~KeyTaken(r) /\ Step(r, "lookup", "insert")

\* The row is inserted as pending and updated to processing.
Insert(r) ==
    /\ pc[r] = "insert"
    /\ ~KeyPending(r)
    /\ \/ /\ ~KeyTaken(r)
          /\ Goto(r, "validate")
          /\ MayStart(NewUpload)
          /\ row' = [row EXCEPT ![r] = Started(NewUpload)]
          /\ UNCHANGED <<rowVars, link, answer>>
       \/ KeyTaken(r) /\ Rollback(r, "conflict")
    /\ UNCHANGED object

Validate(r) ==
    /\ \/ Step(r, "validate", "store")
       \/ pc[r] = "validate" /\ Fail(r, "invalid")
    /\ UNCHANGED object

\* A storage error may hide that the object was stored after all.
Store(r) ==
    \/ Step(r, "store", "resolve") /\ object' = object \union {r}
    \/ pc[r] = "store" /\ Fail(r, "too_large") /\ UNCHANGED object
    \/ /\ "storage" \in Faults
       /\ pc[r] = "store"
       /\ Fail(r, "storage")
       /\ object' \in {object, object \union {r}}

Raise(r) == pc[r] = "raise" /\ Rollback(r, answer[r]) /\ UNCHANGED object

\* get_by_hash does not see deleted assets.
Resolve(r) ==
    /\ \/ /\ pc[r] = "resolve"
          /\ \E a \in Uploads :
                /\ asset[a] = "live" /\ SameContent(a, r)
                /\ link' = [link EXCEPT ![r] = a]
          /\ Goto(r, "discard")
          /\ UNCHANGED <<rowVars, row, answer>>
       \/ /\ \A a \in Uploads : ~(asset[a] = "live" /\ SameContent(a, r))
          /\ Step(r, "resolve", "create")
    /\ UNCHANGED object

Create(r) ==
    /\ pc[r] = "create"
    /\ ~ContentPending(r)
    /\ \/ /\ ~ContentTaken(r)
          /\ Goto(r, "complete")
          /\ link' = [link EXCEPT ![r] = r]
          /\ UNCHANGED <<rowVars, row, answer>>
       \/ ContentTaken(r) /\ Rollback(r, "conflict")
    /\ UNCHANGED object

\* Mutant: the key of the asset, not that of the request.
DiscardAsset(r) ==
    /\ Step(r, "discard", "complete")
    /\ object' = object \ {link[r]}

\* The redundant object is removed, at best.
Discard(r) ==
    /\ Step(r, "discard", "complete")
    /\ \/ object' = object \ {r}
       \/ "storage" \in Faults /\ UNCHANGED object

Complete(r) ==
    /\ pc[r] = "complete"
    /\ MayComplete(row[r])
    /\ Goto(r, "audit")
    /\ row' = [row EXCEPT ![r] = Completed(@, link[r])]
    /\ UNCHANGED <<rowVars, object, link, answer>>

\* A refused audit entry has rolled the transaction back, but is swallowed.
Audit(r) ==
    /\ pc[r] = "audit"
    /\ \/ /\ Goto(r, "commit")
          /\ answer' = [answer EXCEPT ![r] = "completed"]
          /\ UNCHANGED <<rowVars, row, link>>
       \/ "audit" \in Faults /\ Rollback(r, "completed")
    /\ UNCHANGED object

Commit(r) ==
    /\ pc[r] = "commit"
    /\ upload' = [upload EXCEPT ![r] = row[r]]
    /\ asset' = IF link[r] = r THEN [asset EXCEPT ![r] = "live"] ELSE asset
    /\ End(r, answer[r])
    /\ UNCHANGED <<object, ask>>

\* A statement or the commit fails, the client disconnects or the server dies; in
\* the middle of a multipart upload its completion may have gone through.
Abort(r) ==
    /\ "abort" \in Faults
    /\ pc[r] \notin {"idle", "done"}
    /\ Rollback(r, IF answer[r] = "none" THEN "error" ELSE answer[r])
    /\ \/ UNCHANGED object
       \/ pc[r] = "store" /\ object' = object \union {r}

-----------------------------------------------------------------------------
(* The other requests, and the scheduled job *)

requestVars == <<ask, pc, row, link, answer>>

\* Uploads are deleted for good, although the route speaks of a soft delete.
DeleteUpload(u) ==
    /\ Recorded(u)
    /\ upload' = [upload EXCEPT ![u] = NoRow]
    /\ UNCHANGED <<asset, object, requestVars>>

DeleteAsset(a) ==
    /\ asset[a] = "live"
    /\ asset' = [asset EXCEPT ![a] = "deleted"]
    /\ UNCHANGED <<upload, object, requestVars>>

\* Uploads left pending for 24 hours are failed and their objects removed.
Abandoned == {u \in Uploads : upload[u].status = "pending"}

Cleanup ==
    /\ upload' = [u \in Uploads |->
                    IF u \in Abandoned THEN Failed(upload[u]) ELSE upload[u]]
    /\ object' = object \ Abandoned
    /\ UNCHANGED <<asset, requestVars>>

-----------------------------------------------------------------------------
Proceed(r) ==
    \/ Lookup(r) \/ Insert(r) \/ Validate(r) \/ Store(r) \/ Raise(r)
    \/ Resolve(r) \/ Create(r) \/ Discard(r) \/ Complete(r) \/ Audit(r) \/ Commit(r)

Next ==
    \/ \E r \in Uploads : Arrive(r) \/ Proceed(r) \/ Abort(r)
    \/ \E u \in Uploads : DeleteUpload(u) \/ DeleteAsset(u)
    \/ Cleanup

\* The server keeps running every request it has accepted, and PostgreSQL wakes
\* the waiters of an index entry in the order of their arrival.
Fairness == \A r \in Uploads : SF_vars(Proceed(r))

Spec == Init /\ [][Next]_vars /\ Fairness
-----------------------------------------------------------------------------
(* Properties *)

\* The bytes of every asset that was ever recorded are in object storage: an asset
\* is committed after its object was written, and neither the removal of redundant
\* objects nor the cleanup touches an object that an asset was made from.
AssetHasObject == \A a \in Uploads : Stored(a) => a \in object

\* What the code leaves of uploads: a recorded one can be loaded, is completed, and
\* is linked to a recorded asset of exactly the bytes it sent, whoever sent them
\* first.  That none is recorded as failed is no promise of the code's, but what
\* becomes of the one below.
UploadsResolve ==
    \A u \in Uploads :
        Recorded(u) =>
            /\ Loadable(upload[u]) /\ Checked(upload[u])
            /\ upload[u].status = "completed"
            /\ upload[u].asset \in Uploads
            /\ Stored(upload[u].asset)
            /\ SameContent(upload[u].asset, u)

\* The promise of process_upload and _fail_upload: a request that ends because its
\* content, its size or the storage failed it leaves its upload recorded as failed.
\* (The code breaks it; stated of runs in which nothing else goes wrong.)
Failures == {"invalid", "too_large", "storage"}

FailedUploadsRecorded ==
    [][\A r \in Uploads :
         pc[r] # "done" /\ pc'[r] = "done" /\ answer'[r] \in Failures =>
             upload'[r].status = "failed"]_vars

\* However requests race, content has one asset, and a client's idempotency key
\* one upload.
Deduplicated ==
    \A q, r \in Uploads :
        q # r => /\ Stored(q) /\ Stored(r) => ~SameContent(q, r)
                 /\ Recorded(q) /\ Recorded(r) => ~SameKey(q, r)

\* What keeps those true step by step.  A request that is under way has committed
\* nothing; it has the object it is about to make an asset of, holds its index
\* entries alone, and has not linked to an asset of other content.
Inserted == {"validate", "store", "resolve", "create", "discard", "complete",
             "audit", "commit", "raise"}
Linked   == {"discard", "complete", "audit", "commit"}

ShapeOf(r) ==
    /\ pc[r] # "done" => ~Recorded(r) /\ ~Stored(r)
    /\ InFlight(r) <=> pc[r] \in Inserted
    /\ link[r] # NoAsset <=> pc[r] \in Linked
    /\ pc[r] \in Inserted \ {"audit", "commit", "raise"} => row[r] = Started(NewUpload)
    /\ pc[r] \in {"audit", "commit"} => row[r] = Completed(Started(NewUpload), link[r])
    /\ pc[r] \in {"resolve", "create"} => r \in object
    /\ pc[r] = "discard" => link[r] # r

RequestShape == \A r \in Uploads : ShapeOf(r)

LinkResolves(r) ==
    link[r] # NoAsset =>
        /\ SameContent(link[r], r)
        /\ link[r] # r => Stored(link[r])
        /\ link[r] = r => r \in object

LinksResolve == \A r \in Uploads : LinkResolves(r)

EntriesExclusive ==
    \A q, r \in Uploads :
        q # r => /\ InFlight(q) /\ SameKey(q, r)
                       => ~InFlight(r) /\ ~Recorded(r)
                 /\ link[q] = q /\ SameContent(q, r)
                       => link[r] # r /\ ~Stored(r)

UploadInv ==
    /\ UploadsTypeOK
    /\ RequestShape
    /\ LinksResolve
    /\ EntriesExclusive
    /\ AssetHasObject
    /\ UploadsResolve
    /\ Deduplicated

\* The committed rows implement AssetStore: an upload and its asset appear in one
\* step, nothing changes them but their deletion, and deleted assets stay deleted.
Kept ==
    [c \in Contents |->
        IF \E a \in Uploads : asset[a] = "live" /\ ask[a].content = c THEN "live"
        ELSE IF \E a \in Uploads : asset[a] = "deleted" /\ ask[a].content = c
             THEN "deleted" ELSE "absent"]

LinkedTo ==
    [u \in Uploads |->
        IF Recorded(u) THEN ask[upload[u].asset].content ELSE NoContent]

Catalogue == INSTANCE AssetStore WITH kept <- Kept, linked <- LinkedTo

ImplementsStore == Catalogue!Init /\ [][Catalogue!Next]_(Catalogue!storeVars)

\* The INSERT that r stands before waits at a unique index for another transaction.
Waits(r) ==
    \/ pc[r] = "insert" /\ KeyPending(r)
    \/ pc[r] = "create" /\ ContentPending(r)

\* Requests wait for each other at two indexes, always for the key first and the
\* content second, so never in a circle: of the requests that are under way, however
\* many, one is not kept waiting by another.
UnderWay(r) == pc[r] \notin {"idle", "done"}

NoCircularWait ==
    (\E r \in Uploads : UnderWay(r)) => \E r \in Uploads : UnderWay(r) /\ ~Waits(r)

\* None waits for ever, either: every upload comes to an end.
UploadsEnd == \A r \in Uploads : pc[r] # "idle" ~> pc[r] = "done"
================================================================================
