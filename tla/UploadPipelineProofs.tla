-------------------------- MODULE UploadPipelineProofs --------------------------
(***************************************************************************)
(* Theorems about UploadPipeline, for any number of requests, users, keys  *)
(* and contents and whatever faults happen.  The inductive invariant is    *)
(* UploadInv.  Only Commit and the deletions write committed rows; for all *)
(* other steps the conjuncts about rows carry over (RowsKept).             *)
(***************************************************************************)
EXTENDS UploadPipeline, TLAPS

LEMMA InitUploads == Init => UploadInv
  <1> SUFFICES ASSUME Init PROVE UploadInv
    OBVIOUS
  <1> USE UploadAssumption DEF Init
  <1>1. UploadsTypeOK
    BY DEF UploadsTypeOK, UploadRow, Statuses, NoRow, Steps, Answers
  <1>2. \A r \in Uploads : ~Recorded(r) /\ ~Stored(r) /\ ~InFlight(r)
    BY DEF Recorded, Stored, InFlight, NoRow
  <1>3. RequestShape /\ LinksResolve /\ EntriesExclusive
    BY <1>2 DEF RequestShape, ShapeOf, LinksResolve, LinkResolves, EntriesExclusive,
           Inserted, Linked
  <1>4. AssetHasObject /\ UploadsResolve /\ Deduplicated
    BY <1>2 DEF AssetHasObject, UploadsResolve, Deduplicated
  <1> QED
    BY <1>1, <1>3, <1>4 DEF UploadInv

(***************************************************************************)
(* What a step that leaves the committed rows alone keeps, provided it     *)
(* does not remove the object of an asset.                                 *)
(***************************************************************************)

LEMMA RowsKept ==
    ASSUME UploadInv, UNCHANGED rowVars
    PROVE  /\ \A u : Recorded(u)' = Recorded(u) /\ Stored(u)' = Stored(u)
           /\ \A q, r : SameKey(q, r)' = SameKey(q, r)
           /\ \A q, r : SameContent(q, r)' = SameContent(q, r)
           /\ UploadsResolve'
           /\ Deduplicated'
  <1> USE DEF rowVars
  <1>1. \A u : Recorded(u)' = Recorded(u) /\ Stored(u)' = Stored(u)
    BY DEF Recorded, Stored
  <1>2. /\ \A q, r : SameKey(q, r)' = SameKey(q, r)
        /\ \A q, r : SameContent(q, r)' = SameContent(q, r)
    BY DEF SameKey, SameContent
  <1>3. UploadsResolve'
    BY <1>1, <1>2 DEF UploadInv, UploadsResolve
  <1>4. Deduplicated'
    BY <1>1, <1>2 DEF UploadInv, Deduplicated
  <1> QED
    BY <1>1, <1>2, <1>3, <1>4

\* A step of r that commits nothing keeps the invariant, if r itself is left well.
LEMMA StepKeeps ==
    ASSUME UploadInv, NEW r \in Uploads, UNCHANGED rowVars, UploadsTypeOK',
           \A q \in Uploads \ {r} :
               pc'[q] = pc[q] /\ row'[q] = row[q] /\ link'[q] = link[q],
           object \ {r} \subseteq object',
           Stored(r) => r \in object',
           ShapeOf(r)', LinkResolves(r)',
           InFlight(r)' => InFlight(r) \/ ~(KeyPending(r) \/ KeyTaken(r)),
           link'[r] = r => link[r] = r \/ ~(ContentPending(r) \/ ContentTaken(r))
    PROVE  UploadInv'
  <1> USE DEF rowVars
  <1>1. RequestShape'
    <2> SUFFICES ASSUME NEW q \in Uploads, q # r PROVE ShapeOf(q)'
      BY DEF RequestShape
    <2> QED
      BY RowsKept DEF UploadInv, RequestShape, ShapeOf, InFlight
  <1>2. LinksResolve'
    <2> SUFFICES ASSUME NEW q \in Uploads, q # r PROVE LinkResolves(q)'
      BY DEF LinksResolve
    <2> QED
      BY RowsKept DEF UploadInv, LinksResolve, LinkResolves, SameContent, Stored
  <1>3. EntriesExclusive'
    <2> SUFFICES ASSUME NEW p \in Uploads, NEW q \in Uploads, p # q
                 PROVE  /\ row'[p].status # "absent" /\ SameKey(p, q)
                              => row'[q].status = "absent" /\ ~Recorded(q)
                        /\ link'[p] = p /\ SameContent(p, q)
                              => link'[q] # q /\ ~Stored(q)
      BY RowsKept DEF EntriesExclusive, InFlight
    <2>1. /\ InFlight(p) /\ SameKey(p, q) => ~InFlight(q) /\ ~Recorded(q)
          /\ InFlight(q) /\ SameKey(q, p) => ~InFlight(p) /\ ~Recorded(p)
          /\ link[p] = p /\ SameContent(p, q) => link[q] # q /\ ~Stored(q)
          /\ link[q] = q /\ SameContent(q, p) => link[p] # p /\ ~Stored(p)
      BY DEF UploadInv, EntriesExclusive
    <2>2. /\ SameKey(p, q) => SameKey(q, p)
          /\ SameContent(p, q) => SameContent(q, p)
      BY DEF SameKey, SameContent
    <2>3. (row'[r].status # "absent" /\ ~InFlight(r)) =>
              /\ \A o \in Uploads \ {r} : ~(InFlight(o) /\ SameKey(o, r))
              /\ \A o \in Uploads : ~(Recorded(o) /\ SameKey(o, r))
      BY DEF KeyPending, KeyTaken, InFlight
    <2>4. (link'[r] = r /\ link[r] # r) =>
              /\ \A o \in Uploads \ {r} : ~(link[o] = o /\ SameContent(o, r))
              /\ \A o \in Uploads : ~(Stored(o) /\ SameContent(o, r))
      BY DEF ContentPending, ContentTaken
    <2>5. row'[p].status # "absent" /\ SameKey(p, q)
              => row'[q].status = "absent" /\ ~Recorded(q)
      <3>1. CASE p = r
        BY <3>1, <2>1, <2>2, <2>3 DEF InFlight
      <3>2. CASE q = r
        BY <3>2, <2>1, <2>2, <2>3 DEF InFlight
      <3>3. CASE p # r /\ q # r
        BY <3>3, <2>1 DEF InFlight
      <3> QED
        BY <3>1, <3>2, <3>3
    <2>6. link'[p] = p /\ SameContent(p, q) => link'[q] # q /\ ~Stored(q)
      <3>1. CASE p = r
        BY <3>1, <2>1, <2>2, <2>4
      <3>2. CASE q = r
        BY <3>2, <2>1, <2>2, <2>4
      <3>3. CASE p # r /\ q # r
        BY <3>3, <2>1
      <3> QED
        BY <3>1, <3>2, <3>3
    <2> QED
      BY <2>5, <2>6
  <1>4. AssetHasObject'
    BY RowsKept DEF UploadInv, AssetHasObject
  <1> QED
    BY <1>1, <1>2, <1>3, <1>4, RowsKept DEF UploadInv

\* A transaction that is rolled back leaves nothing but, perhaps, an object.
LEMMA RollbackKeeps ==
    ASSUME UploadInv, NEW r \in Uploads, NEW a \in Answers, Rollback(r, a),
           object \subseteq object', object' \subseteq Uploads
    PROVE  UploadInv'
  <1> USE UploadAssumption DEF Rollback, End, Goto
  <1>1. UNCHANGED rowVars
    OBVIOUS
  <1>2. UploadsTypeOK'
    BY DEF UploadInv, UploadsTypeOK, rowVars, Steps, UploadRow, NoRow
  <1>3. /\ pc'[r] = "done" /\ row'[r] = NoRow /\ link'[r] = NoAsset
        /\ \A q \in Uploads \ {r} :
               pc'[q] = pc[q] /\ row'[q] = row[q] /\ link'[q] = link[q]
    BY DEF UploadInv, UploadsTypeOK
  <1>4. ShapeOf(r)' /\ LinkResolves(r)' /\ ~InFlight(r)'
    BY <1>3 DEF ShapeOf, LinkResolves, InFlight, NoRow, Inserted, Linked
  <1>5. Stored(r) => r \in object'
    BY DEF UploadInv, AssetHasObject
  <1> QED
    BY <1>1, <1>2, <1>3, <1>4, <1>5, StepKeeps

(***************************************************************************)
(* One lemma per action of a request.                                      *)
(***************************************************************************)

\* A step that only goes on, provided r is left well.
LEMMA GoesOn ==
    ASSUME UploadInv, NEW r \in Uploads, NEW from, NEW to \in Steps, Step(r, from, to),
           object \ {r} \subseteq object', object' \subseteq Uploads,
           Stored(r) => r \in object',
           ShapeOf(r)', LinkResolves(r)'
    PROVE  UploadInv'
  <1> USE DEF Step, Goto, rowVars
  <1>1. UploadsTypeOK'
    BY DEF UploadInv, UploadsTypeOK
  <1>2. \A q \in Uploads \ {r} :
            pc'[q] = pc[q] /\ row'[q] = row[q] /\ link'[q] = link[q]
    BY DEF UploadInv, UploadsTypeOK
  <1>3. InFlight(r)' => InFlight(r)
    BY DEF InFlight
  <1> QED
    BY <1>1, <1>2, <1>3, StepKeeps

LEMMA ArriveKeeps ==
    ASSUME UploadInv, NEW r \in Uploads, Arrive(r)
    PROVE  UploadInv'
  <1> USE DEF Arrive, Step, Goto, rowVars
  <1>1. ShapeOf(r) /\ LinkResolves(r) /\ pc'[r] = "lookup"
    BY DEF UploadInv, UploadsTypeOK, RequestShape, LinksResolve
  <1>2. ShapeOf(r)' /\ LinkResolves(r)'
    BY <1>1 DEF ShapeOf, LinkResolves, Inserted, Linked, InFlight, Recorded, Stored,
                SameContent
  <1> QED
    BY <1>2, GoesOn DEF Steps, UploadInv, UploadsTypeOK, AssetHasObject

LEMMA LookupKeeps ==
    ASSUME UploadInv, NEW r \in Uploads, Lookup(r)
    PROVE  UploadInv'
  <1>0. object \subseteq object' /\ object' \subseteq Uploads
    BY DEF Lookup, UploadInv, UploadsTypeOK
  <1>1. CASE Rollback(r, "replayed") \/ Rollback(r, "mime")
    BY <1>0, <1>1, RollbackKeeps DEF Answers
  <1>2. CASE Step(r, "lookup", "insert")
    <2> USE <1>0, <1>2 DEF Step, Goto, rowVars
    <2>1. ShapeOf(r) /\ LinkResolves(r) /\ pc'[r] = "insert"
      BY DEF UploadInv, UploadsTypeOK, RequestShape, LinksResolve
    <2>2. ShapeOf(r)' /\ LinkResolves(r)'
      BY <2>1 DEF Lookup, ShapeOf, LinkResolves, Inserted, Linked, InFlight, Recorded,
                  Stored, SameContent
    <2> QED
      BY <2>2, GoesOn DEF Steps, UploadInv, AssetHasObject
  <1> QED
    BY <1>1, <1>2 DEF Lookup

LEMMA InsertKeeps ==
    ASSUME UploadInv, NEW r \in Uploads, Insert(r)
    PROVE  UploadInv'
  <1>1. CASE Rollback(r, "conflict")
    BY <1>1, RollbackKeeps DEF Insert, Answers, UploadInv, UploadsTypeOK
  <1>2. CASE /\ ~KeyTaken(r)
             /\ Goto(r, "validate")
             /\ row' = [row EXCEPT ![r] = Started(NewUpload)]
             /\ UNCHANGED <<rowVars, link, answer>>
    <2> USE <1>2 DEF Insert, Goto, rowVars
    <2>1. UploadsTypeOK'
      BY DEF UploadInv, UploadsTypeOK, Steps, UploadRow, Statuses, Started, NewUpload
    <2>2. /\ pc'[r] = "validate" /\ row'[r] = Started(NewUpload) /\ link'[r] = link[r]
          /\ \A q \in Uploads \ {r} :
                 pc'[q] = pc[q] /\ row'[q] = row[q] /\ link'[q] = link[q]
      BY DEF UploadInv, UploadsTypeOK
    <2>3. ShapeOf(r) /\ LinkResolves(r)
      BY DEF UploadInv, RequestShape, LinksResolve
    <2>4. ShapeOf(r)' /\ LinkResolves(r)'
      BY <2>2, <2>3 DEF ShapeOf, LinkResolves, Inserted, Linked, InFlight, Recorded,
                        Stored, SameContent, Started, NewUpload
    <2>5. /\ Stored(r) => r \in object'
          /\ InFlight(r)' => ~(KeyPending(r) \/ KeyTaken(r))
          /\ object \ {r} \subseteq object'
      BY DEF UploadInv, AssetHasObject
    <2> QED
      BY <2>1, <2>2, <2>4, <2>5, StepKeeps
  <1> QED
    BY <1>1, <1>2 DEF Insert

\* The row that _fail_upload marks is in flight, and stays r's own.
LEMMA FailKeeps ==
    ASSUME UploadInv, NEW r \in Uploads, NEW a \in Answers, Fail(r, a),
           pc[r] \in {"validate", "store"},
           object \subseteq object', object' \subseteq Uploads
    PROVE  UploadInv'
  <1> USE DEF Fail, Goto, rowVars
  <1>1. UploadsTypeOK'
    BY DEF UploadInv, UploadsTypeOK, Steps, UploadRow, Statuses, Failed
  <1>2. /\ pc'[r] = "raise" /\ row'[r] = Failed(row[r]) /\ link'[r] = link[r]
        /\ \A q \in Uploads \ {r} :
               pc'[q] = pc[q] /\ row'[q] = row[q] /\ link'[q] = link[q]
    BY DEF UploadInv, UploadsTypeOK
  <1>3. ShapeOf(r) /\ LinkResolves(r) /\ row[r] \in UploadRow
    BY DEF UploadInv, UploadsTypeOK, RequestShape, LinksResolve
  <1>4. Failed(row[r]).status = "failed"
    BY <1>3 DEF Failed, UploadRow
  <1>5. ShapeOf(r)' /\ LinkResolves(r)' /\ InFlight(r)
    BY <1>2, <1>3, <1>4 DEF ShapeOf, LinkResolves, Inserted, Linked, InFlight,
                            Recorded, Stored, SameContent
  <1>6. Stored(r) => r \in object'
    BY DEF UploadInv, AssetHasObject
  <1> QED
    BY <1>1, <1>2, <1>5, <1>6, StepKeeps DEF ShapeOf, Linked

LEMMA ValidateKeeps ==
    ASSUME UploadInv, NEW r \in Uploads, Validate(r)
    PROVE  UploadInv'
  <1>0. object \subseteq object' /\ object' \subseteq Uploads
    BY DEF Validate, UploadInv, UploadsTypeOK
  <1>1. CASE pc[r] = "validate" /\ Fail(r, "invalid")
    BY <1>0, <1>1, FailKeeps DEF Answers
  <1>2. CASE Step(r, "validate", "store")
    <2> USE <1>0, <1>2 DEF Step, Goto, rowVars
    <2>1. ShapeOf(r) /\ LinkResolves(r) /\ pc'[r] = "store"
      BY DEF UploadInv, UploadsTypeOK, RequestShape, LinksResolve
    <2>2. ShapeOf(r)' /\ LinkResolves(r)'
      BY <2>1 DEF Validate, ShapeOf, LinkResolves, Inserted, Linked, InFlight,
                  Recorded, Stored, SameContent
    <2> QED
      BY <2>2, GoesOn DEF Steps, UploadInv, AssetHasObject
  <1> QED
    BY <1>1, <1>2 DEF Validate

LEMMA StoreKeeps ==
    ASSUME UploadInv, NEW r \in Uploads, Store(r)
    PROVE  UploadInv'
  <1>0. object \subseteq object' /\ object' \subseteq Uploads
    BY DEF Store, UploadInv, UploadsTypeOK
  <1>1. CASE pc[r] = "store" /\ (Fail(r, "too_large") \/ Fail(r, "storage"))
    BY <1>0, <1>1, FailKeeps DEF Answers
  <1>2. CASE Step(r, "store", "resolve") /\ object' = object \union {r}
    <2> USE <1>0, <1>2 DEF Step, Goto, rowVars
    <2>1. ShapeOf(r) /\ LinkResolves(r) /\ pc'[r] = "resolve" /\ r \in object'
      BY DEF UploadInv, UploadsTypeOK, RequestShape, LinksResolve
    <2>2. ShapeOf(r)' /\ LinkResolves(r)'
      BY <2>1 DEF ShapeOf, LinkResolves, Inserted, Linked, InFlight, Recorded, Stored,
                  SameContent
    <2> QED
      BY <2>2, GoesOn DEF Steps, UploadInv, AssetHasObject
  <1> QED
    BY <1>1, <1>2 DEF Store

LEMMA RaiseKeeps ==
    ASSUME UploadInv, NEW r \in Uploads, Raise(r)
    PROVE  UploadInv'
  BY RollbackKeeps DEF Raise, UploadInv, UploadsTypeOK

LEMMA ResolveKeeps ==
    ASSUME UploadInv, NEW r \in Uploads, Resolve(r)
    PROVE  UploadInv'
  <1> USE DEF Resolve, Goto, rowVars
  <1>0. ShapeOf(r) /\ LinkResolves(r) /\ object' = object /\ object \subseteq Uploads
    BY DEF UploadInv, UploadsTypeOK, RequestShape, LinksResolve
  <1>1. ASSUME NEW a \in Uploads, pc[r] = "resolve", asset[a] = "live",
               SameContent(a, r), link' = [link EXCEPT ![r] = a], Goto(r, "discard"),
               UNCHANGED <<rowVars, row, answer>>
        PROVE  UploadInv'
    <2> USE <1>0, <1>1
    <2>1. UploadsTypeOK'
      BY DEF UploadInv, UploadsTypeOK, Steps
    <2>2. /\ pc'[r] = "discard" /\ row'[r] = row[r] /\ link'[r] = a
          /\ \A q \in Uploads \ {r} :
                 pc'[q] = pc[q] /\ row'[q] = row[q] /\ link'[q] = link[q]
      BY DEF UploadInv, UploadsTypeOK
    <2>3. a # r /\ a # NoAsset
      BY UploadAssumption DEF ShapeOf, Stored
    <2>4. ShapeOf(r)' /\ LinkResolves(r)' /\ InFlight(r)
      BY <2>2, <2>3 DEF ShapeOf, LinkResolves, Inserted, Linked, InFlight, Recorded,
                        Stored, SameContent
    <2> QED
      BY <2>1, <2>2, <2>3, <2>4, StepKeeps DEF UploadInv, AssetHasObject
  <1>2. CASE Step(r, "resolve", "create")
    <2> USE <1>0, <1>2 DEF Step
    <2>1. pc'[r] = "create"
      BY DEF UploadInv, UploadsTypeOK
    <2>2. ShapeOf(r)' /\ LinkResolves(r)'
      BY <2>1 DEF ShapeOf, LinkResolves, Inserted, Linked, InFlight, Recorded, Stored,
                  SameContent
    <2> QED
      BY <2>2, GoesOn DEF Steps, UploadInv, AssetHasObject
  <1> QED
    BY <1>1, <1>2

LEMMA CreateKeeps ==
    ASSUME UploadInv, NEW r \in Uploads, Create(r)
    PROVE  UploadInv'
  <1> USE DEF Create, Goto, rowVars
  <1>0. ShapeOf(r) /\ LinkResolves(r) /\ object' = object /\ object \subseteq Uploads
    BY DEF UploadInv, UploadsTypeOK, RequestShape, LinksResolve
  <1>1. CASE Rollback(r, "conflict")
    BY <1>0, <1>1, RollbackKeeps DEF Answers
  <1>2. CASE /\ ~ContentTaken(r)
             /\ Goto(r, "complete")
             /\ link' = [link EXCEPT ![r] = r]
             /\ UNCHANGED <<rowVars, row, answer>>
    <2> USE <1>0, <1>2
    <2>1. UploadsTypeOK'
      BY DEF UploadInv, UploadsTypeOK, Steps
    <2>2. /\ pc'[r] = "complete" /\ row'[r] = row[r] /\ link'[r] = r
          /\ \A q \in Uploads \ {r} :
                 pc'[q] = pc[q] /\ row'[q] = row[q] /\ link'[q] = link[q]
      BY DEF UploadInv, UploadsTypeOK
    <2>3. ShapeOf(r)' /\ LinkResolves(r)' /\ InFlight(r)
      BY <2>2, UploadAssumption DEF ShapeOf, LinkResolves, Inserted, Linked, InFlight,
         Recorded, Stored, SameContent
    <2> QED
      BY <2>1, <2>2, <2>3, StepKeeps DEF UploadInv, AssetHasObject
  <1> QED
    BY <1>1, <1>2

LEMMA DiscardKeeps ==
    ASSUME UploadInv, NEW r \in Uploads, Discard(r)
    PROVE  UploadInv'
  <1> USE DEF Discard, Step, Goto, rowVars
  <1>1. ShapeOf(r) /\ LinkResolves(r) /\ pc'[r] = "complete"
    BY DEF UploadInv, UploadsTypeOK, RequestShape, LinksResolve
  <1>2. ShapeOf(r)' /\ LinkResolves(r)'
    BY <1>1 DEF ShapeOf, LinkResolves, Inserted, Linked, InFlight, Recorded, Stored,
                SameContent
  <1>3. ~Stored(r) /\ object \ {r} \subseteq object' /\ object' \subseteq Uploads
    BY <1>1 DEF ShapeOf, UploadInv, UploadsTypeOK
  <1> QED
    BY <1>2, <1>3, GoesOn DEF Steps

LEMMA CompleteKeeps ==
    ASSUME UploadInv, NEW r \in Uploads, Complete(r)
    PROVE  UploadInv'
  <1> USE DEF Complete, Goto, rowVars
  <1>1. UploadsTypeOK'
    BY DEF UploadInv, UploadsTypeOK, Steps, UploadRow, Statuses, Completed
  <1>2. /\ pc'[r] = "audit" /\ row'[r] = Completed(row[r], link[r]) /\ link'[r] = link[r]
        /\ \A q \in Uploads \ {r} :
               pc'[q] = pc[q] /\ row'[q] = row[q] /\ link'[q] = link[q]
    BY DEF UploadInv, UploadsTypeOK
  <1>3. ShapeOf(r) /\ LinkResolves(r)
    BY DEF UploadInv, RequestShape, LinksResolve
  <1>4. row[r] = Started(NewUpload)
    BY <1>3 DEF ShapeOf, Inserted
  <1>5. ShapeOf(r)' /\ LinkResolves(r)' /\ InFlight(r)
    BY <1>2, <1>3, <1>4 DEF ShapeOf, LinkResolves, Inserted, Linked, InFlight,
       Recorded, Stored, SameContent, Completed, Started, NewUpload
  <1> QED
    BY <1>1, <1>2, <1>5, StepKeeps DEF UploadInv, AssetHasObject

LEMMA AuditKeeps ==
    ASSUME UploadInv, NEW r \in Uploads, Audit(r)
    PROVE  UploadInv'
  <1> USE DEF Audit, Goto, rowVars
  <1>1. CASE Rollback(r, "completed")
    BY <1>1, RollbackKeeps DEF Answers, UploadInv, UploadsTypeOK
  <1>2. CASE /\ Goto(r, "commit")
             /\ answer' = [answer EXCEPT ![r] = "completed"]
             /\ UNCHANGED <<rowVars, row, link>>
    <2> USE <1>2
    <2>1. UploadsTypeOK'
      BY DEF UploadInv, UploadsTypeOK, Steps, Answers
    <2>2. /\ pc'[r] = "commit" /\ row' = row /\ link' = link
          /\ \A q \in Uploads \ {r} : pc'[q] = pc[q]
      BY DEF UploadInv, UploadsTypeOK
    <2>3. ShapeOf(r) /\ LinkResolves(r)
      BY DEF UploadInv, RequestShape, LinksResolve
    <2>4. ShapeOf(r)' /\ LinkResolves(r)' /\ InFlight(r)
      BY <2>2, <2>3 DEF ShapeOf, LinkResolves, Inserted, Linked, InFlight, Recorded,
                        Stored, SameContent
    <2> QED
      BY <2>1, <2>2, <2>4, StepKeeps DEF UploadInv, AssetHasObject
  <1> QED
    BY <1>1, <1>2

LEMMA AbortKeeps ==
    ASSUME UploadInv, NEW r \in Uploads, Abort(r)
    PROVE  UploadInv'
  <1>1. object \subseteq object' /\ object' \subseteq Uploads
    BY DEF Abort, UploadInv, UploadsTypeOK
  <1>2. (IF answer[r] = "none" THEN "error" ELSE answer[r]) \in Answers
    BY DEF UploadInv, UploadsTypeOK, Answers
  <1> QED
    BY <1>1, <1>2, RollbackKeeps DEF Abort

(***************************************************************************)
(* The steps that write committed rows.                                    *)
(***************************************************************************)

\* What a commit writes, and what it knew before.
LEMMA CommitWrites ==
    ASSUME UploadInv, NEW r \in Uploads, Commit(r)
    PROVE  /\ pc'[r] = "done" /\ row'[r] = NoRow /\ link'[r] = NoAsset
           /\ \A q \in Uploads \ {r} :
                  pc'[q] = pc[q] /\ row'[q] = row[q] /\ link'[q] = link[q]
           /\ \A q \in Uploads : upload'[q] = IF q = r THEN row[r] ELSE upload[q]
           /\ \A q \in Uploads :
                  asset'[q] = IF q = r /\ link[r] = r THEN "live" ELSE asset[q]
           /\ ask' = ask /\ object' = object
           /\ row[r] = [status |-> "completed", asset |-> link[r], ended |-> TRUE]
           /\ link[r] \in Uploads /\ SameContent(link[r], r)
           /\ link[r] # r => Stored(link[r])
           /\ link[r] = r => r \in object
           /\ ~Recorded(r) /\ ~Stored(r) /\ InFlight(r)
  <1> USE DEF Commit, End, Goto
  <1>1. /\ pc'[r] = "done" /\ row'[r] = NoRow /\ link'[r] = NoAsset
        /\ \A q \in Uploads \ {r} :
               pc'[q] = pc[q] /\ row'[q] = row[q] /\ link'[q] = link[q]
        /\ \A q \in Uploads : upload'[q] = IF q = r THEN row[r] ELSE upload[q]
        /\ \A q \in Uploads :
               asset'[q] = IF q = r /\ link[r] = r THEN "live" ELSE asset[q]
        /\ link[r] \in Uploads \union {NoAsset}
    BY DEF UploadInv, UploadsTypeOK
  <1>2. ShapeOf(r) /\ LinkResolves(r)
    BY DEF UploadInv, RequestShape, LinksResolve
  <1>3. /\ row[r] = [status |-> "completed", asset |-> link[r], ended |-> TRUE]
        /\ link[r] # NoAsset
    BY <1>2 DEF ShapeOf, Linked, Completed, Started, NewUpload
  <1> QED
    BY <1>1, <1>2, <1>3 DEF ShapeOf, LinkResolves, Inserted

LEMMA CommitKeeps ==
    ASSUME UploadInv, NEW r \in Uploads, Commit(r)
    PROVE  UploadInv'
  <1>0. /\ pc'[r] = "done" /\ row'[r] = NoRow /\ link'[r] = NoAsset
        /\ \A q \in Uploads \ {r} :
               pc'[q] = pc[q] /\ row'[q] = row[q] /\ link'[q] = link[q]
        /\ \A q \in Uploads : upload'[q] = IF q = r THEN row[r] ELSE upload[q]
        /\ \A q \in Uploads :
               asset'[q] = IF q = r /\ link[r] = r THEN "live" ELSE asset[q]
        /\ ask' = ask /\ object' = object
        /\ row[r] = [status |-> "completed", asset |-> link[r], ended |-> TRUE]
        /\ link[r] \in Uploads /\ SameContent(link[r], r)
        /\ link[r] # r => Stored(link[r])
        /\ link[r] = r => r \in object
        /\ ~Recorded(r) /\ ~Stored(r) /\ InFlight(r)
    BY CommitWrites
  <1> USE <1>0
  <1>1. UploadsTypeOK'
    BY DEF Commit, End, Goto, UploadInv, UploadsTypeOK, Steps, UploadRow, NoRow
  <1>2. /\ \A q \in Uploads :
               /\ Recorded(q)' <=> q = r \/ Recorded(q)
               /\ Stored(q)' <=> (q = r /\ link[r] = r) \/ Stored(q)
        /\ \A p, q : SameKey(p, q)' = SameKey(p, q)
        /\ \A p, q : SameContent(p, q)' = SameContent(p, q)
    BY DEF Recorded, Stored, SameKey, SameContent
  <1>3. RequestShape'
    <2> SUFFICES ASSUME NEW q \in Uploads PROVE ShapeOf(q)'
      BY DEF RequestShape
    <2>1. CASE q = r
      BY <2>1 DEF ShapeOf, InFlight, Inserted, Linked, NoRow
    <2>2. CASE q # r
      BY <2>2, <1>2 DEF UploadInv, RequestShape, ShapeOf, InFlight
    <2> QED
      BY <2>1, <2>2
  <1>4. LinksResolve'
    <2> SUFFICES ASSUME NEW q \in Uploads PROVE LinkResolves(q)'
      BY DEF LinksResolve
    <2>1. CASE q = r
      BY <2>1 DEF LinkResolves
    <2>2. CASE q # r
      <3>1. LinkResolves(q) /\ link[q] \in Uploads \union {NoAsset}
        BY DEF UploadInv, UploadsTypeOK, LinksResolve
      <3> QED
        BY <2>2, <3>1, <1>2 DEF LinkResolves, SameContent
    <2> QED
      BY <2>1, <2>2
  <1>5. \A q \in Uploads \ {r} :
            /\ SameKey(q, r) => ~InFlight(q) /\ ~Recorded(q)
            /\ SameKey(r, q) => ~InFlight(q) /\ ~Recorded(q)
            /\ SameContent(q, r) /\ link[r] = r => link[q] # q /\ ~Stored(q)
            /\ SameContent(r, q) /\ link[r] = r => link[q] # q /\ ~Stored(q)
    BY DEF UploadInv, EntriesExclusive, SameKey, SameContent
  <1>6. EntriesExclusive'
    <2> SUFFICES ASSUME NEW p \in Uploads, NEW q \in Uploads, p # q
                 PROVE  /\ row'[p].status # "absent" /\ SameKey(p, q)
                              => row'[q].status = "absent" /\ ~Recorded(q)'
                        /\ link'[p] = p /\ SameContent(p, q)
                              => link'[q] # q /\ ~Stored(q)'
      BY <1>2 DEF EntriesExclusive, InFlight
    <2>1. CASE p = r
      BY <2>1, UploadAssumption DEF NoRow
    <2>2. CASE q = r
      BY <2>2, <1>2, <1>5, UploadAssumption DEF NoRow, InFlight
    <2>3. CASE p # r /\ q # r
      BY <2>3, <1>2 DEF UploadInv, EntriesExclusive, InFlight
    <2> QED
      BY <2>1, <2>2, <2>3
  <1>7. AssetHasObject'
    BY <1>2 DEF UploadInv, AssetHasObject
  <1>8. UploadsResolve'
    <2> SUFFICES ASSUME NEW q \in Uploads, Recorded(q)'
                 PROVE  /\ Loadable(upload'[q]) /\ Checked(upload'[q])
                        /\ upload'[q].status = "completed"
                        /\ upload'[q].asset \in Uploads
                        /\ asset'[upload'[q].asset] # "absent"
                        /\ ask[upload'[q].asset].content = ask[q].content
      BY DEF UploadsResolve, Stored, SameContent
    <2>1. CASE q = r
      BY <2>1 DEF Loadable, Checked, Statuses, TerminalStatuses, Stored, SameContent
    <2>2. CASE q # r
      BY <2>2, <1>2 DEF UploadInv, UploadsResolve, Stored, SameContent
    <2> QED
      BY <2>1, <2>2
  <1>9. Deduplicated'
    <2> SUFFICES ASSUME NEW p \in Uploads, NEW q \in Uploads, p # q
                 PROVE  /\ Stored(p)' /\ Stored(q)' => ~SameContent(p, q)
                        /\ Recorded(p)' /\ Recorded(q)' => ~SameKey(p, q)
      BY <1>2 DEF Deduplicated
    <2> QED
      BY <1>2, <1>5 DEF UploadInv, Deduplicated
  <1> QED
    BY <1>1, <1>3, <1>4, <1>6, <1>7, <1>8, <1>9 DEF UploadInv

LEMMA DeleteUploadKeeps ==
    ASSUME UploadInv, NEW u \in Uploads, DeleteUpload(u)
    PROVE  UploadInv'
  <1> USE DEF DeleteUpload, requestVars
  <1>1. UploadsTypeOK'
    BY DEF UploadInv, UploadsTypeOK, UploadRow, NoRow
  <1>2. /\ \A q \in Uploads : Recorded(q)' => Recorded(q) /\ upload'[q] = upload[q]
        /\ \A q : Stored(q)' = Stored(q) /\ InFlight(q)' = InFlight(q)
        /\ \A p, q : SameKey(p, q)' = SameKey(p, q)
        /\ \A p, q : SameContent(p, q)' = SameContent(p, q)
    BY DEF Recorded, Stored, InFlight, SameKey, SameContent, UploadInv, UploadsTypeOK, NoRow
  <1>3. RequestShape' /\ EntriesExclusive'
    BY <1>2 DEF UploadInv, RequestShape, ShapeOf, EntriesExclusive
  <1>4. LinksResolve' /\ AssetHasObject' /\ Deduplicated'
    BY <1>2 DEF UploadInv, LinksResolve, LinkResolves, AssetHasObject, Deduplicated,
                SameContent, Stored
  <1>5. UploadsResolve'
    BY <1>2 DEF UploadInv, UploadsResolve, SameContent, Stored
  <1> QED
    BY <1>1, <1>3, <1>4, <1>5 DEF UploadInv

LEMMA DeleteAssetKeeps ==
    ASSUME UploadInv, NEW a \in Uploads, DeleteAsset(a)
    PROVE  UploadInv'
  <1> USE DEF DeleteAsset, requestVars
  <1>1. UploadsTypeOK'
    BY DEF UploadInv, UploadsTypeOK
  <1>2. /\ \A q \in Uploads : (asset'[q] # "absent") <=> Stored(q)
        /\ \A q : Recorded(q)' = Recorded(q) /\ InFlight(q)' = InFlight(q)
        /\ \A p, q : SameKey(p, q)' = SameKey(p, q)
        /\ \A p, q : SameContent(p, q)' = SameContent(p, q)
    BY DEF Recorded, Stored, InFlight, SameKey, SameContent, UploadInv, UploadsTypeOK
  <1>3. RequestShape' /\ EntriesExclusive'
    BY <1>2 DEF UploadInv, RequestShape, ShapeOf, EntriesExclusive, Stored
  <1>4. \A q \in Uploads : link[q] \in Uploads \union {NoAsset}
    BY DEF UploadInv, UploadsTypeOK
  <1>5. LinksResolve' /\ AssetHasObject' /\ Deduplicated'
    BY <1>2, <1>4 DEF UploadInv, LinksResolve, LinkResolves, AssetHasObject,
                      Deduplicated, SameContent, Stored
  <1>6. UploadsResolve'
    BY <1>2 DEF UploadInv, UploadsResolve, SameContent, Stored, Recorded
  <1> QED
    BY <1>1, <1>3, <1>5, <1>6 DEF UploadInv

\* No committed upload is pending, so the cleanup finds nothing to do.
LEMMA CleanupIdle ==
    ASSUME UploadInv, Cleanup
    PROVE  UNCHANGED vars
  <1>1. Abandoned = {}
    BY DEF Abandoned, UploadInv, UploadsResolve, Recorded
  <1> QED
    BY <1>1 DEF Cleanup, requestVars, vars, UploadInv, UploadsTypeOK

LEMMA UploadStep == UploadInv /\ [Next]_vars => UploadInv'
  <1> SUFFICES ASSUME UploadInv, [Next]_vars PROVE UploadInv'
    OBVIOUS
  <1>1. CASE UNCHANGED vars
    BY <1>1 DEF vars, rowVars, UploadInv, UploadsTypeOK, RequestShape, ShapeOf,
       LinksResolve, LinkResolves, EntriesExclusive, AssetHasObject, UploadsResolve,
       Deduplicated, Recorded, InFlight, Stored, SameKey, SameContent
  <1>2. ASSUME NEW r \in Uploads, Arrive(r) PROVE UploadInv'
    BY <1>2, ArriveKeeps
  <1>3. ASSUME NEW r \in Uploads, Proceed(r) PROVE UploadInv'
    BY <1>3, LookupKeeps, InsertKeeps, ValidateKeeps, StoreKeeps, RaiseKeeps,
       ResolveKeeps, CreateKeeps, DiscardKeeps, CompleteKeeps, AuditKeeps, CommitKeeps
    DEF Proceed
  <1>4. ASSUME NEW r \in Uploads, Abort(r) PROVE UploadInv'
    BY <1>4, AbortKeeps
  <1>5. ASSUME NEW u \in Uploads, DeleteUpload(u) PROVE UploadInv'
    BY <1>5, DeleteUploadKeeps
  <1>6. ASSUME NEW u \in Uploads, DeleteAsset(u) PROVE UploadInv'
    BY <1>6, DeleteAssetKeeps
  <1>7. CASE Cleanup
    BY <1>1, <1>7, CleanupIdle
  <1> QED
    BY <1>1, <1>2, <1>3, <1>4, <1>5, <1>6, <1>7 DEF Next

(***************************************************************************)
(* The theorems.                                                           *)
(***************************************************************************)

\* Every reachable state of the pipeline satisfies the inductive invariant.
THEOREM UploadInvariance == Spec => []UploadInv
  BY InitUploads, UploadStep, PTL DEF Spec

\* Rows, requests and answers keep their types.
THEOREM UploadsTypeCorrect == Spec => []UploadsTypeOK
  BY UploadInvariance, PTL DEF UploadInv

\* No asset is ever recorded whose bytes are not in object storage, whatever the
\* storage, the server and racing requests do.
THEOREM AssetsHaveObjects == Spec => []AssetHasObject
  BY UploadInvariance, PTL DEF UploadInv

\* A recorded upload can be loaded and leads to a recorded asset of the bytes that were
\* sent.  Only completed ones are ever recorded: what _fail_upload writes is rolled
\* back by the exception it is written for, so the promise of FailedUploadsRecorded
\* is never kept.
THEOREM UploadsLeadToAssets == Spec => []UploadsResolve
  BY UploadInvariance, PTL DEF UploadInv

\* One asset for each content and one upload for each idempotency key.
THEOREM UploadsAreDeduplicated == Spec => []Deduplicated
  BY UploadInvariance, PTL DEF UploadInv

\* Requests wait at the key's index before they hold a content's entry, and at that
\* one last, so whoever keeps the last of them waiting waits for nobody
\* (process_upload, upload_service.py:195-243, 297-345).
THEOREM UploadsNeverDeadlock == Spec => []NoCircularWait
  <1>1. ASSUME UploadInv, NEW r \in Uploads, Waits(r)
        PROVE  \E q \in Uploads : UnderWay(q) /\ ~Waits(q)
    <2>1. \A q \in Uploads : /\ InFlight(q) => pc[q] \in Inserted
                             /\ link[q] = q => pc[q] \in Linked
      <3> TAKE q \in Uploads
      <3>1. ShapeOf(q)
        BY <1>1 DEF UploadInv, RequestShape
      <3>2. q # NoAsset
        BY UploadAssumption
      <3> QED
        BY <3>1, <3>2, Zenon DEF ShapeOf
    <2>2. \A q \in Uploads : pc[q] \in Inserted \union Linked => UnderWay(q)
      BY DEF UnderWay, Inserted, Linked
    <2>3. \A q \in Uploads : pc[q] \in Linked => ~Waits(q)
      BY DEF Linked, Waits
    <2>4. ASSUME NEW p \in Uploads, pc[p] = "create", Waits(p)
          PROVE  \E q \in Uploads : UnderWay(q) /\ ~Waits(q)
      <3>1. PICK q \in Uploads : link[q] = q
        BY <2>4 DEF Waits, ContentPending
      <3> QED
        BY <2>1, <2>2, <2>3, <3>1
    <2>5. CASE pc[r] = "insert"
      <3>1. PICK q \in Uploads : InFlight(q)
        BY <1>1, <2>5 DEF Waits, KeyPending
      <3>2. UnderWay(q) /\ pc[q] # "insert"
        BY <2>1, <2>2, <3>1 DEF Inserted
      <3>3. Waits(q) => pc[q] = "create"
        BY <3>2 DEF Waits
      <3> QED
        BY <2>4, <3>2, <3>3
    <2> QED
      BY <1>1, <2>4, <2>5 DEF Waits
  <1>2. UploadInv => NoCircularWait
    BY <1>1 DEF NoCircularWait
  <1> QED
    BY <1>2, UploadInvariance, PTL

(***************************************************************************)
(* The committed rows implement AssetStore.                                *)
(***************************************************************************)

LEMMA InitCatalogue == Init => Catalogue!Init
  BY DEF Init, Catalogue!Init, Kept, LinkedTo, Recorded, NoRow

LEMMA RowsFixMapping ==
    ASSUME UNCHANGED rowVars
    PROVE  UNCHANGED Catalogue!storeVars
  BY DEF rowVars, Catalogue!storeVars, Kept, LinkedTo, Recorded

LEMMA CommitImplements ==
    ASSUME UploadInv, NEW r \in Uploads, Commit(r)
    PROVE  Catalogue!Next
  <1>0. /\ \A q \in Uploads : upload'[q] = IF q = r THEN row[r] ELSE upload[q]
        /\ \A q \in Uploads :
               asset'[q] = IF q = r /\ link[r] = r THEN "live" ELSE asset[q]
        /\ ask' = ask
        /\ row[r] = [status |-> "completed", asset |-> link[r], ended |-> TRUE]
        /\ link[r] \in Uploads /\ SameContent(link[r], r)
        /\ link[r] # r => Stored(link[r])
        /\ ~Recorded(r) /\ ~Stored(r)
    BY CommitWrites
  <1>1. PICK c \in Contents : c = ask[r].content
    BY DEF UploadInv, UploadsTypeOK, Request
  <1>2. LinkedTo[r] = NoContent
    BY <1>0 DEF LinkedTo
  <1>3. LinkedTo' = [LinkedTo EXCEPT ![r] = c]
    <2>1. LinkedTo'[r] = c
      BY <1>0, <1>1 DEF LinkedTo, Recorded, SameContent
    <2>2. \A q \in Uploads \ {r} : LinkedTo'[q] = LinkedTo[q]
      BY <1>0 DEF LinkedTo, Recorded
    <2> QED
      BY <2>1, <2>2 DEF LinkedTo
  <1>4. \A a \in Uploads : asset[a] \in {"absent", "live", "deleted"}
    BY DEF UploadInv, UploadsTypeOK
  <1>5. Kept' = [Kept EXCEPT ![c] = IF @ = "absent" THEN "live" ELSE @]
    <2>1. CASE link[r] = r
      <3>1. \A a \in Uploads : ask[a].content = c => asset[a] = "absent"
        BY <1>0, <1>1, <2>1 DEF UploadInv, EntriesExclusive, SameContent, Stored
      <3>2. Kept[c] = "absent"
        BY <3>1 DEF Kept
      <3>3. Kept'[c] = "live"
        BY <1>0, <1>1, <2>1 DEF Kept
      <3>4. \A d \in Contents \ {c} : Kept'[d] = Kept[d]
        BY <1>0, <1>1, <2>1 DEF Kept
      <3> QED
        BY <3>2, <3>3, <3>4 DEF Kept
    <2>2. CASE link[r] # r
      <3>1. \A a \in Uploads : asset'[a] = asset[a]
        BY <1>0, <2>2
      <3>2. Kept' = Kept
        BY <1>0, <3>1 DEF Kept
      <3>3. \E a \in Uploads : asset[a] \in {"live", "deleted"} /\ ask[a].content = c
        BY <1>0, <1>1, <1>4, <2>2 DEF Stored, SameContent
      <3>4. Kept[c] # "absent"
        BY <3>3 DEF Kept
      <3> QED
        BY <3>2, <3>4 DEF Kept
    <2> QED
      BY <2>1, <2>2
  <1> QED
    BY <1>2, <1>3, <1>5 DEF Catalogue!Next, Catalogue!Record

LEMMA DeleteUploadImplements ==
    ASSUME UploadInv, NEW u \in Uploads, DeleteUpload(u)
    PROVE  Catalogue!Next
  <1> USE DEF DeleteUpload, requestVars
  <1>1. LinkedTo[u] \in Contents
    BY DEF LinkedTo, UploadInv, UploadsResolve, UploadsTypeOK, Request
  <1>2. LinkedTo' = [LinkedTo EXCEPT ![u] = NoContent]
    BY DEF LinkedTo, Recorded, NoRow, UploadInv, UploadsTypeOK
  <1>3. Kept' = Kept
    BY DEF Kept
  <1> QED
    BY <1>1, <1>2, <1>3, UploadAssumption DEF Catalogue!Next, Catalogue!Forget

LEMMA DeleteAssetImplements ==
    ASSUME UploadInv, NEW a \in Uploads, DeleteAsset(a)
    PROVE  Catalogue!Next
  <1> USE DEF DeleteAsset, requestVars
  <1>1. PICK c \in Contents : c = ask[a].content
    BY DEF UploadInv, UploadsTypeOK, Request
  <1>2. \A b \in Uploads : asset'[b] = IF b = a THEN "deleted" ELSE asset[b]
    BY DEF UploadInv, UploadsTypeOK
  <1>3. \A b \in Uploads \ {a} : ask[b].content = c => asset[b] = "absent"
    BY <1>1 DEF UploadInv, Deduplicated, SameContent, Stored
  <1>4. Kept[c] = "live" /\ Kept'[c] = "deleted"
    BY <1>1, <1>2, <1>3 DEF Kept
  <1>5. \A d \in Contents \ {c} : Kept'[d] = Kept[d]
    BY <1>1, <1>2 DEF Kept
  <1>6. Kept' = [Kept EXCEPT ![c] = "deleted"]
    <2>1. Kept = [d \in Contents |-> Kept[d]] /\ Kept' = [d \in Contents |-> Kept'[d]]
      BY DEF Kept
    <2> QED
      BY <1>4, <1>5, <2>1
  <1>7. LinkedTo' = LinkedTo
    BY DEF LinkedTo, Recorded
  <1>8. Catalogue!Delete(c)
    BY <1>4, <1>6, <1>7 DEF Catalogue!Delete
  <1> QED
    BY <1>1, <1>8 DEF Catalogue!Next

LEMMA StepCatalogue ==
    UploadInv /\ [Next]_vars => [Catalogue!Next]_(Catalogue!storeVars)
  <1> SUFFICES ASSUME UploadInv, [Next]_vars
               PROVE  [Catalogue!Next]_(Catalogue!storeVars)
    OBVIOUS
  <1>1. CASE UNCHANGED rowVars
    BY <1>1, RowsFixMapping
  <1>2. CASE \E r \in Uploads : Commit(r)
    BY <1>2, CommitImplements
  <1>3. CASE \E u \in Uploads : DeleteUpload(u)
    BY <1>3, DeleteUploadImplements
  <1>4. CASE \E a \in Uploads : DeleteAsset(a)
    BY <1>4, DeleteAssetImplements
  <1>5. CASE Cleanup
    BY <1>1, <1>5, CleanupIdle DEF vars, rowVars
  <1>6. ASSUME NEW r \in Uploads, Arrive(r) \/ Abort(r) PROVE UNCHANGED rowVars
    BY <1>6 DEF Arrive, Step, Abort, Rollback, rowVars
  <1>7. ASSUME NEW r \in Uploads, Proceed(r), ~Commit(r) PROVE UNCHANGED rowVars
    BY <1>7 DEF Step, Proceed, Lookup, Insert, Validate, Store, Raise, Resolve, Create,
                Discard, Complete, Audit, Rollback, Fail, rowVars
  <1>8. CASE UNCHANGED vars
    BY <1>1, <1>8 DEF vars, rowVars
  <1> QED
    BY <1>1, <1>2, <1>3, <1>4, <1>5, <1>6, <1>7, <1>8 DEF Next

\* However uploads race, fail and are deleted, the committed rows only ever make the
\* steps of AssetStore.
THEOREM UploadsImplementStore == Spec => ImplementsStore
  <1>1. Init => Catalogue!Init
    BY InitCatalogue
  <1>2. UploadInv /\ [Next]_vars => [Catalogue!Next]_(Catalogue!storeVars)
    BY StepCatalogue
  <1> QED
    BY <1>1, <1>2, UploadInvariance, PTL DEF Spec, ImplementsStore
================================================================================
