--------------------------------- MODULE Listing ---------------------------------
(***************************************************************************)
(* The paginated lists: a client walks the pages of one list while other   *)
(* requests commit rows into its table, change them and take them out.     *)
(*                                                                         *)
(* Every list method issues two statements, a COUNT and a page SELECT      *)
(* (ORDER BY one timestamp, OFFSET, LIMIT), and each sees what has been    *)
(* committed by then (READ COMMITTED).  The answer names total, limit and  *)
(* offset, and the client asks for the next page while there is one.       *)
(*                                                                         *)
(* A row is what the WHERE clauses compare: the account it belongs to, the *)
(* asset or resource it is about, a status, its timestamp and the mark of  *)
(* a soft deletion.  A status is the one asked for or one that comes after *)
(* it; a row that reaches the one asked for is, to the list, a row that is *)
(* inserted with an old timestamp.                                         *)
(***************************************************************************)
EXTENDS Integers, FiniteSets

CONSTANTS
    Rows,          \* primary keys
    Users,      \* the accounts rows belong to and callers log in to
    Admins,        \* those with the role admin
    AssetOwner,    \* the account that owns the asset whose analyses are listed
    Times,         \* the timestamps rows may carry: a bound
    Limit,         \* rows per page
    Nobody         \* the caller of a list that no route offers

ASSUME ListingAssumption ==
    /\ IsFiniteSet(Rows)
    /\ Admins \subseteq Users /\ AssetOwner \in Users
    /\ Times \subseteq Nat /\ Limit \in Nat \ {0}
    /\ Nobody \notin Users

VARIABLES
    table,         \* the table the walked list is drawn from
    rows,          \* its committed rows
    pc,            \* what the client's walk has come to
    query,         \* the WHERE clause and ORDER BY of the list
    skip, total, items,   \* offset, total and items of the last answer
    walk           \* what the client has been shown since the first page

vars == <<table, rows, pc, query, skip, total, items, walk>>

-----------------------------------------------------------------------------
(* Rows. *)

TableNames == {"users", "uploads", "digital_assets", "analyses", "reports",
               "audit_logs", "refresh_tokens"}

SoftDeletes == {"users", "digital_assets", "reports"}

Statuses == {"asked", "after"}

NoRow == [user |-> Nobody]

Present(r) == rows[r] # NoRow
Live(r) == Present(r) /\ ~ rows[r].deleted

(* The rows a table may be given: an account is created active, a token    *)
(* unrevoked, an upload or analysis unfinished; analyses, reports and      *)
(* audit entries are about something.  An account of the table of users is *)
(* somebody else's, and nobody owns a report.                              *)
NewRows(t) ==
    [user    : IF t \in {"users", "reports"} THEN {Nobody} ELSE Users,
     about   : IF t \in {"analyses", "reports", "audit_logs"}
                 THEN {"this", "other"} ELSE {"this"},
     status  : IF t = "reports" THEN Statuses ELSE {"asked"},
     at      : Times,
     deleted : {FALSE}]

-----------------------------------------------------------------------------
(* The lists.  A query compares the columns it names and leaves the others *)
(* free; ascending is the order of its timestamps.                         *)

Unfiltered == [user |-> Users \cup {Nobody}, about |-> {"this", "other"},
               status |-> Statuses, at |-> Times, ascending |-> FALSE]

UploadsByUser(u)   == [Unfiltered EXCEPT !.user = {u}]
UploadsByStatus    == [Unfiltered EXCEPT !.status = {"asked"}]
AssetsByUser(u)    == [Unfiltered EXCEPT !.user = {u}]
ActiveUsers        == [Unfiltered EXCEPT !.status = {"asked"}]
AnalysesByAsset    == [Unfiltered EXCEPT !.about = {"this"}]
AnalysesByStatus   == [Unfiltered EXCEPT !.status = {"asked"}]
ReportsByAsset     == [Unfiltered EXCEPT !.about = {"this"}]
ReportsByStatus    == [Unfiltered EXCEPT !.status = {"asked"}]
EntriesByActor(u)  == [Unfiltered EXCEPT !.user = {u}, !.ascending = TRUE]
EntriesByResource  == [Unfiltered EXCEPT !.about = {"this"}, !.ascending = TRUE]
EntriesWithin(a, b) ==
    [Unfiltered EXCEPT !.at = {t \in Times : a <= t /\ t <= b}, !.ascending = TRUE]
TokensActive(u)    == [Unfiltered EXCEPT !.user = {u}, !.status = {"asked"}]

(* AnalysisRepository.list with the filters of list_analyses: a caller who *)
(* is no admin sees what he requested; asset and status are optional.      *)
Requesters(u) == IF u \in Admins THEN Users ELSE {u}

AnalysesFiltered(u, about, status) ==
    [Unfiltered EXCEPT !.user = Requesters(u), !.about = about, !.status = status]

OptionalStatus == {Statuses, {"asked"}}

(* What the routes offer a caller: his own uploads and assets, the         *)
(* analyses he may see, those of an asset if the asset is his or he is an  *)
(* admin, and to an admin the active accounts.                             *)
ListUploads(u) == {UploadsByUser(u)}
ListAssets(u) == {AssetsByUser(u)}
ListAnalyses(u) ==
    {AnalysesFiltered(u, about, status) :
        about \in {Unfiltered.about, {"this"}}, status \in OptionalStatus}
ListAssetAnalyses(u) ==
    {AnalysesFiltered(u, {"this"}, status) :
        status \in IF u \in Admins \cup {AssetOwner} THEN OptionalStatus ELSE {}}
ListUsers(u) == IF u \in Admins THEN {ActiveUsers} ELSE {}

Offered(t, u) ==
    CASE t = "uploads"        -> ListUploads(u)
      [] t = "digital_assets" -> ListAssets(u)
      [] t = "analyses"       -> ListAnalyses(u) \cup ListAssetAnalyses(u)
      [] t = "users"          -> ListUsers(u)
      [] OTHER                -> {}

(* The list methods of the repositories that no route calls. *)
Unrouted(t) ==
    CASE t = "uploads"        -> {UploadsByStatus}
      [] t = "analyses"       -> {AnalysesByAsset, AnalysesByStatus}
      [] t = "reports"        -> {ReportsByAsset, ReportsByStatus}
      [] t = "audit_logs"     -> {EntriesByResource} \cup {EntriesByActor(u) : u \in Users}
                                   \cup {EntriesWithin(a, b) : a, b \in Times}
      [] t = "refresh_tokens" -> {TokensActive(u) : u \in Users}
      [] OTHER                -> {}

Compares(q, row) ==
    /\ row.user \in q.user /\ row.about \in q.about
    /\ row.status \in q.status /\ row.at \in q.at

Matches(q, row) == Compares(q, row) /\ (table \in SoftDeletes => ~ row.deleted)

Listed(q) == {r \in Rows : Present(r) /\ Matches(q, rows[r])}

(* ORDER BY names one timestamp, OFFSET and LIMIT take the rows by their   *)
(* places in that order.  A page is kept as the set of its rows.           *)
Precedes(q, r, s) ==
    IF q.ascending THEN rows[r].at < rows[s].at ELSE rows[r].at > rows[s].at

Place(q, S, r) == Cardinality({s \in S : Precedes(q, s, r)})
Cut(q, S, offset, n) == {r \in S : offset <= Place(q, S, r) /\ Place(q, S, r) < offset + n}

\* Mutant: the page is cut out of the table and filtered afterwards.
PageThenFilter(q, offset) ==
    {r \in Cut(q, {s \in Rows : Present(s)}, offset, Limit) : Matches(q, rows[r])}

\* Mutant: one row more is fetched, to know of a next page, and returned.
PageAndOneMore(q, offset) == Cut(q, Listed(q), offset, Limit + 1)

Page(q, offset) == Cut(q, Listed(q), offset, Limit)

-----------------------------------------------------------------------------
(* What the routes that answer with one row let a caller read. *)

GetUpload(u, r)   == Present(r) /\ (u \in Admins \/ rows[r].user = u)
GetAsset(u, r)    == Live(r) /\ (u \in Admins \/ rows[r].user = u)
GetAnalysis(u, r) == Present(r) /\ (u \in Admins \/ rows[r].user = u)
GetUser(u, r)     == Live(r) /\ (u \in Admins \/ rows[r].user = u)

Readable(u, r) ==
    CASE table = "uploads"        -> GetUpload(u, r)
      [] table = "digital_assets" -> GetAsset(u, r)
      [] table = "analyses"       -> GetAnalysis(u, r)
      [] table = "users"          -> GetUser(u, r)
      [] OTHER                    -> TRUE

-----------------------------------------------------------------------------
(* Other requests.  Each step is the commit of a transaction; what it does *)
(* to the list a client is walking is noted for the properties.            *)

(* caller asked for the list; owed are the rows it held when he began and  *)
(* that he has not been shown, as long as none left; seen those he has     *)
(* been shown, as long as none joined; torn says that one joined since the *)
(* COUNT of the page at hand.                                              *)
NoWalk == [caller |-> Nobody, owed |-> {}, seen |-> {}, twice |-> FALSE,
           joined |-> FALSE, torn |-> FALSE]

Init ==
    /\ table \in TableNames
    /\ rows = [r \in Rows |-> NoRow]
    /\ pc = "idle" /\ query = Unfiltered /\ skip = 0 /\ total = 0 /\ items = {}
    /\ walk = NoWalk

Noted ==
    LET Joining == ~ Listed(query)' \subseteq Listed(query)
        Leaving == ~ Listed(query) \subseteq Listed(query)'
    IN  IF pc = "idle" THEN walk
        ELSE [walk EXCEPT !.owed = IF Leaving THEN {} ELSE @,
                          !.seen = IF Joining THEN {} ELSE @,
                          !.joined = @ \/ Joining,
                          !.torn = @ \/ (pc = "counted" /\ Joining)]

Write(newRows) ==
    /\ rows' = newRows
    /\ UNCHANGED <<table, pc, query, skip, total, items>>
    /\ walk' = Noted

(* A row appears when the transaction that created it commits, so not in   *)
(* the order of the timestamps.  That no two rows of a table share one is  *)
(* assumed: they count microseconds, and no request creates two rows of a  *)
(* table.                                                                  *)
Insert(r) ==
    /\ ~ Present(r)
    /\ \E row \in NewRows(table) :
          /\ \A s \in Rows : Present(s) => rows[s].at # row.at
          /\ Write([rows EXCEPT ![r] = row])

(* Uploads are removed, assets and reports marked, an account deactivated. *)
(* Audit entries and tokens are never deleted, and an analysis only by the *)
(* transaction that created it.                                            *)
Delete(r) ==
    /\ Present(r)
    /\ \/ /\ table = "uploads"
          /\ Write([rows EXCEPT ![r] = NoRow])
       \/ /\ table \in {"digital_assets", "reports"}
          /\ Live(r)
          /\ Write([rows EXCEPT ![r].deleted = TRUE])
       \/ /\ table = "users"
          /\ Live(r)
          /\ Write([rows EXCEPT ![r].status = "after", ![r].deleted = TRUE])

(* An upload or an analysis reaches its next status; a token is revoked or *)
(* expires.                                                                *)
Move(r) ==
    /\ table \in {"uploads", "analyses", "refresh_tokens"}
    /\ Present(r)
    /\ rows[r].status = "asked"
    /\ Write([rows EXCEPT ![r].status = "after"])

-----------------------------------------------------------------------------
(* The walk. *)

Count(q, offset) ==
    /\ query' = q /\ skip' = offset
    /\ total' = Cardinality(Listed(q))
    /\ pc' = "counted" /\ items' = {}
    /\ UNCHANGED <<table, rows>>

Begin ==
    /\ pc = "idle"
    /\ \E u \in Users \cup {Nobody} :
       \E q \in IF u = Nobody THEN Unrouted(table) ELSE Offered(table, u) :
          /\ Count(q, 0)
          /\ walk' = [NoWalk EXCEPT !.caller = u, !.owed = Listed(q)]

MorePages == skip + Limit < total

Continue ==
    /\ pc = "page" /\ MorePages
    /\ Count(query, skip + Limit)
    /\ walk' = [walk EXCEPT !.torn = FALSE]

Read ==
    /\ pc = "counted"
    /\ pc' = "page"
    /\ items' = Page(query, skip)
    /\ walk' = [walk EXCEPT !.owed = @ \ items',
                            !.seen = IF walk.joined THEN @ ELSE @ \cup items',
                            !.twice = @ \/ items' \cap walk.seen # {}]
    /\ UNCHANGED <<table, rows, query, skip, total>>

Close ==
    /\ pc = "page" /\ ~ MorePages
    /\ pc' = "idle" /\ query' = Unfiltered /\ skip' = 0 /\ total' = 0 /\ items' = {}
    /\ walk' = NoWalk
    /\ UNCHANGED <<table, rows>>

Next ==
    \/ Begin \/ Continue \/ Read \/ Close
    \/ \E r \in Rows : Insert(r) \/ Delete(r) \/ Move(r)

Spec == Init /\ [][Next]_vars

-----------------------------------------------------------------------------
(* A client that reaches the last page has been shown every row that was   *)
(* in the list when it began, if none left meanwhile and none joined       *)
(* between the COUNT and the SELECT of that last page: rows that commit    *)
(* between two pages, in whatever place of the order, hide no other.       *)
NothingMissed ==
    pc = "page" /\ ~ MorePages /\ ~ walk.torn => walk.owed = {}

(* A client is not shown a row twice, if rows only leave the list while it *)
(* walks.                                                                  *)
NothingTwice == ~ walk.twice

(* Every row a list shows a caller is one the route for single rows would  *)
(* have given him at that moment: the two decide separately who may see    *)
(* what, and what counts as deleted.                                       *)
ListedReadable ==
    [][pc = "counted" /\ pc' = "page" /\ walk.caller # Nobody
         => \A r \in items' : Readable(walk.caller, r)]_vars

-----------------------------------------------------------------------------
(* The inductive invariant. *)

RowType == [user : Users \cup {Nobody}, about : {"this", "other"}, status : Statuses,
            at : Times, deleted : BOOLEAN]

ListingTypeOK ==
    /\ table \in TableNames
    /\ rows \in [Rows -> RowType \cup {NoRow}]
    /\ pc \in {"idle", "counted", "page"}
    /\ skip \in Nat /\ total \in Nat /\ items \subseteq Rows
    /\ walk \in [caller : Users \cup {Nobody}, owed : SUBSET Rows, seen : SUBSET Rows,
                 twice : BOOLEAN, joined : BOOLEAN, torn : BOOLEAN]

(* The order of a page has no ties. *)
TimesDiffer ==
    \A r, s \in Rows : Present(r) /\ Present(s) /\ r # s => rows[r].at # rows[s].at

(* Where in the list the next page begins. *)
Ahead == IF pc = "page" THEN skip + Limit ELSE skip

(* What the client is owed is in the list and comes after the pages it was *)
(* given; what it was shown comes before, unless rows have joined.         *)
OwedAhead ==
    pc # "idle" => \A r \in walk.owed :
        r \in Listed(query) /\ Ahead <= Place(query, Listed(query), r)

SeenBehind ==
    /\ walk.joined => walk.seen = {}
    /\ pc # "idle" => \A r \in walk.seen \cap Listed(query) :
           Place(query, Listed(query), r) < Ahead

(* The total of an answer that no row has torn covers the list.            *)
TotalCovers ==
    pc = "counted" /\ ~ walk.torn => Cardinality(Listed(query)) <= total

(* A page is no longer than was asked for.                                 *)
PageFits == Cardinality(items) <= Limit

(* The list walked is one its caller is offered.                           *)
QueryOffered ==
    pc # "idle" /\ walk.caller # Nobody => query \in Offered(table, walk.caller)

ListingInv ==
    /\ ListingTypeOK
    /\ TimesDiffer
    /\ OwedAhead
    /\ SeenBehind
    /\ TotalCovers
    /\ PageFits
    /\ QueryOffered
    /\ NothingMissed
    /\ NothingTwice

=============================================================================
