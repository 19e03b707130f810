---------------------------- MODULE ListingProofs ----------------------------
(***************************************************************************)
(* Proofs about Listing: what a client that walks the pages of a list can  *)
(* miss, see twice and see at all, for every number of rows, accounts,     *)
(* timestamps and rows per page.                                           *)
(***************************************************************************)
EXTENDS Listing, FiniteSetTheorems, TLAPS

-----------------------------------------------------------------------------
(* Lists and places. *)

LEMMA ListedFinite ==
    ASSUME NEW q
    PROVE  Listed(q) \subseteq Rows /\ IsFiniteSet(Listed(q))
<1>1. Listed(q) \subseteq Rows
  BY DEF Listed
<1>2. QED
  BY <1>1, ListingAssumption, FS_Subset

(* A place is a natural number: a row has finitely many rows before it.    *)
LEMMA PlaceType ==
    ASSUME NEW S, IsFiniteSet(S), NEW q, NEW r
    PROVE  /\ IsFiniteSet({s \in S : Precedes(q, s, r)})
           /\ Place(q, S, r) \in Nat
<1>1. {s \in S : Precedes(q, s, r)} \in SUBSET S
  OBVIOUS
<1>2. IsFiniteSet({s \in S : Precedes(q, s, r)})
  BY <1>1, FS_Subset
<1>3. QED
  BY <1>2, FS_CardinalityType DEF Place

(* The timestamps of present rows are numbers.                             *)
LEMMA AtType ==
    ASSUME rows \in [Rows -> RowType \cup {NoRow}],
           NEW r \in Rows, Present(r)
    PROVE  rows[r] \in RowType /\ rows[r].at \in Nat
<1>1. rows[r] \in RowType
  BY DEF Present
<1>2. rows[r].at \in Times
  BY <1>1 DEF RowType
<1>3. QED
  BY <1>1, <1>2, ListingAssumption

(* A row does not precede itself, so it has fewer rows before it than the  *)
(* list has.                                                               *)
LEMMA PlaceBelowLength ==
    ASSUME rows \in [Rows -> RowType \cup {NoRow}],
           NEW q, NEW r \in Listed(q)
    PROVE  Place(q, Listed(q), r) < Cardinality(Listed(q))
<1> DEFINE L == Listed(q)
           B == {s \in L : Precedes(q, s, r)}
<1>1. r \in Rows /\ Present(r)
  BY DEF Listed
<1>2. ~ Precedes(q, r, r)
  BY <1>1, AtType DEF Precedes
<1>3. B \in SUBSET L /\ r \in L /\ r \notin B
  BY <1>2
<1>4. IsFiniteSet(L)
  BY ListedFinite
<1> HIDE DEF L, B
<1>5. Cardinality(B) <= Cardinality(L) /\ Cardinality(L) # Cardinality(B)
  BY <1>3, <1>4, FS_Subset
<1>6. Cardinality(B) \in Nat /\ Cardinality(L) \in Nat
  BY <1>3, <1>4, FS_Subset, FS_CardinalityType
<1>7. Cardinality(B) < Cardinality(L)
  BY <1>5, <1>6
<1>8. QED
  BY <1>7 DEF Place, B, L

(* In a list without ties, two rows have two places.                       *)
LEMMA PlacesDiffer ==
    ASSUME rows \in [Rows -> RowType \cup {NoRow}], TimesDiffer,
           NEW q, NEW r \in Listed(q), NEW s \in Listed(q), r # s
    PROVE  Place(q, Listed(q), r) # Place(q, Listed(q), s)
<1> DEFINE L == Listed(q)
           Before(x) == {y \in L : Precedes(q, y, x)}
<1>1. \A x \in L : x \in Rows /\ Present(x) /\ rows[x].at \in Nat
  BY AtType DEF Listed
<1>2. IsFiniteSet(L)
  BY ListedFinite
<1>3. ASSUME NEW x \in L, NEW y \in L, Precedes(q, x, y)
      PROVE  Place(q, L, x) # Place(q, L, y)
  <2>1. Before(x) \subseteq Before(y)
    BY <1>1, <1>3 DEF Precedes
  <2>2. x \in Before(y) /\ x \notin Before(x)
    BY <1>1, <1>3 DEF Precedes
  <2>3. IsFiniteSet(Before(y))
    BY <1>2, PlaceType
  <2> DEFINE X == Before(x)
             Y == Before(y)
  <2>4. X \in SUBSET Y /\ X # Y /\ IsFiniteSet(Y)
    BY <2>1, <2>2, <2>3
  <2> HIDE DEF X, Y
  <2>5. Cardinality(Y) # Cardinality(X)
    BY <2>4, FS_Subset
  <2>6. QED
    BY <2>5 DEF X, Y, Place
<1>4. rows[r].at # rows[s].at
  BY <1>1 DEF TimesDiffer
<1>5. Precedes(q, r, s) \/ Precedes(q, s, r)
  BY <1>1, <1>4 DEF Precedes
<1>6. QED
  BY <1>3, <1>5

(* A page of n places holds at most n rows of a list without ties.         *)
LEMMA CutFits ==
    ASSUME rows \in [Rows -> RowType \cup {NoRow}], TimesDiffer,
           NEW q, NEW offset \in Nat, NEW n \in Nat
    PROVE  Cardinality(Cut(q, Listed(q), offset, n)) <= n
<1> DEFINE L == Listed(q)
           C == Cut(q, L, offset, n)
           I == offset .. offset + n - 1
           f == [r \in C |-> Place(q, L, r)]
<1>1. IsFiniteSet(L)
  BY ListedFinite
<1>2. C \subseteq L
  BY DEF Cut
<1>3. ASSUME NEW r \in C
      PROVE  Place(q, L, r) \in I
  <2>1. offset <= Place(q, L, r) /\ Place(q, L, r) < offset + n
    BY <1>3 DEF Cut
  <2>2. Place(q, L, r) \in Nat
    BY <1>1, PlaceType
  <2>3. QED
    BY <2>1, <2>2
<1>4. \A r, s \in C : r # s => Place(q, L, r) # Place(q, L, s)
  BY <1>2, PlacesDiffer
<1>5. IsFiniteSet(I) /\ Cardinality(I) = n
  BY FS_Interval
<1> HIDE DEF C, I, L
<1>6. f \in Injection(C, I)
  BY <1>3, <1>4 DEF Injection, IsInjective
<1> HIDE DEF f
<1>7. Cardinality(C) <= Cardinality(I)
  BY <1>5, <1>6, FS_Injection
<1>8. QED
  BY <1>5, <1>7 DEF C, L
-----------------------------------------------------------------------------
(* What a commit of another request does to the list that is walked.       *)

(* Nobody changes the timestamp of a row.                                  *)
TimesKept == \A r \in Rows : Present(r) /\ Present(r)' => rows'[r].at = rows[r].at

LEMMA OrderKept ==
    ASSUME TimesKept, query' = query,
           NEW r \in Rows, NEW s \in Rows,
           Present(r), Present(r)', Present(s), Present(s)'
    PROVE  Precedes(query, r, s)' <=> Precedes(query, r, s)
<1>1. rows'[r].at = rows[r].at /\ rows'[s].at = rows[s].at
  BY DEF TimesKept
<1>2. QED
  BY <1>1 DEF Precedes

(* The other members of a list that grows keep their order: nobody's place *)
(* falls.                                                                  *)
LEMMA PlaceRises ==
    ASSUME TimesKept, query' = query,
           Listed(query) \subseteq Listed(query)',
           NEW r \in Listed(query)
    PROVE  /\ Place(query, Listed(query), r) \in Nat
           /\ Place(query, Listed(query), r)' \in Nat
           /\ Place(query, Listed(query), r) <= Place(query, Listed(query), r)'
<1> DEFINE L == Listed(query)
           B == {s \in L : Precedes(query, s, r)}
           M == {s \in L' : Precedes(query, s, r)'}
<1>1. \A s \in L : s \in Rows /\ Present(s) /\ Present(s)'
  BY DEF Listed
<1>2. B \subseteq M
  BY <1>1, OrderKept
<1>3. L' \subseteq Rows
  BY DEF Listed
<1>4. IsFiniteSet(M)
  BY <1>3, ListingAssumption, FS_Subset
<1> HIDE DEF B, M
<1>5. IsFiniteSet(B) /\ Cardinality(B) <= Cardinality(M)
  BY <1>2, <1>4, FS_Subset
<1>6. Cardinality(B) \in Nat /\ Cardinality(M) \in Nat
  BY <1>4, <1>5, FS_CardinalityType
<1>7. QED
  BY <1>5, <1>6 DEF B, M, Place

(* In a list that shrinks nobody's place rises, and there are no more rows *)
(* than before.                                                            *)
LEMMA PlaceFalls ==
    ASSUME TimesKept, query' = query,
           Listed(query)' \subseteq Listed(query),
           NEW r \in Listed(query)'
    PROVE  /\ Place(query, Listed(query), r) \in Nat
           /\ Place(query, Listed(query), r)' \in Nat
           /\ Place(query, Listed(query), r)' <= Place(query, Listed(query), r)
<1> DEFINE L == Listed(query)
           B == {s \in L : Precedes(query, s, r)}
           M == {s \in L' : Precedes(query, s, r)'}
<1>1. \A s \in L' : s \in Rows /\ Present(s) /\ Present(s)'
  BY DEF Listed
<1>2. M \subseteq B
  BY <1>1, OrderKept
<1>3. IsFiniteSet(L)
  BY ListedFinite
<1>4. IsFiniteSet(B)
  BY <1>3, FS_Subset
<1> HIDE DEF B, M
<1>5. IsFiniteSet(M) /\ Cardinality(M) <= Cardinality(B)
  BY <1>2, <1>4, FS_Subset
<1>6. Cardinality(B) \in Nat /\ Cardinality(M) \in Nat
  BY <1>4, <1>5, FS_CardinalityType
<1>7. QED
  BY <1>5, <1>6 DEF B, M, Place

LEMMA LengthFalls ==
    ASSUME Listed(query)' \subseteq Listed(query)
    PROVE  /\ Cardinality(Listed(query)') <= Cardinality(Listed(query))
           /\ Cardinality(Listed(query)') \in Nat /\ Cardinality(Listed(query)) \in Nat
<1>1. IsFiniteSet(Listed(query))
  BY ListedFinite
<1>2. IsFiniteSet(Listed(query)') /\ Cardinality(Listed(query)') <= Cardinality(Listed(query))
  BY <1>1, FS_Subset
<1>3. QED
  BY <1>1, <1>2, FS_CardinalityType

(* A commit keeps the inductive invariant: what leaves the list settles    *)
(* what the client is owed, what joins it what the client was shown.       *)
LEMMA WriteInv ==
    ASSUME ListingInv, NEW newRows \in [Rows -> RowType \cup {NoRow}],
           Write(newRows), TimesKept, TimesDiffer'
    PROVE  ListingInv'
<1> DEFINE Joining == ~ Listed(query)' \subseteq Listed(query)
           Leaving == ~ Listed(query) \subseteq Listed(query)'
<1>0. /\ rows' = newRows
      /\ table' = table /\ pc' = pc /\ query' = query /\ skip' = skip
      /\ total' = total /\ items' = items
  BY DEF Write
<1>1. walk' = IF pc = "idle" THEN walk
              ELSE [walk EXCEPT !.owed = IF Leaving THEN {} ELSE @,
                                !.seen = IF Joining THEN {} ELSE @,
                                !.joined = @ \/ Joining,
                                !.torn = @ \/ (pc = "counted" /\ Joining)]
  BY DEF Write, Noted
<1>2. ListingTypeOK /\ rows \in [Rows -> RowType \cup {NoRow}] /\ skip \in Nat /\ total \in Nat
  BY DEF ListingInv, ListingTypeOK
<1>3. walk \in [caller : Users \cup {Nobody}, owed : SUBSET Rows, seen : SUBSET Rows,
                twice : BOOLEAN, joined : BOOLEAN, torn : BOOLEAN]
  BY <1>2 DEF ListingTypeOK
<1>4. Joining \in BOOLEAN /\ Leaving \in BOOLEAN
  OBVIOUS
<1>5. /\ walk'.caller = walk.caller /\ walk'.twice = walk.twice
      /\ walk'.owed \subseteq walk.owed /\ walk'.seen \subseteq walk.seen
      /\ pc # "idle" /\ Leaving => walk'.owed = {}
      /\ pc # "idle" /\ Joining => walk'.seen = {}
      /\ walk'.joined <=> walk.joined \/ (pc # "idle" /\ Joining)
      /\ walk'.torn <=> walk.torn \/ (pc = "counted" /\ Joining)
  <2> HIDE DEF Joining, Leaving
  <2>1. CASE pc = "idle"
    BY <1>1, <2>1
  <2>2. CASE pc # "idle"
    BY <1>1, <1>3, <1>4, <2>2
  <2>3. QED
    BY <2>1, <2>2
<1>6. walk' \in [caller : Users \cup {Nobody}, owed : SUBSET Rows, seen : SUBSET Rows,
                 twice : BOOLEAN, joined : BOOLEAN, torn : BOOLEAN]
  <2> HIDE DEF Joining, Leaving
  <2>1. CASE pc = "idle"
    BY <1>1, <1>3, <2>1
  <2>2. CASE pc # "idle"
    BY <1>1, <1>3, <1>4, <2>2
  <2>3. QED
    BY <2>1, <2>2
<1>7. ListingTypeOK'
  BY <1>0, <1>2, <1>6 DEF ListingTypeOK
<1>8. Ahead' = Ahead /\ Ahead \in Nat
  BY <1>0, <1>2, ListingAssumption DEF Ahead
<1>9. OwedAhead'
  <2> SUFFICES ASSUME pc # "idle", NEW r \in walk'.owed
               PROVE  /\ r \in Listed(query)'
                      /\ Ahead <= Place(query, Listed(query), r)'
    BY <1>0, <1>8 DEF OwedAhead
  <2>1. ~ Leaving
    BY <1>5
  <2>2. r \in Listed(query) /\ Ahead <= Place(query, Listed(query), r)
    BY <1>5 DEF ListingInv, OwedAhead
  <2>3. r \in Listed(query)'
    BY <2>1, <2>2
  <2>4. /\ Place(query, Listed(query), r) \in Nat
        /\ Place(query, Listed(query), r)' \in Nat
        /\ Place(query, Listed(query), r) <= Place(query, Listed(query), r)'
    BY <1>0, <2>1, <2>2, PlaceRises
  <2>5. QED
    BY <1>8, <2>2, <2>3, <2>4
<1>10. SeenBehind'
  <2>1. walk'.joined => walk'.seen = {}
    BY <1>3, <1>5 DEF ListingInv, SeenBehind
  <2>2. ASSUME pc # "idle", NEW r \in walk'.seen, r \in Listed(query)'
        PROVE  Place(query, Listed(query), r)' < Ahead
    <3>1. ~ Joining
      BY <1>5, <2>2
    <3>2. r \in Listed(query)
      BY <2>2, <3>1
    <3>3. Place(query, Listed(query), r) < Ahead
      BY <1>5, <2>2, <3>2 DEF ListingInv, SeenBehind
    <3>4. /\ Place(query, Listed(query), r) \in Nat
          /\ Place(query, Listed(query), r)' \in Nat
          /\ Place(query, Listed(query), r)' <= Place(query, Listed(query), r)
      BY <1>0, <2>2, <3>1, PlaceFalls
    <3>5. QED
      BY <1>8, <3>3, <3>4
  <2>3. QED
    BY <1>0, <1>8, <2>1, <2>2 DEF SeenBehind
<1>11. TotalCovers'
  <2> SUFFICES ASSUME pc = "counted", ~ walk'.torn
               PROVE  Cardinality(Listed(query)') <= total
    BY <1>0 DEF TotalCovers
  <2>1. ~ Joining /\ ~ walk.torn
    BY <1>5
  <2>2. Listed(query)' \subseteq Listed(query)
    BY <2>1
  <2>3. Cardinality(Listed(query)) <= total
    BY <2>1 DEF ListingInv, TotalCovers
  <2>4. /\ Cardinality(Listed(query)') <= Cardinality(Listed(query))
        /\ Cardinality(Listed(query)') \in Nat /\ Cardinality(Listed(query)) \in Nat
    BY <2>2, LengthFalls
  <2>5. QED
    BY <1>2, <2>3, <2>4
<1>12. PageFits' /\ NothingTwice' /\ NothingMissed' /\ QueryOffered'
  BY <1>0, <1>5 DEF ListingInv, PageFits, NothingTwice, NothingMissed, MorePages, QueryOffered
<1>13. QED
  BY <1>7, <1>9, <1>10, <1>11, <1>12 DEF ListingInv

LEMMA NewRowType ==
    ASSUME ListingTypeOK, NEW row \in NewRows(table)
    PROVE  row \in RowType
<1>1. row.at \in Times /\ row.deleted \in BOOLEAN /\ row.status \in Statuses
  BY DEF NewRows, Statuses
<1>2. row.user \in Users \cup {Nobody} /\ row.about \in {"this", "other"}
  BY DEF NewRows
<1>3. QED
  BY <1>1, <1>2 DEF NewRows, RowType

LEMMA InsertInv ==
    ASSUME ListingInv, NEW r \in Rows, Insert(r)
    PROVE  ListingInv'
<1>1. PICK row \in NewRows(table) :
         /\ \A s \in Rows : Present(s) => rows[s].at # row.at
         /\ Write([rows EXCEPT ![r] = row])
  BY DEF Insert
<1>2. ListingTypeOK /\ rows \in [Rows -> RowType \cup {NoRow}] /\ TimesDiffer
  BY DEF ListingInv, ListingTypeOK
<1>3. row \in RowType
  BY <1>2, NewRowType
<1>4. [rows EXCEPT ![r] = row] \in [Rows -> RowType \cup {NoRow}]
  BY <1>2, <1>3
<1>5. rows' = [rows EXCEPT ![r] = row]
  BY <1>1 DEF Write
<1>6. ~ Present(r)
  BY DEF Insert
<1>7. TimesKept
  BY <1>2, <1>5, <1>6 DEF TimesKept, Present
<1>8. TimesDiffer'
  BY <1>1, <1>2, <1>5 DEF TimesDiffer, Present
<1>9. QED
  BY <1>1, <1>4, <1>7, <1>8, WriteInv

(* A row that is there is changed or removed.                              *)
LEMMA ChangeInv ==
    ASSUME ListingInv, NEW r \in Rows, Present(r),
           NEW row \in RowType \cup {NoRow}, row # NoRow => row.at = rows[r].at,
           Write([rows EXCEPT ![r] = row])
    PROVE  ListingInv'
<1>1. ListingTypeOK /\ rows \in [Rows -> RowType \cup {NoRow}] /\ TimesDiffer
  BY DEF ListingInv, ListingTypeOK
<1>2. [rows EXCEPT ![r] = row] \in [Rows -> RowType \cup {NoRow}]
  BY <1>1
<1>3. rows' = [rows EXCEPT ![r] = row]
  BY DEF Write
<1>4. TimesKept
  BY <1>1, <1>3 DEF TimesKept, Present
<1>5. TimesDiffer'
  BY <1>1, <1>3 DEF TimesDiffer, Present
<1>6. QED
  BY <1>2, <1>4, <1>5, WriteInv

LEMMA DeleteInv ==
    ASSUME ListingInv, NEW r \in Rows, Delete(r)
    PROVE  ListingInv'
<1>1. rows \in [Rows -> RowType \cup {NoRow}] /\ Present(r)
  BY DEF ListingInv, ListingTypeOK, Delete
<1>2. rows[r] \in RowType
  BY <1>1 DEF Present
<1> DEFINE Gone == [rows[r] EXCEPT !.deleted = TRUE]
           Off == [rows[r] EXCEPT !.status = "after", !.deleted = TRUE]
<1>3. Gone \in RowType /\ Gone.at = rows[r].at
  BY <1>2 DEF RowType
<1>4. Off \in RowType /\ Off.at = rows[r].at
  BY <1>2 DEF RowType, Statuses
<1>5. \/ Write([rows EXCEPT ![r] = NoRow])
      \/ Write([rows EXCEPT ![r] = Gone])
      \/ Write([rows EXCEPT ![r] = Off])
  <2>1. [rows EXCEPT ![r].deleted = TRUE] = [rows EXCEPT ![r] = Gone]
    BY <1>1
  <2>2. [rows EXCEPT ![r].status = "after", ![r].deleted = TRUE] = [rows EXCEPT ![r] = Off]
    BY <1>1, <1>2 DEF RowType
  <2> HIDE DEF Gone, Off
  <2>3. QED
    BY <2>1, <2>2 DEF Delete, Write
<1> HIDE DEF Gone, Off
<1>6. QED
  BY <1>1, <1>3, <1>4, <1>5, ChangeInv

LEMMA MoveInv ==
    ASSUME ListingInv, NEW r \in Rows, Move(r)
    PROVE  ListingInv'
<1>1. rows \in [Rows -> RowType \cup {NoRow}] /\ Present(r)
  BY DEF ListingInv, ListingTypeOK, Move
<1>2. rows[r] \in RowType
  BY <1>1 DEF Present
<1> DEFINE Moved == [rows[r] EXCEPT !.status = "after"]
<1>3. Moved \in RowType /\ Moved.at = rows[r].at
  BY <1>2 DEF RowType, Statuses
<1>4. Write([rows EXCEPT ![r] = Moved])
  BY <1>1 DEF Move, Write
<1> HIDE DEF Moved
<1>5. QED
  BY <1>1, <1>3, <1>4, ChangeInv

-----------------------------------------------------------------------------
(* What the steps of the walk do. *)

(* The COUNT leaves the table alone: the total it returns is that of the   *)
(* list.                                                                   *)
LEMMA CountKeeps ==
    ASSUME ListingInv, NEW q, NEW offset \in Nat, Count(q, offset)
    PROVE  /\ table' = table /\ rows' = rows /\ pc' = "counted"
           /\ query' = q /\ skip' = offset /\ items' = {}
           /\ Listed(query)' = Listed(q)
           /\ total' = Cardinality(Listed(q)) /\ total' \in Nat
           /\ \A r \in Rows : Place(query, Listed(query), r)' = Place(q, Listed(q), r)
           /\ Ahead' = offset
           /\ TimesDiffer' /\ PageFits' /\ TotalCovers' /\ NothingMissed'
<1>1. /\ table' = table /\ rows' = rows /\ pc' = "counted"
      /\ query' = q /\ skip' = offset /\ items' = {}
      /\ total' = Cardinality(Listed(q))
  BY DEF Count
<1>2. Listed(query)' = Listed(q)
  BY <1>1 DEF Listed, Present, Matches, Compares
<1>3. ASSUME NEW r \in Rows
      PROVE  Place(query, Listed(query), r)' = Place(q, Listed(q), r)
  BY <1>1, <1>2 DEF Place, Precedes
<1>4. total' \in Nat
  BY <1>1, ListedFinite, FS_CardinalityType
<1>5. Ahead' = offset
  BY <1>1 DEF Ahead
<1>6. TimesDiffer'
  BY <1>1 DEF ListingInv, TimesDiffer, Present
<1>7. PageFits'
  BY <1>1, FS_EmptySet, ListingAssumption DEF PageFits
<1>8. TotalCovers' /\ NothingMissed'
  BY <1>1, <1>2, <1>4 DEF TotalCovers, NothingMissed
<1>9. QED
  BY <1>1, <1>2, <1>3, <1>4, <1>5, <1>6, <1>7, <1>8

(* The client begins: it is owed the whole list.                           *)
LEMMA BeginInv ==
    ASSUME ListingInv, Begin
    PROVE  ListingInv'
<1>0. PICK u \in Users \cup {Nobody} :
         \E q \in IF u = Nobody THEN Unrouted(table) ELSE Offered(table, u) :
            /\ Count(q, 0)
            /\ walk' = [NoWalk EXCEPT !.caller = u, !.owed = Listed(q)]
  BY DEF Begin
<1>1. PICK q \in IF u = Nobody THEN Unrouted(table) ELSE Offered(table, u) :
         /\ Count(q, 0)
         /\ walk' = [NoWalk EXCEPT !.caller = u, !.owed = Listed(q)]
  BY <1>0
<1>2. /\ walk'.caller = u /\ walk'.owed = Listed(q) /\ walk'.seen = {}
      /\ ~ walk'.twice
  BY <1>1 DEF NoWalk
<1>3. Listed(q) \subseteq Rows /\ IsFiniteSet(Listed(q))
  BY ListedFinite
<1>4. walk' \in [caller : Users \cup {Nobody}, owed : SUBSET Rows, seen : SUBSET Rows,
                 twice : BOOLEAN, joined : BOOLEAN, torn : BOOLEAN]
  BY <1>1, <1>3 DEF NoWalk
<1>5. /\ table' = table /\ rows' = rows /\ pc' = "counted"
      /\ query' = q /\ skip' = 0 /\ items' = {}
      /\ Listed(query)' = Listed(q) /\ total' \in Nat
      /\ \A r \in Rows : Place(query, Listed(query), r)' = Place(q, Listed(q), r)
      /\ Ahead' = 0
      /\ TimesDiffer' /\ PageFits' /\ TotalCovers' /\ NothingMissed'
  BY <1>1, CountKeeps
<1>6. ListingTypeOK'
  BY <1>4, <1>5 DEF ListingInv, ListingTypeOK
<1>7. OwedAhead'
  <2>1. \A r \in Listed(q) : Place(q, Listed(q), r) \in Nat
    BY <1>3, PlaceType
  <2>2. QED
    BY <1>2, <1>3, <1>5, <2>1 DEF OwedAhead
<1>8. SeenBehind' /\ NothingTwice'
  BY <1>2 DEF SeenBehind, NothingTwice
<1>9. QueryOffered'
  BY <1>1, <1>2, <1>5 DEF QueryOffered
<1>10. QED
  BY <1>5, <1>6, <1>7, <1>8, <1>9 DEF ListingInv

LEMMA ContinueInv ==
    ASSUME ListingInv, Continue
    PROVE  ListingInv'
<1>1. /\ pc = "page" /\ Count(query, skip + Limit)
      /\ walk' = [walk EXCEPT !.torn = FALSE]
  BY DEF Continue
<1>2. ListingTypeOK /\ OwedAhead /\ SeenBehind /\ QueryOffered /\ NothingTwice
  BY DEF ListingInv
<1>3. skip + Limit \in Nat /\ Ahead = skip + Limit
  BY <1>1, <1>2, ListingAssumption DEF ListingTypeOK, Ahead
<1>4. /\ walk'.caller = walk.caller /\ walk'.owed = walk.owed /\ walk'.seen = walk.seen
      /\ walk'.twice = walk.twice /\ walk'.joined = walk.joined
      /\ walk.owed \subseteq Rows /\ walk.seen \subseteq Rows
  BY <1>1, <1>2 DEF ListingTypeOK
<1>5. /\ table' = table /\ rows' = rows /\ pc' = "counted"
      /\ query' = query /\ skip' = skip + Limit /\ items' = {}
      /\ Listed(query)' = Listed(query) /\ total' \in Nat
      /\ \A r \in Rows : Place(query, Listed(query), r)' = Place(query, Listed(query), r)
      /\ Ahead' = skip + Limit
      /\ TimesDiffer' /\ PageFits' /\ TotalCovers' /\ NothingMissed'
  BY <1>1, <1>3, CountKeeps
<1>6. ListingTypeOK'
  BY <1>1, <1>2, <1>3, <1>5 DEF ListingTypeOK
<1>7. OwedAhead'
  BY <1>1, <1>2, <1>3, <1>4, <1>5 DEF OwedAhead
<1>8. SeenBehind'
  BY <1>1, <1>2, <1>3, <1>4, <1>5 DEF SeenBehind
<1>9. QueryOffered' /\ NothingTwice'
  BY <1>1, <1>2, <1>4, <1>5 DEF QueryOffered, NothingTwice
<1>10. QED
  BY <1>5, <1>6, <1>7, <1>8, <1>9 DEF ListingInv

(* The SELECT hands out what is in the places of the page, and what stays  *)
(* owed comes after them.  After the last page there is no such place.     *)
LEMMA ReadInv ==
    ASSUME ListingInv, Read
    PROVE  ListingInv'
<1> DEFINE L == Listed(query)
           P == Page(query, skip)
<1>1. /\ ListingTypeOK /\ rows \in [Rows -> RowType \cup {NoRow}] /\ TimesDiffer
      /\ OwedAhead /\ SeenBehind /\ TotalCovers /\ QueryOffered /\ NothingTwice
  BY DEF ListingInv, ListingTypeOK
<1>2. /\ pc = "counted" /\ pc' = "page" /\ items' = P
      /\ table' = table /\ rows' = rows /\ query' = query /\ skip' = skip /\ total' = total
      /\ walk' = [walk EXCEPT !.owed = @ \ P,
                              !.seen = IF walk.joined THEN @ ELSE @ \cup P,
                              !.twice = @ \/ P \cap walk.seen # {}]
  BY DEF Read
<1>3. skip \in Nat /\ total \in Nat /\ Limit \in Nat /\ Ahead = skip /\ Ahead' = skip + Limit
  BY <1>1, <1>2, ListingAssumption DEF ListingTypeOK, Ahead
<1>4. /\ L \subseteq Rows /\ IsFiniteSet(L)
      /\ \A r \in L : Place(query, L, r) \in Nat
  BY ListedFinite, PlaceType
<1>5. P = {r \in L : skip <= Place(query, L, r) /\ Place(query, L, r) < skip + Limit}
  BY DEF Page, Cut
<1>6. /\ Listed(query)' = L
      /\ \A r \in Rows : Place(query, Listed(query), r)' = Place(query, L, r)
  <2>1. Listed(query)' = L
    BY <1>2 DEF Listed, Present, Matches, Compares
  <2>2. ASSUME NEW r \in Rows
        PROVE  Place(query, Listed(query), r)' = Place(query, L, r)
    BY <1>2, <2>1 DEF Place, Precedes
  <2>3. QED
    BY <2>1, <2>2
<1>7. Cardinality(P) <= Limit
  BY <1>1, <1>3, CutFits DEF Page
<1>8. walk \in [caller : Users \cup {Nobody}, owed : SUBSET Rows, seen : SUBSET Rows,
                twice : BOOLEAN, joined : BOOLEAN, torn : BOOLEAN]
  BY <1>1 DEF ListingTypeOK
<1>9. P \subseteq Rows
  BY <1>4, <1>5
<1>10. \A r \in P : r \notin walk.seen
  BY <1>1, <1>2, <1>3, <1>4, <1>5 DEF SeenBehind
<1> HIDE DEF L, P
<1>11. /\ walk'.caller = walk.caller /\ walk'.owed = walk.owed \ P
       /\ walk'.seen = IF walk.joined THEN walk.seen ELSE walk.seen \cup P
       /\ walk'.joined = walk.joined /\ walk'.torn = walk.torn
       /\ walk'.twice <=> walk.twice \/ P \cap walk.seen # {}
  BY <1>2, <1>8
<1>12. walk' \in [caller : Users \cup {Nobody}, owed : SUBSET Rows, seen : SUBSET Rows,
                  twice : BOOLEAN, joined : BOOLEAN, torn : BOOLEAN]
  BY <1>2, <1>8, <1>9
<1>13. ListingTypeOK'
  BY <1>1, <1>2, <1>9, <1>12 DEF ListingTypeOK
<1>14. TimesDiffer'
  BY <1>1, <1>2 DEF TimesDiffer, Present
<1>15. \A r \in walk'.owed : r \in L /\ skip + Limit <= Place(query, L, r)
  <2> SUFFICES ASSUME NEW r \in walk'.owed
               PROVE  r \in L /\ skip + Limit <= Place(query, L, r)
    OBVIOUS
  <2>1. r \in walk.owed /\ r \notin P
    BY <1>11
  <2>2. r \in L /\ skip <= Place(query, L, r)
    BY <1>1, <1>2, <1>3, <2>1 DEF OwedAhead, L
  <2>3. Place(query, L, r) \in Nat
    BY <1>4, <2>2
  <2>4. QED
    BY <1>3, <1>5, <2>1, <2>2, <2>3
<1>16. OwedAhead'
  BY <1>3, <1>4, <1>6, <1>15 DEF OwedAhead
<1>17. SeenBehind'
  <2>1. ASSUME NEW r \in walk'.seen, r \in L
        PROVE  Place(query, L, r) < skip + Limit
    <3>1. Place(query, L, r) \in Nat
      BY <1>4, <2>1
    <3>2. CASE r \in P
      BY <1>5, <3>2
    <3>3. CASE r \in walk.seen
      <4>1. Place(query, L, r) < skip
        BY <1>1, <1>2, <1>3, <2>1, <3>3 DEF SeenBehind, L
      <4>2. QED
        BY <1>3, <3>1, <4>1
    <3>4. QED
      BY <1>11, <2>1, <3>2, <3>3
  <2>2. walk'.joined => walk'.seen = {}
    BY <1>1, <1>11 DEF SeenBehind
  <2>3. QED
    BY <1>3, <1>4, <1>6, <2>1, <2>2 DEF SeenBehind
<1>18. NothingMissed'
  <2> SUFFICES ASSUME ~ MorePages', ~ walk'.torn, NEW r \in walk'.owed
               PROVE  FALSE
    BY DEF NothingMissed
  <2>1. r \in L /\ skip + Limit <= Place(query, L, r) /\ Place(query, L, r) \in Nat
    BY <1>4, <1>15
  <2>2. Place(query, L, r) < Cardinality(L)
    BY <1>1, <2>1, PlaceBelowLength DEF L
  <2>3. Cardinality(L) <= total
    BY <1>1, <1>2, <1>11 DEF TotalCovers, L
  <2>4. total <= skip + Limit
    BY <1>2, <1>3 DEF MorePages
  <2>5. Cardinality(L) \in Nat
    BY <1>4, FS_CardinalityType
  <2>6. QED
    BY <1>3, <2>1, <2>2, <2>3, <2>4, <2>5
<1>19. PageFits' /\ TotalCovers' /\ QueryOffered' /\ NothingTwice'
  BY <1>1, <1>2, <1>7, <1>10, <1>11 DEF PageFits, TotalCovers, QueryOffered, NothingTwice
<1>20. QED
  BY <1>13, <1>14, <1>16, <1>17, <1>18, <1>19 DEF ListingInv

LEMMA CloseInv ==
    ASSUME ListingInv, Close
    PROVE  ListingInv'
<1>1. /\ pc' = "idle" /\ skip' = 0 /\ total' = 0 /\ items' = {}
      /\ walk' = NoWalk /\ table' = table /\ rows' = rows
  BY DEF Close
<1>2. ListingTypeOK'
  BY <1>1 DEF ListingInv, ListingTypeOK, NoWalk
<1>3. TimesDiffer'
  BY <1>1 DEF ListingInv, TimesDiffer, Present
<1>4. PageFits'
  BY <1>1, FS_EmptySet, ListingAssumption DEF PageFits
<1>5. /\ OwedAhead' /\ SeenBehind' /\ TotalCovers' /\ QueryOffered'
      /\ NothingMissed' /\ NothingTwice'
  BY <1>1 DEF NoWalk, OwedAhead, SeenBehind, TotalCovers, QueryOffered, NothingMissed,
              NothingTwice
<1>6. QED
  BY <1>2, <1>3, <1>4, <1>5 DEF ListingInv

LEMMA ListingInit == Init => ListingInv
<1> SUFFICES ASSUME Init
             PROVE  ListingInv
  OBVIOUS
<1>1. ListingTypeOK
  BY DEF Init, ListingTypeOK, NoWalk
<1>2. TimesDiffer
  BY DEF Init, TimesDiffer, Present
<1>3. PageFits
  BY FS_EmptySet, ListingAssumption DEF Init, PageFits
<1>4. /\ OwedAhead /\ SeenBehind /\ TotalCovers /\ QueryOffered
      /\ NothingMissed /\ NothingTwice
  BY DEF Init, NoWalk, OwedAhead, SeenBehind, TotalCovers, QueryOffered, NothingMissed,
         NothingTwice
<1>5. QED
  BY <1>1, <1>2, <1>3, <1>4 DEF ListingInv

LEMMA ListingStep == ListingInv /\ [Next]_vars => ListingInv'
<1> SUFFICES ASSUME ListingInv, [Next]_vars
             PROVE  ListingInv'
  OBVIOUS
<1>1. CASE Begin
  BY <1>1, BeginInv
<1>2. CASE Continue
  BY <1>2, ContinueInv
<1>3. CASE Read
  BY <1>3, ReadInv
<1>4. CASE Close
  BY <1>4, CloseInv
<1>5. ASSUME NEW r \in Rows, Insert(r)
      PROVE  ListingInv'
  BY <1>5, InsertInv
<1>6. ASSUME NEW r \in Rows, Delete(r)
      PROVE  ListingInv'
  BY <1>6, DeleteInv
<1>7. ASSUME NEW r \in Rows, Move(r)
      PROVE  ListingInv'
  BY <1>7, MoveInv
<1>8. CASE UNCHANGED vars
  <2>1. /\ table' = table /\ rows' = rows /\ pc' = pc /\ query' = query
        /\ skip' = skip /\ total' = total /\ items' = items /\ walk' = walk
    BY <1>8 DEF vars
  <2>2. Listed(query)' = Listed(query)
    BY <2>1 DEF Listed, Present, Matches, Compares
  <2>3. ASSUME NEW r
        PROVE  Place(query, Listed(query), r)' = Place(query, Listed(query), r)
    BY <2>1, <2>2 DEF Place, Precedes
  <2>4. ListingTypeOK' /\ TimesDiffer' /\ PageFits'
    BY <2>1 DEF ListingInv, ListingTypeOK, TimesDiffer, Present, PageFits
  <2>5. OwedAhead' /\ SeenBehind'
    BY <2>1, <2>2, <2>3 DEF ListingInv, OwedAhead, SeenBehind, Ahead
  <2>6. TotalCovers' /\ QueryOffered' /\ NothingMissed' /\ NothingTwice'
    BY <2>1, <2>2 DEF ListingInv, TotalCovers, QueryOffered, NothingMissed, NothingTwice,
                      MorePages
  <2>7. QED
    BY <2>4, <2>5, <2>6 DEF ListingInv
<1>9. QED
  BY <1>1, <1>2, <1>3, <1>4, <1>5, <1>6, <1>7, <1>8 DEF Next

-----------------------------------------------------------------------------
(* What a page shows a caller.  Each list is filtered by conditions of its *)
(* own; they are compared with those of the route for one row.             *)

LEMMA PageIsListed ==
    ASSUME NEW offset, NEW r \in Page(query, offset)
    PROVE  r \in Rows /\ Present(r) /\ Matches(query, rows[r])
BY DEF Page, Cut, Listed

(* What an uploader or the owner of an asset is offered is his.            *)
LEMMA OwnRows ==
    ASSUME NEW u, NEW row, Matches([Unfiltered EXCEPT !.user = {u}], row)
    PROVE  row.user = u /\ (table \in SoftDeletes => ~ row.deleted)
BY DEF Matches, Compares, Unfiltered

(* Every list of analyses compares the account that requested them, that   *)
(* of one asset included.                                                  *)
LEMMA RequestedRows ==
    ASSUME NEW u \in Users, NEW q \in ListAnalyses(u) \cup ListAssetAnalyses(u),
           NEW row, Matches(q, row)
    PROVE  u \in Admins \/ row.user = u
<1>1. PICK about, status : q = AnalysesFiltered(u, about, status)
  BY DEF ListAnalyses, ListAssetAnalyses
<1>2. q.user = Requesters(u)
  BY <1>1 DEF AnalysesFiltered, Unfiltered
<1>3. QED
  BY <1>2 DEF Matches, Compares, Requesters

LEMMA OfferedIsReadable ==
    ASSUME NEW u \in Users, table \in TableNames, query \in Offered(table, u),
           NEW r, Present(r), Matches(query, rows[r])
    PROVE  Readable(u, r)
<1>1. CASE table = "uploads"
  <2>1. query = [Unfiltered EXCEPT !.user = {u}]
    BY <1>1 DEF Offered, ListUploads, UploadsByUser
  <2>2. rows[r].user = u
    BY <2>1, OwnRows
  <2>3. QED
    BY <1>1, <2>2 DEF Readable, GetUpload
<1>2. CASE table = "digital_assets"
  <2>1. query = [Unfiltered EXCEPT !.user = {u}]
    BY <1>2 DEF Offered, ListAssets, AssetsByUser
  <2>2. rows[r].user = u /\ ~ rows[r].deleted
    BY <1>2, <2>1, OwnRows DEF SoftDeletes
  <2>3. QED
    BY <1>2, <2>2 DEF Readable, GetAsset, Live
<1>3. CASE table = "analyses"
  <2>1. query \in ListAnalyses(u) \cup ListAssetAnalyses(u)
    BY <1>3 DEF Offered
  <2>2. u \in Admins \/ rows[r].user = u
    BY <2>1, RequestedRows
  <2>3. QED
    BY <1>3, <2>2 DEF Readable, GetAnalysis
<1>4. CASE table = "users"
  <2>1. u \in Admins
    BY <1>4 DEF Offered, ListUsers
  <2>2. ~ rows[r].deleted
    BY <1>4 DEF Matches, SoftDeletes
  <2>3. QED
    BY <1>4, <2>1, <2>2 DEF Readable, GetUser, Live
<1>5. CASE table \notin {"uploads", "digital_assets", "analyses", "users"}
  <2>1. Offered(table, u) = {}
    BY <1>5 DEF Offered
  <2>2. QED
    BY <2>1
<1>6. QED
  BY <1>1, <1>2, <1>3, <1>4, <1>5

-----------------------------------------------------------------------------
(* The theorems. *)

(* The inductive invariant.  What the client is owed is in the list and    *)
(* behind the pages it was given, what it was shown is in front of them,   *)
(* and an untorn total covers the list.                                    *)
THEOREM ListingInvariance == Spec => []ListingInv
<1>1. QED
  BY ListingInit, ListingStep, PTL DEF Spec

(* Whatever other requests commit while a client walks a list, it is shown *)
(* every row that was there when it began, if none left meanwhile and none *)
(* joined between the COUNT and the SELECT of the last page                *)
(* (repositories/base.py and the list methods of every repository).        *)
THEOREM NothingIsMissed == Spec => []NothingMissed
<1>1. ListingInv => NothingMissed
  BY DEF ListingInv
<1>2. QED
  BY <1>1, ListingInvariance, PTL

(* If rows only leave the list while a client walks it, the client is      *)
(* shown none of them twice.                                               *)
THEOREM NothingIsShownTwice == Spec => []NothingTwice
<1>1. ListingInv => NothingTwice
  BY DEF ListingInv
<1>2. QED
  BY <1>1, ListingInvariance, PTL

(* A page answers with no more rows than were asked for: the timestamps    *)
(* order the rows without ties, and a page is Limit places of that order.  *)
THEOREM PagesFit == Spec => []PageFits
<1>1. ListingInv => PageFits
  BY DEF ListingInv
<1>2. QED
  BY <1>1, ListingInvariance, PTL

(* No list shows a caller a row that the route for single rows would have  *)
(* refused him at that moment, whoever he is and whichever list of the API *)
(* he walks.                                                               *)
THEOREM ListedIsReadable == Spec => ListedReadable
<1>1. ASSUME ListingInv, [Next]_vars, pc = "counted", pc' = "page", walk.caller # Nobody,
             NEW r \in items'
      PROVE  Readable(walk.caller, r)
  <2>1. Read
    <3>1. pc' # pc
      BY <1>1
    <3>2. \A s \in Rows : Insert(s) \/ Delete(s) \/ Move(s) => pc' = pc
      BY DEF Insert, Delete, Move, Write
    <3>3. Begin => pc' = "counted"
      BY DEF Begin, Count
    <3>4. QED
      BY <1>1, <3>1, <3>2, <3>3 DEF Next, vars, Continue, Close
  <2>2. table \in TableNames /\ walk.caller \in Users /\ query \in Offered(table, walk.caller)
    BY <1>1 DEF ListingInv, ListingTypeOK, QueryOffered
  <2>3. r \in Page(query, skip)
    BY <1>1, <2>1 DEF Read
  <2>4. Present(r) /\ Matches(query, rows[r])
    BY <2>3, PageIsListed
  <2>5. QED
    BY <2>2, <2>4, OfferedIsReadable
<1>2. ListingInv /\ [Next]_vars
        => [pc = "counted" /\ pc' = "page" /\ walk.caller # Nobody
              => \A r \in items' : Readable(walk.caller, r)]_vars
  BY <1>1
<1>3. QED
  BY <1>2, ListingInvariance, PTL DEF Spec, ListedReadable
=============================================================================
