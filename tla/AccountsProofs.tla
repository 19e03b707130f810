----------------------------- MODULE AccountsProofs -----------------------------
(***************************************************************************)
(* Theorems about Accounts and the RateLimiter it extends, for any number  *)
(* of requests and any accounts, addresses, roles, clients and limit.  The *)
(* inductive invariant is CommittedInv.  Only Commit writes committed rows *)
(* and the trail; for every other step QuietStep leaves what the request   *)
(* that moves must show of itself.                                         *)
(***************************************************************************)
EXTENDS Accounts, TLAPS

-----------------------------------------------------------------------------
(* The limiter *)

\* Why the limit is kept: what was served was counted.
LimiterInv == /\ LimiterTypeOK
              /\ \A c \in Clients : served[c] <= counter[c]
              /\ FairLimit

LEMMA InitLimiter == LimiterInit => LimiterInv
  BY LimiterAssumption DEF LimiterInit, LimiterInv, LimiterTypeOK, FairLimit

LEMMA LimiterKept ==
    ASSUME LimiterInv, UNCHANGED limiterVars
    PROVE  LimiterInv'
  BY DEF LimiterInv, LimiterTypeOK, FairLimit, limiterVars

LEMMA PassKeepsLimit ==
    ASSUME LimiterInv, NEW c, Pass(c)
    PROVE  LimiterInv'
  <1> USE LimiterAssumption DEF LimiterInv, LimiterTypeOK, FairLimit, Increment, Exceeded
  <1>1. CASE Serve(c)
    BY <1>1 DEF Serve
  <1>2. CASE FailOpen(c)
    BY <1>2 DEF FailOpen
  <1>3. CASE c = NoClient /\ UNCHANGED limiterVars
    BY <1>3, LimiterKept
  <1> QED
    BY <1>1, <1>2, <1>3 DEF Pass

LEMMA RefuseKeepsLimit ==
    ASSUME LimiterInv, NEW c, Refuse(c)
    PROVE  LimiterInv'
  BY LimiterAssumption DEF LimiterInv, LimiterTypeOK, FairLimit, Increment, Exceeded, Refuse

LEMMA TickKeepsLimit ==
    ASSUME LimiterInv, Tick
    PROVE  LimiterInv'
  BY LimiterAssumption DEF LimiterInv, LimiterTypeOK, FairLimit, Tick

LEMMA LimiterStep == LimiterInv /\ [Next]_vars => LimiterInv'
  <1> SUFFICES ASSUME LimiterInv, [Next]_vars PROVE LimiterInv'
    OBVIOUS
  <1>1. ASSUME NEW r \in Requests, Arrive(r) PROVE LimiterInv'
    BY <1>1, PassKeepsLimit DEF Arrive
  <1>2. ASSUME NEW r \in Requests, TurnAway(r) PROVE LimiterInv'
    BY <1>2, RefuseKeepsLimit DEF TurnAway
  <1>3. CASE NextMinute
    BY <1>3, TickKeepsLimit DEF NextMinute
  <1>4. CASE UNCHANGED limiterVars
    BY <1>4, LimiterKept
  <1> QED
    BY <1>1, <1>2, <1>3, <1>4 DEF Next, AllServed, vars

\* The limiter's bound, under every interleaving with the handlers: no minute serves
\* more than Limit requests of a client whose counting succeeds, and 429 is never
\* answered below the limit (rate_limit.py dispatch).
THEOREM LimitIsFair == Spec => []FairLimit
  <1>1. Init => LimiterInv
    BY InitLimiter DEF Init
  <1>2. LimiterInv => FairLimit
    BY DEF LimiterInv
  <1> QED
    BY <1>1, <1>2, LimiterStep, PTL DEF Spec

-----------------------------------------------------------------------------
(* The initial state *)

LEMMA RowsAreRows ==
    NoRow \notin Row
  BY AccountAssumption DEF NoRow, Row

\* What is committed, and what keeps it so.
CommittedInv == AccountsInv /\ EmailUnique /\ TrailExplains /\ ChangesByAdmins

LEMMA InitAccounts == Init => CommittedInv
  <1> SUFFICES ASSUME Init PROVE CommittedInv
    OBVIOUS
  <1> USE AccountAssumption DEF Init
  <1>1. AccountsTypeOK
    <2>1. LimiterTypeOK
      BY InitLimiter DEF LimiterInv
    <2>2. account \in [AccountIds -> Row \union {NoRow}]
      BY DEF Row, NoRow, AccountIds
    <2>3. trail \in [Requests -> Entry] /\ ask \in [Requests -> Ask]
      BY DEF Entry, NoEntry, Ask, Nothing
    <2>4. seen \in [Requests -> Seen]
      BY DEF Seen, NothingSeen
    <2> QED
      BY <2>1, <2>2, <2>3, <2>4 DEF AccountsTypeOK
  <1>2. \A a \in AccountIds :
            /\ Stored(a) <=> a \in Seeds
            /\ a \in Seeds => Mail(a) = SeedAddress[a] /\ Live(a) /\ account[a].role = FirstRole(a)
            /\ a \notin Seeds => account[a].role = NoRole
    BY RowsAreRows DEF AccountIds, Stored, Mail, Live, FirstRole, NoRow, Row
  <1>3. \A r \in Requests : trail[r].action = "none" /\ r \notin Seeds
    BY DEF NoEntry
  <1>4. \A r \in Requests : Uncommitted(r) /\ RolesRead(r) /\ ColumnsToWrite(r) /\ InsertExclusive(r)
    BY <1>2, <1>3 DEF Uncommitted, RolesRead, ColumnsToWrite, InsertExclusive, Kind, Nothing, 
                      Changing, AccountIds
  <1>5. TrailShape
    BY <1>2, <1>3 DEF TrailShape, Empowered, FirstRole
  <1>6. EmailUnique
    BY <1>2 DEF EmailUnique
  <1>7. TrailExplains
    BY <1>2, <1>3 DEF TrailExplains, HasEntry, Explained
  <1>8. ChangesByAdmins
    BY <1>3 DEF ChangesByAdmins
  <1> QED
    BY <1>1, <1>4, <1>5, <1>6, <1>7, <1>8 DEF CommittedInv, AccountsInv

-----------------------------------------------------------------------------
(* Steps that write no row *)

\* What is true of the rows and the trail stays true while nobody writes them.
LEMMA RowsKept ==
    ASSUME CommittedInv, UNCHANGED accountVars
    PROVE  /\ \A a : Stored(a)' = Stored(a) /\ Mail(a)' = Mail(a)
           /\ \A a : Empowered(a)' = Empowered(a)
           /\ \A a, role : Explained(a, role)' = Explained(a, role)
           /\ TrailShape' /\ EmailUnique' /\ TrailExplains' /\ ChangesByAdmins'
  <1> USE DEF accountVars
  <1>1. \A a : Stored(a)' = Stored(a) /\ Mail(a)' = Mail(a) /\ Live(a)' = Live(a)
    BY DEF Stored, Mail, Live
  <1>2. \A a : Empowered(a)' = Empowered(a)
    BY DEF Empowered
  <1>3. \A a, role : Promoted(a, role)' = Promoted(a, role)
    BY DEF Promoted
  <1>4. \A a, role : Explained(a, role)' = Explained(a, role)
    BY <1>3 DEF Explained, FirstRole
  <1>5. \A action, a : HasEntry(action, a)' = HasEntry(action, a)
    BY DEF HasEntry
  <1>6. TrailShape'
    BY <1>1, <1>2 DEF CommittedInv, AccountsInv, TrailShape
  <1>7. EmailUnique'
    BY <1>1 DEF CommittedInv, AccountsInv, EmailUnique
  <1>8. TrailExplains'
    BY <1>1, <1>4, <1>5 DEF CommittedInv, AccountsInv, TrailExplains
  <1>9. ChangesByAdmins'
    BY <1>2 DEF CommittedInv, AccountsInv, ChangesByAdmins
  <1> QED
    BY <1>1, <1>2, <1>4, <1>6, <1>7, <1>8, <1>9

\* The requests other than r stand where they stood and know what they knew.
OthersWait(r) ==
    \A q \in Requests \ {r} :
        /\ pc'[q] = pc[q] /\ ask'[q] = ask[q] /\ caller'[q] = caller[q]
        /\ seen'[q] = seen[q] /\ dirty'[q] = dirty[q]

\* A step of r that writes no row and no entry has to answer for r alone.
LEMMA QuietStep ==
    ASSUME CommittedInv, UNCHANGED accountVars, AccountsTypeOK',
           NEW r \in Requests, OthersWait(r),
           Uncommitted(r)', RolesRead(r)', ColumnsToWrite(r)', InsertExclusive(r)'
    PROVE  CommittedInv'
  <1> USE DEF Kind, Target
  <1>1. /\ \A a : Stored(a)' = Stored(a) /\ Mail(a)' = Mail(a)
        /\ \A a : Empowered(a)' = Empowered(a)
        /\ \A a, role : Explained(a, role)' = Explained(a, role)
        /\ TrailShape' /\ EmailUnique' /\ TrailExplains' /\ ChangesByAdmins'
    BY RowsKept
  <1>2. ASSUME NEW q \in Requests, q # r
        PROVE  Uncommitted(q)' /\ RolesRead(q)' /\ ColumnsToWrite(q)' /\ InsertExclusive(q)'
    <2>1. /\ Uncommitted(q) /\ RolesRead(q) /\ ColumnsToWrite(q) /\ InsertExclusive(q)
          /\ pc'[q] = pc[q] /\ ask'[q] = ask[q] /\ caller'[q] = caller[q]
          /\ seen'[q] = seen[q] /\ dirty'[q] = dirty[q]
      BY <1>2 DEF CommittedInv, AccountsInv, OthersWait
    <2>2. Uncommitted(q)'
      BY <1>1, <2>1 DEF Uncommitted, accountVars
    <2>3. RolesRead(q)'
      BY <1>1, <2>1 DEF RolesRead, RoleAllows
    <2>4. ColumnsToWrite(q)'
      BY <2>1 DEF ColumnsToWrite
    <2>5. InsertExclusive(q)'
      <3> SUFFICES ASSUME pc'[q] = "commit", Kind(q)' = "register"
                   PROVE  InsertingSame(q)' = {} /\ \A a \in AccountIds : Mail(a)' # ask'[q].email
        BY DEF InsertExclusive
      <3>1. \A a \in AccountIds : Mail(a)' # ask'[q].email
        BY <1>1, <2>1 DEF InsertExclusive
      <3>2. InsertingSame(q) = {}
        BY <2>1 DEF InsertExclusive
      <3>3. ASSUME NEW p \in Requests \ {q}, ask'[p].kind = "register", pc'[p] = "commit"
            PROVE  ask'[p].email # ask'[q].email
        <4>1. CASE p = r
          BY <3>3, <4>1, <1>2 DEF InsertExclusive, InsertingSame
        <4>2. CASE p # r
          BY <3>2, <3>3, <4>2, <2>1 DEF InsertingSame, OthersWait
        <4> QED
          BY <4>1, <4>2
      <3> QED
        BY <3>1, <3>3 DEF InsertingSame
    <2> QED
      BY <2>2, <2>3, <2>4, <2>5
  <1>3. \A q \in Requests : Uncommitted(q)' /\ RolesRead(q)' /\ ColumnsToWrite(q)' /\ InsertExclusive(q)'
    BY <1>2
  <1> QED
    BY <1>1, <1>3 DEF CommittedInv, AccountsInv

\* The requests go on typed while their fields are.
LEMMA MovedTypes ==
    ASSUME AccountsTypeOK, LimiterTypeOK', UNCHANGED accountVars, NEW r \in Requests,
           NEW step \in {"new", "insert", "target", "fetch", "write", "commit", "done"},
           pc' = [pc EXCEPT ![r] = step],
           NEW request \in Ask, ask' = [ask EXCEPT ![r] = request],
           NEW role \in Roles \union {NoRole}, caller' = [caller EXCEPT ![r] = role],
           NEW read \in Seen, seen' = [seen EXCEPT ![r] = read],
           NEW columns \in SUBSET {"name", "role", "active"},
           dirty' = [dirty EXCEPT ![r] = columns]
    PROVE  /\ AccountsTypeOK' /\ OthersWait(r)
           /\ pc'[r] = step /\ ask'[r] = request /\ caller'[r] = role
           /\ seen'[r] = read /\ dirty'[r] = columns
  BY DEF AccountsTypeOK, accountVars, OthersWait

LEMMA IdleIsTyped == Nothing \in Ask /\ NothingSeen \in Seen
  BY DEF Ask, Nothing, Seen, NothingSeen

LEMMA RollbackKeeps ==
    ASSUME CommittedInv, LimiterTypeOK', NEW r \in Requests, Rollback(r)
    PROVE  CommittedInv'
  <1> USE DEF Rollback, End, Goto
  <1>1. AccountsTypeOK
    BY DEF CommittedInv, AccountsInv
  <1>2. /\ AccountsTypeOK' /\ OthersWait(r)
        /\ pc'[r] = "done" /\ ask'[r] = Nothing /\ dirty'[r] = {}
    BY <1>1, IdleIsTyped, MovedTypes
  <1>3. Uncommitted(r)' /\ RolesRead(r)' /\ ColumnsToWrite(r)' /\ InsertExclusive(r)'
    BY <1>2 DEF Uncommitted, RolesRead, ColumnsToWrite, InsertExclusive, Kind, Nothing, Changing
  <1> QED
    BY <1>2, <1>3, QuietStep

\* The arrival of a request that is not refused at once.
LEMMA BeginKeeps ==
    ASSUME CommittedInv, LimiterTypeOK', NEW r \in Requests, pc[r] = "new",
           NEW request \in Ask, NEW step \in {"insert", "target", "commit"},
           Begin(r, request, step),
           NEW role \in Roles \union {NoRole}, caller' = [caller EXCEPT ![r] = role],
           request.kind # "none", step = "insert" <=> request.kind = "register",
           step = "target" <=> request.kind \in Changing, step = "commit" => request.kind = "login",
           request.kind = "register" => request.email \in Addresses,
           request.kind \in Changing =>
               /\ request.actor \in AccountIds /\ Stored(request.actor)
               /\ request.target \in AccountIds /\ Stored(request.target)
               /\ role = "admin" => Empowered(request.actor)
    PROVE  CommittedInv'
  <1> USE DEF Begin, Goto, Kind, Target
  <1>1. AccountsTypeOK /\ Uncommitted(r) /\ ColumnsToWrite(r)
    BY DEF CommittedInv, AccountsInv
  <1>2. /\ AccountsTypeOK' /\ OthersWait(r)
        /\ pc'[r] = step /\ ask'[r] = request /\ caller'[r] = role
        /\ seen'[r] = seen[r] /\ dirty'[r] = dirty[r]
    BY <1>1 DEF AccountsTypeOK, accountVars, OthersWait
  <1>3. /\ \A a : Stored(a)' = Stored(a)
        /\ \A a : Empowered(a)' = Empowered(a)
    BY RowsKept
  <1>4. Uncommitted(r)'
    BY <1>1, <1>2, <1>3 DEF Uncommitted, Changing, accountVars
  <1>5. RolesRead(r)'
    BY <1>2, <1>3 DEF RolesRead, Loaded, Changing
  <1>6. ColumnsToWrite(r)'
    BY <1>1, <1>2 DEF ColumnsToWrite, Changing
  <1>7. InsertExclusive(r)'
    BY <1>2 DEF InsertExclusive, Changing
  <1> QED
    BY <1>2, <1>4, <1>5, <1>6, <1>7, QuietStep DEF Begin

LEMMA RegisterKeeps ==
    ASSUME CommittedInv, LimiterTypeOK', NEW r \in Requests, pc[r] = "new",
           NEW e \in Addresses, Register(r, e)
    PROVE  CommittedInv'
  <1>1. CASE Rollback(r)
    BY <1>1, RollbackKeeps
  <1>2. CASE ~Rollback(r)
    <2> DEFINE request == [Nothing EXCEPT !.kind = "register", !.email = e]
    <2>1. request \in Ask /\ request.kind = "register" /\ request.email = e
      BY DEF Ask, Nothing
    <2>2. Begin(r, request, "insert") /\ UNCHANGED caller
      BY <1>2 DEF Register
    <2>3. caller[r] \in Roles \union {NoRole} /\ caller' = [caller EXCEPT ![r] = caller[r]]
      BY <2>2 DEF CommittedInv, AccountsInv, AccountsTypeOK
    <2> HIDE DEF request
    <2> QED
      BY <2>1, <2>2, <2>3, BeginKeeps DEF Changing
  <1> QED
    BY <1>1, <1>2

LEMMA LoginKeeps ==
    ASSUME CommittedInv, LimiterTypeOK', NEW r \in Requests, pc[r] = "new",
           NEW e \in Addresses, Login(r, e)
    PROVE  CommittedInv'
  <1>1. CASE Rollback(r)
    BY <1>1, RollbackKeeps
  <1>2. CASE ~Rollback(r)
    <2>1. PICK a \in Named(e) :
              /\ Begin(r, [Nothing EXCEPT !.kind = "login", !.email = e, !.target = a], "commit")
              /\ UNCHANGED caller
      BY <1>2 DEF Login
    <2> DEFINE request == [Nothing EXCEPT !.kind = "login", !.email = e, !.target = a]
    <2>2. request \in Ask /\ request.kind = "login"
      BY DEF Ask, Nothing, Named
    <2>3. caller[r] \in Roles \union {NoRole} /\ caller' = [caller EXCEPT ![r] = caller[r]]
      BY <2>1 DEF CommittedInv, AccountsInv, AccountsTypeOK
    <2>4. Begin(r, request, "commit")
      BY <2>1
    <2> HIDE DEF request
    <2> QED
      BY <2>2, <2>3, <2>4, BeginKeeps DEF Changing
  <1> QED
    BY <1>1, <1>2

\* A PATCH or a DELETE: the caller's role is the committed one when it arrives.
LEMMA CallKeeps ==
    ASSUME CommittedInv, LimiterTypeOK', NEW r \in Requests, pc[r] = "new",
           NEW request \in Ask, request.kind \in Changing,
           request.actor \in AccountIds, Stored(request.actor),
           request.target \in AccountIds, Stored(request.target),
           Call(r, request)
    PROVE  CommittedInv'
  <1>1. CASE Live(request.actor)
    <2> DEFINE role == account[request.actor].role
    <2>1. role \in Roles
      BY DEF CommittedInv, AccountsInv, AccountsTypeOK, Row, Stored
    <2>2. role = "admin" => Empowered(request.actor)
      BY DEF CommittedInv, AccountsInv, TrailShape
    <2>3. caller' = [caller EXCEPT ![r] = role] /\ Begin(r, request, "target")
      BY <1>1 DEF Call
    <2> HIDE DEF role
    <2> QED
      BY <2>1, <2>2, <2>3, BeginKeeps DEF Changing
  <1>2. CASE ~Live(request.actor)
    BY <1>2, RollbackKeeps DEF Call
  <1> QED
    BY <1>1, <1>2

LEMMA ArriveKeeps ==
    ASSUME CommittedInv, LimiterTypeOK', NEW r \in Requests, Arrive(r)
    PROVE  CommittedInv'
  <1>1. pc[r] = "new"
    BY DEF Arrive, Turn
  <1>2. ASSUME NEW e \in Addresses, Register(r, e) \/ Login(r, e) PROVE CommittedInv'
    BY <1>1, <1>2, RegisterKeeps, LoginKeeps
  <1>3. ASSUME NEW a \in AccountIds, Stored(a), NEW t \in AccountIds, Stored(t),
               Call(r, Delete(a, t))
        PROVE  CommittedInv'
    <2>1. Delete(a, t) \in Ask /\ Delete(a, t).kind \in Changing
          /\ Delete(a, t).actor = a /\ Delete(a, t).target = t
      BY DEF Delete, Ask, Nothing, Changing
    <2> QED
      BY <1>1, <1>3, <2>1, CallKeeps
  <1>4. ASSUME NEW a \in AccountIds, Stored(a), NEW t \in AccountIds, Stored(t),
               NEW n \in Names \union {NoName}, NEW o \in Roles \union {NoRole},
               Call(r, Patch(a, t, n, o))
        PROVE  CommittedInv'
    <2>1. Patch(a, t, n, o) \in Ask /\ Patch(a, t, n, o).kind \in Changing
          /\ Patch(a, t, n, o).actor = a /\ Patch(a, t, n, o).target = t
      BY DEF Patch, Ask, Nothing, Changing
    <2> QED
      BY <1>1, <1>4, <2>1, CallKeeps
  <1> QED
    BY <1>2, <1>3, <1>4 DEF Arrive

LEMMA InsertAccountKeeps ==
    ASSUME CommittedInv, LimiterTypeOK', NEW r \in Requests, InsertAccount(r)
    PROVE  CommittedInv'
  <1> USE DEF Kind, Target
  <1>1. CASE \E a \in AccountIds : Mail(a) = ask[r].email
    BY <1>1, RollbackKeeps DEF InsertAccount
  <1>2. CASE ~\E a \in AccountIds : Mail(a) = ask[r].email
    <2>1. /\ pc[r] = "insert" /\ InsertingSame(r) = {} /\ Continue(r, "commit")
          /\ AccountsTypeOK /\ Uncommitted(r) /\ ColumnsToWrite(r)
      BY <1>2 DEF InsertAccount, CommittedInv, AccountsInv
    <2>2. /\ AccountsTypeOK' /\ OthersWait(r) /\ pc'[r] = "commit"
          /\ ask' = ask /\ dirty' = dirty /\ UNCHANGED accountVars
      BY <2>1 DEF Continue, Goto, AccountsTypeOK, OthersWait, accountVars
    <2>3. \A a : Stored(a)' = Stored(a) /\ Mail(a)' = Mail(a)
      BY <2>2, RowsKept
    <2>4. Kind(r) = "register"
      BY <2>1 DEF Uncommitted
    <2>5. Uncommitted(r)' /\ RolesRead(r)' /\ ColumnsToWrite(r)'
      BY <2>1, <2>2, <2>3, <2>4 DEF Uncommitted, RolesRead, ColumnsToWrite, accountVars, Changing
    <2>6. InsertingSame(r)' = InsertingSame(r)
      BY <2>2 DEF InsertingSame, OthersWait
    <2>7. InsertExclusive(r)'
      BY <1>2, <2>1, <2>2, <2>3, <2>6 DEF InsertExclusive
    <2> QED
      BY <2>2, <2>5, <2>7, QuietStep
  <1> QED
    BY <1>1, <1>2

\* What the target's row says of roles is what the trail says.
LEMMA LoadTargetKeeps ==
    ASSUME CommittedInv, LimiterTypeOK', NEW r \in Requests, LoadTarget(r)
    PROVE  CommittedInv'
  <1> USE DEF Kind, Target
  <1> DEFINE found == /\ Live(Target(r))
                      /\ caller[r] = "admin" \/ ask[r].actor = Target(r)
                      /\ RoleAllows(r, caller[r])
             read  == [role |-> account[Target(r)].role, name |-> account[Target(r)].name]
  <1>1. CASE ~found
    BY <1>1, RollbackKeeps DEF LoadTarget
  <1>2. CASE found
    <2>1. /\ pc[r] = "target" /\ Goto(r, "fetch") /\ seen' = [seen EXCEPT ![r] = read]
          /\ UNCHANGED <<accountVars, ask, caller, dirty>>
          /\ AccountsTypeOK /\ Uncommitted(r) /\ RolesRead(r) /\ ColumnsToWrite(r)
      BY <1>2 DEF LoadTarget, CommittedInv, AccountsInv
    <2>2. /\ Kind(r) \in Changing /\ Target(r) \in AccountIds /\ Stored(Target(r))
      BY <2>1 DEF Uncommitted
    <2>3. account[Target(r)] \in Row
      BY <2>1, <2>2 DEF AccountsTypeOK, Stored
    <2>4. read \in Seen
      BY <2>3 DEF Row, Seen
    <2>5. Explained(Target(r), read.role) /\ (read.role = "admin" => Empowered(Target(r)))
      BY <2>2 DEF CommittedInv, AccountsInv, TrailShape, TrailExplains
    <2> HIDE DEF read
    <2>6. /\ AccountsTypeOK' /\ OthersWait(r) /\ pc'[r] = "fetch" /\ seen'[r] = read
          /\ ask' = ask /\ dirty' = dirty /\ caller' = caller /\ UNCHANGED accountVars
      BY <2>1, <2>4 DEF Goto, AccountsTypeOK, OthersWait, accountVars
    <2>7. /\ \A a : Stored(a)' = Stored(a) /\ Mail(a)' = Mail(a)
          /\ \A a : Empowered(a)' = Empowered(a)
          /\ \A a, role : Explained(a, role)' = Explained(a, role)
      BY <2>6, RowsKept
    <2>8. Uncommitted(r)' /\ ColumnsToWrite(r)' /\ InsertExclusive(r)'
      BY <2>1, <2>2, <2>6, <2>7 DEF Uncommitted, ColumnsToWrite, InsertExclusive, accountVars, Changing
    <2>9. RolesRead(r)'
      BY <1>2, <2>1, <2>5, <2>6, <2>7 DEF RolesRead, RoleAllows
    <2> QED
      BY <2>6, <2>8, <2>9, QuietStep
  <1> QED
    BY <1>1, <1>2

LEMMA FetchTargetKeeps ==
    ASSUME CommittedInv, LimiterTypeOK', NEW r \in Requests, FetchTarget(r)
    PROVE  CommittedInv'
  <1> USE DEF Kind, Target
  <1> DEFINE columns == Differing(r, account[Target(r)])
  <1>1. /\ pc[r] = "fetch" /\ Goto(r, "write") /\ dirty' = [dirty EXCEPT ![r] = columns]
        /\ UNCHANGED <<accountVars, ask, caller, seen>>
        /\ AccountsTypeOK /\ Uncommitted(r) /\ RolesRead(r)
    BY DEF FetchTarget, CommittedInv, AccountsInv
  <1>2. /\ columns \in SUBSET {"name", "role", "active"}
        /\ "active" \in columns <=> Kind(r) = "deactivate"
        /\ "role" \in columns => Kind(r) # "deactivate" /\ ask[r].role # NoRole
    BY DEF Differing
  <1>3. Kind(r) \in Changing
    BY <1>1 DEF Uncommitted
  <1> HIDE DEF columns
  <1>4. /\ AccountsTypeOK' /\ OthersWait(r) /\ pc'[r] = "write" /\ dirty'[r] = columns
        /\ ask' = ask /\ seen' = seen /\ caller' = caller /\ UNCHANGED accountVars
    BY <1>1, <1>2 DEF Goto, AccountsTypeOK, OthersWait, accountVars
  <1>5. /\ \A a : Stored(a)' = Stored(a)
        /\ \A a : Empowered(a)' = Empowered(a)
        /\ \A a, role : Explained(a, role)' = Explained(a, role)
    BY <1>4, RowsKept
  <1>6. Uncommitted(r)' /\ ColumnsToWrite(r)' /\ InsertExclusive(r)'
    BY <1>1, <1>2, <1>3, <1>4, <1>5
       DEF Uncommitted, ColumnsToWrite, InsertExclusive, accountVars, Changing
  <1>7. RolesRead(r)'
    BY <1>1, <1>4, <1>5 DEF RolesRead, RoleAllows, Loaded
  <1> QED
    BY <1>4, <1>6, <1>7, QuietStep

LEMMA WriteTargetKeeps ==
    ASSUME CommittedInv, LimiterTypeOK', NEW r \in Requests, WriteTarget(r)
    PROVE  CommittedInv'
  <1> USE DEF Kind, Target
  <1>1. /\ pc[r] = "write" /\ Continue(r, "commit")
        /\ AccountsTypeOK /\ Uncommitted(r) /\ RolesRead(r) /\ ColumnsToWrite(r)
    BY DEF WriteTarget, CommittedInv, AccountsInv
  <1>2. /\ AccountsTypeOK' /\ OthersWait(r) /\ pc'[r] = "commit" /\ dirty' = dirty
        /\ ask' = ask /\ seen' = seen /\ caller' = caller /\ UNCHANGED accountVars
    BY <1>1 DEF Continue, Goto, AccountsTypeOK, OthersWait, accountVars
  <1>3. /\ \A a : Stored(a)' = Stored(a)
        /\ \A a : Empowered(a)' = Empowered(a)
        /\ \A a, role : Explained(a, role)' = Explained(a, role)
    BY <1>2, RowsKept
  <1>4. Kind(r) \in Changing
    BY <1>1 DEF Uncommitted
  <1>5. Uncommitted(r)' /\ ColumnsToWrite(r)' /\ InsertExclusive(r)'
    BY <1>1, <1>2, <1>3, <1>4
       DEF Uncommitted, ColumnsToWrite, InsertExclusive, accountVars, Changing
  <1>6. RolesRead(r)'
    BY <1>1, <1>2, <1>3 DEF RolesRead, RoleAllows, Loaded
  <1> QED
    BY <1>2, <1>5, <1>6, QuietStep

-----------------------------------------------------------------------------
(* Commit *)

\* The entry a request commits, kind by kind.
LEMMA EntryCommitted ==
    ASSUME CommittedInv, NEW r \in Requests, pc[r] = "commit"
    PROVE  /\ Kind(r) \in {"register", "login", "update", "deactivate"}
           /\ EntryFor(r) \in Entry
           /\ EntryFor(r).action = "USER_REGISTRATION" <=> Kind(r) = "register"
           /\ EntryFor(r).action = "USER_DEACTIVATION" <=> Kind(r) = "deactivate"
           /\ EntryFor(r).action = "ROLE_CHANGE" <=>
                  Kind(r) = "update" /\ ask[r].role \notin {NoRole, seen[r].role}
           /\ Kind(r) = "register" => EntryFor(r).account = r
           /\ Kind(r) = "deactivate" =>
                  EntryFor(r).account = Target(r) /\ EntryFor(r).actor = ask[r].actor
           /\ EntryFor(r).action = "ROLE_CHANGE" =>
                  /\ EntryFor(r).account = Target(r) /\ EntryFor(r).actor = ask[r].actor
                  /\ EntryFor(r).after = ask[r].role
  <1> USE DEF Kind, Target
  <1>1. AccountsTypeOK /\ Uncommitted(r)
    BY DEF CommittedInv, AccountsInv
  <1>2. ask[r] \in Ask /\ seen[r] \in Seen /\ r \in AccountIds
    BY <1>1 DEF AccountsTypeOK, AccountIds
  <1>3. Kind(r) \in {"register", "login", "update", "deactivate"}
    BY <1>1, <1>2 DEF Uncommitted, Ask
  <1>4. CASE Kind(r) = "register"
    BY <1>2, <1>4, AccountAssumption DEF EntryFor, RegistrationEntry, EntryOf, Entry, Ask
  <1>5. CASE Kind(r) = "login"
    BY <1>2, <1>5, AccountAssumption DEF EntryFor, LoginEntry, EntryOf, Entry, Ask
  <1>6. CASE Kind(r) = "deactivate"
    BY <1>2, <1>6, AccountAssumption DEF EntryFor, DeactivationEntry, EntryOf, Entry, Ask
  <1>7. CASE Kind(r) = "update" /\ ask[r].role \notin {NoRole, seen[r].role}
    BY <1>2, <1>7, AccountAssumption DEF EntryFor, RoleChangeEntry, EntryOf, Entry, Ask, Seen
  <1>8. CASE Kind(r) = "update" /\ ask[r].role \in {NoRole, seen[r].role}
    BY <1>2, <1>8, AccountAssumption DEF EntryFor, NoEntry, Entry, Ask
  <1> QED
    BY <1>3, <1>4, <1>5, <1>6, <1>7, <1>8

\* The trail only grows, by that entry.
LEMMA TrailCommitted ==
    ASSUME CommittedInv, NEW r \in Requests, Commit(r)
    PROVE  /\ trail' \in [Requests -> Entry]
           /\ trail'[r] = EntryFor(r) /\ trail[r].action = "none"
           /\ \A q \in Requests \ {r} : trail'[q] = trail[q]
           /\ \A action, a : action # "none" =>
                  (HasEntry(action, a)' <=>
                      \/ HasEntry(action, a)
                      \/ EntryFor(r).action = action /\ EntryFor(r).account = a)
           /\ \A a, role : Explained(a, role) => Explained(a, role)'
           /\ \A a : Empowered(a) => Empowered(a)'
  <1>1. /\ trail \in [Requests -> Entry] /\ trail[r].action = "none"
        /\ trail' = [trail EXCEPT ![r] = EntryFor(r)] /\ EntryFor(r) \in Entry
    BY EntryCommitted DEF Commit, CommittedInv, AccountsInv, AccountsTypeOK, Uncommitted, NoEntry
  <1>2. /\ trail' \in [Requests -> Entry] /\ trail'[r] = EntryFor(r)
        /\ \A q \in Requests \ {r} : trail'[q] = trail[q]
    BY <1>1
  <1>3. \A q \in Requests : trail[q].action # "none" => trail'[q] = trail[q]
    BY <1>1, <1>2
  <1>4. \A action, a : action # "none" =>
            (HasEntry(action, a)' <=>
                \/ HasEntry(action, a)
                \/ EntryFor(r).action = action /\ EntryFor(r).account = a)
    BY <1>1, <1>2 DEF HasEntry
  <1>5. \A a, role : Explained(a, role) => Explained(a, role)'
    BY <1>3 DEF Explained, Promoted, FirstRole
  <1>6. \A a : Empowered(a) => Empowered(a)'
    BY <1>3 DEF Empowered
  <1> QED
    BY <1>1, <1>2, <1>4, <1>5, <1>6

\* The rows: one is added by a registration; the target changes in what was asked.
LEMMA RowsCommitted ==
    ASSUME CommittedInv, NEW r \in Requests, Commit(r), NEW a \in AccountIds
    PROVE  /\ account'[a] \in Row \union {NoRow}
           /\ Stored(a)' <=> Stored(a) \/ (Kind(r) = "register" /\ a = r)
           /\ Kind(r) = "register" /\ a = r =>
                  Mail(a)' = ask[r].email /\ Live(a)' /\ account'[a].role = "viewer"
           /\ ~(Kind(r) = "register" /\ a = r) =>
                  /\ Mail(a)' = Mail(a)
                  /\ Live(a)' <=> Live(a) /\ ~(Kind(r) = "deactivate" /\ a = Target(r))
                  /\ \/ account'[a].role = account[a].role
                     \/ /\ Kind(r) = "update" /\ a = Target(r)
                        /\ ask[r].role # NoRole /\ account'[a].role = ask[r].role
  <1> USE DEF Kind, Target
  <1>1. /\ AccountsTypeOK /\ Uncommitted(r) /\ ColumnsToWrite(r) /\ pc[r] = "commit"
        /\ account'[a] = RowAfter(r, a)
    BY DEF CommittedInv, AccountsInv, Commit
  <1>2. /\ account[a] \in Row \union {NoRow} /\ ask[r] \in Ask /\ seen[r] \in Seen
        /\ NoRow \notin Row /\ NoRow.active = FALSE
    BY <1>1, RowsAreRows DEF AccountsTypeOK, NoRow
  <1>3. CASE Kind(r) = "register" /\ a = r
    <2>1. account'[a] = RowInserted(r)
      BY <1>1, <1>3 DEF RowAfter
    <2>2. RowInserted(r) \in Row
      BY <1>1, <1>3, AccountAssumption DEF RowInserted, Row, Uncommitted
    <2> QED
      BY <1>2, <1>3, <2>1, <2>2 DEF RowInserted, Stored, Mail, Live
  <1>4. CASE Kind(r) \in Changing /\ a = Target(r)
    <2>1. account'[a] = RowWritten(r, account[a]) /\ account[a] \in Row
      BY <1>1, <1>2, <1>4 DEF RowAfter, Changing, Uncommitted, Stored
    <2>2. NameToSet(r) \in Names \union {NoName}
      BY <1>2 DEF NameToSet, Ask, Seen
    <2>3. "role" \in dirty[r] => /\ Kind(r) = "update"
                                 /\ ask[r].role # NoRole /\ ask[r].role \in Roles
      BY <1>1, <1>2 DEF ColumnsToWrite, Ask
    <2>4. "active" \in dirty[r] <=> Kind(r) = "deactivate"
      BY <1>1, <1>4 DEF ColumnsToWrite, Changing
    <2>5. /\ RowWritten(r, account[a]) \in Row
          /\ RowWritten(r, account[a]).email = account[a].email
          /\ RowWritten(r, account[a]).role =
                IF "role" \in dirty[r] THEN ask[r].role ELSE account[a].role
          /\ RowWritten(r, account[a]).active <=> account[a].active /\ "active" \notin dirty[r]
      BY <2>1, <2>2, <2>3 DEF RowWritten, Row
    <2> QED
      BY <1>2, <1>4, <2>1, <2>3, <2>4, <2>5 DEF Stored, Mail, Live, Changing
  <1>5. CASE ~(Kind(r) = "register" /\ a = r) /\ ~(Kind(r) \in Changing /\ a = Target(r))
    BY <1>1, <1>2, <1>5 DEF RowAfter, Changing, Stored, Mail, Live
  <1> QED
    BY <1>3, <1>4, <1>5 DEF Changing

\* Who makes somebody an administrator is one, and so are they from then on.
LEMMA PowerCommitted ==
    ASSUME CommittedInv, NEW r \in Requests, Commit(r)
    PROVE  TrailShape' /\ ChangesByAdmins'
  <1> USE DEF Kind, Target
  <1>1. /\ pc[r] = "commit" /\ Uncommitted(r) /\ RolesRead(r)
        /\ TrailShape /\ ChangesByAdmins /\ AccountsTypeOK
    BY DEF CommittedInv, AccountsInv, Commit
  <1>2. Kind(r) \in Changing =>
            RoleAllows(r, caller[r]) /\ (caller[r] = "admin" => Empowered(ask[r].actor))
    BY <1>1 DEF RolesRead, Loaded
  <1>3. ASSUME NEW b, b = ask[r].actor,
               (Kind(r) = "update" /\ ask[r].role # NoRole) \/ Kind(r) = "deactivate"
        PROVE  Empowered(b)'
    BY <1>2, <1>3, TrailCommitted DEF RoleAllows, Changing
  <1>4. ASSUME NEW a \in AccountIds, account'[a].role = "admin" PROVE Empowered(a)'
    <2>1. CASE Kind(r) = "register" /\ a = r
      BY <1>4, <2>1, RowsCommitted
    <2>2. CASE account'[a].role = account[a].role
      BY <1>1, <1>4, <2>2, TrailCommitted DEF TrailShape
    <2>3. CASE /\ Kind(r) = "update" /\ a = Target(r)
               /\ ask[r].role # NoRole /\ account'[a].role = ask[r].role
      <3>1. CASE seen[r].role = "admin"
        BY <1>1, <2>3, <3>1, TrailCommitted DEF RolesRead, Loaded, Changing
      <3>2. CASE seen[r].role # "admin" /\ ask[r].actor # a
        <4>1. /\ trail'[r].action = "ROLE_CHANGE" /\ trail'[r].account = a
              /\ trail'[r].after = "admin" /\ trail'[r].actor # a
          BY <1>1, <1>4, <2>3, <3>2, EntryCommitted, TrailCommitted
        <4> QED
          BY <4>1 DEF Empowered
      <3>3. CASE ask[r].actor = a
        BY <1>3, <2>3, <3>3
      <3> QED
        BY <3>1, <3>2, <3>3
    <2> QED
      BY <2>1, <2>2, <2>3, RowsCommitted
  <1>5. ASSUME NEW q \in Requests, trail'[q].action = "USER_REGISTRATION"
        PROVE  trail'[q].account = q
    BY <1>1, <1>5, EntryCommitted, TrailCommitted DEF TrailShape
  <1>7. ASSUME NEW q \in Requests, NEW b, b = trail'[q].account,
               trail'[q].action = "USER_DEACTIVATION"
        PROVE  b \in AccountIds /\ Stored(b)'
    <2>1. CASE q = r
      BY <1>1, <1>7, <2>1, EntryCommitted, TrailCommitted, RowsCommitted
         DEF Uncommitted, Changing
    <2>2. CASE q # r
      BY <1>1, <1>7, <2>2, TrailCommitted, RowsCommitted DEF TrailShape
    <2> QED
      BY <2>1, <2>2
  <1>6. ASSUME NEW q \in Requests, NEW b, b = trail'[q].actor,
               trail'[q].action \in {"ROLE_CHANGE", "USER_DEACTIVATION"}
        PROVE  Empowered(b)'
    <2>1. CASE q = r
      BY <1>1, <1>3, <1>6, <2>1, EntryCommitted, TrailCommitted
    <2>2. CASE q # r
      BY <1>1, <1>6, <2>2, TrailCommitted DEF ChangesByAdmins
    <2> QED
      BY <2>1, <2>2
  <1> QED
    BY <1>4, <1>5, <1>6, <1>7 DEF TrailShape, ChangesByAdmins, Empowered, Stored

LEMMA EmailCommitted ==
    ASSUME CommittedInv, NEW r \in Requests, Commit(r)
    PROVE  EmailUnique'
  <1> USE DEF Kind, Target
  <1>1. /\ pc[r] = "commit" /\ InsertExclusive(r) /\ EmailUnique
    BY DEF CommittedInv, AccountsInv, Commit
  <1>2. ASSUME NEW a \in AccountIds, NEW b \in AccountIds, a # b,
               Stored(a)', Stored(b)', Mail(a)' = Mail(b)'
        PROVE  FALSE
    <2>1. CASE Kind(r) = "register" /\ a = r
      BY <1>1, <1>2, <2>1, RowsCommitted DEF InsertExclusive
    <2>2. CASE Kind(r) = "register" /\ b = r
      BY <1>1, <1>2, <2>2, RowsCommitted DEF InsertExclusive
    <2>3. CASE ~(Kind(r) = "register" /\ a = r) /\ ~(Kind(r) = "register" /\ b = r)
      BY <1>1, <1>2, <2>3, RowsCommitted DEF EmailUnique
    <2> QED
      BY <2>1, <2>2, <2>3
  <1> QED
    BY <1>2 DEF EmailUnique

\* A role that is written without an entry is the one that was read, explained then.
LEMMA ExplanationCommitted ==
    ASSUME CommittedInv, NEW r \in Requests, Commit(r)
    PROVE  TrailExplains'
  <1> USE DEF Kind, Target
  <1>1. /\ pc[r] = "commit" /\ Uncommitted(r) /\ RolesRead(r)
        /\ TrailExplains /\ TrailShape
    BY DEF CommittedInv, AccountsInv, Commit
  <1>2. ASSUME NEW a \in AccountIds, a \in Requests
        PROVE  Stored(a)' <=> HasEntry("USER_REGISTRATION", a)'
    BY <1>1, <1>2, EntryCommitted, TrailCommitted, RowsCommitted DEF TrailExplains
  <1>3. ASSUME NEW a \in AccountIds, Stored(a)'
        PROVE  ~Live(a)' <=> HasEntry("USER_DEACTIVATION", a)'
    <2>1. CASE Kind(r) = "register" /\ a = r
      <3>1. ~HasEntry("USER_DEACTIVATION", a)
        BY <1>1, <2>1 DEF TrailShape, HasEntry, Uncommitted
      <3> QED
        BY <2>1, <3>1, EntryCommitted, TrailCommitted, RowsCommitted, <1>1
    <2>2. CASE ~(Kind(r) = "register" /\ a = r)
      BY <1>1, <1>3, <2>2, EntryCommitted, TrailCommitted, RowsCommitted DEF TrailExplains
    <2> QED
      BY <2>1, <2>2
  <1>4. ASSUME NEW a \in AccountIds, Stored(a)', NEW role, role = account'[a].role
        PROVE  Explained(a, role)'
    <2>1. CASE Kind(r) = "register" /\ a = r
      BY <1>4, <2>1, RowsCommitted, AccountAssumption DEF Explained, FirstRole
    <2>2. CASE ~(Kind(r) = "register" /\ a = r) /\ account'[a].role = account[a].role
      BY <1>1, <1>4, <2>2, TrailCommitted, RowsCommitted DEF TrailExplains
    <2>3. CASE /\ Kind(r) = "update" /\ a = Target(r)
               /\ ask[r].role # NoRole /\ account'[a].role = ask[r].role
      <3>1. CASE ask[r].role = seen[r].role
        BY <1>1, <1>4, <2>3, <3>1, TrailCommitted DEF RolesRead, Loaded, Changing
      <3>2. CASE ask[r].role # seen[r].role
        <4>1. /\ trail'[r].action = "ROLE_CHANGE" /\ trail'[r].account = a
              /\ trail'[r].after = account'[a].role
          BY <1>1, <2>3, <3>2, EntryCommitted, TrailCommitted
        <4> QED
          BY <1>4, <4>1 DEF Explained, Promoted
      <3> QED
        BY <3>1, <3>2
    <2> QED
      BY <2>1, <2>2, <2>3, RowsCommitted
  <1> QED
    BY <1>2, <1>3, <1>4 DEF TrailExplains, Explained, Promoted

LEMMA CommitKeeps ==
    ASSUME CommittedInv, LimiterTypeOK', NEW r \in Requests, Commit(r)
    PROVE  CommittedInv'
  <1> USE DEF Kind, Target
  <1>1. /\ pc[r] = "commit" /\ AccountsTypeOK /\ Uncommitted(r) /\ InsertExclusive(r)
        /\ End(r)
    BY DEF CommittedInv, AccountsInv, Commit
  <1>2. AccountsTypeOK'
    <2>1. account' \in [AccountIds -> Row \union {NoRow}]
      BY RowsCommitted DEF Commit
    <2>2. trail' \in [Requests -> Entry]
      BY TrailCommitted
    <2> QED
      BY <1>1, <2>1, <2>2, IdleIsTyped DEF AccountsTypeOK, End, Goto
  <1>3. /\ OthersWait(r) /\ pc'[r] = "done" /\ ask'[r] = Nothing /\ dirty'[r] = {}
    BY <1>1 DEF AccountsTypeOK, End, Goto, OthersWait
  <1>4. ASSUME NEW q \in Requests
        PROVE  Uncommitted(q)' /\ RolesRead(q)' /\ ColumnsToWrite(q)' /\ InsertExclusive(q)'
    <2>1. CASE q = r
      BY <1>3, <2>1 DEF Uncommitted, RolesRead, ColumnsToWrite, InsertExclusive, Nothing, Changing
    <2>2. CASE q # r
      <3>1. /\ Uncommitted(q) /\ RolesRead(q) /\ ColumnsToWrite(q) /\ InsertExclusive(q)
            /\ pc'[q] = pc[q] /\ ask'[q] = ask[q] /\ caller'[q] = caller[q]
            /\ seen'[q] = seen[q] /\ dirty'[q] = dirty[q] /\ q \in AccountIds
        BY <1>3, <2>2 DEF CommittedInv, AccountsInv, OthersWait, AccountIds
      <3>2. Uncommitted(q)'
        BY <2>2, <3>1, TrailCommitted, RowsCommitted DEF Uncommitted
      <3>3. RolesRead(q)'
        BY <3>1, TrailCommitted DEF RolesRead, RoleAllows
      <3>4. ColumnsToWrite(q)'
        BY <3>1 DEF ColumnsToWrite
      <3>5. InsertExclusive(q)'
        <4> SUFFICES ASSUME pc[q] = "commit", Kind(q) = "register"
                     PROVE  /\ InsertingSame(q)' = {}
                            /\ \A a \in AccountIds : Mail(a)' # ask[q].email
          BY <3>1 DEF InsertExclusive
        <4>1. InsertingSame(q) = {}
          BY <3>1 DEF InsertExclusive
        <4>2. InsertingSame(q)' = {}
          <5>1. \A p \in Requests \ {r} : pc'[p] = pc[p] /\ ask'[p] = ask[p]
            BY <1>3 DEF OthersWait
          <5> QED
            BY <1>3, <3>1, <4>1, <5>1 DEF InsertingSame
        <4>3. ASSUME NEW a \in AccountIds PROVE Mail(a)' # ask[q].email
          <5>1. CASE Kind(r) = "register" /\ a = r
            BY <1>1, <2>2, <4>1, <5>1, RowsCommitted DEF InsertingSame
          <5>2. CASE ~(Kind(r) = "register" /\ a = r)
            BY <3>1, <5>2, RowsCommitted DEF InsertExclusive
          <5> QED
            BY <5>1, <5>2
        <4> QED
          BY <4>2, <4>3
      <3> QED
        BY <3>2, <3>3, <3>4, <3>5
    <2> QED
      BY <2>1, <2>2
  <1> QED
    BY <1>2, <1>4, PowerCommitted, EmailCommitted, ExplanationCommitted DEF CommittedInv, AccountsInv

-----------------------------------------------------------------------------
(* The theorems *)

LEMMA AccountsUnchanged ==
    ASSUME CommittedInv, LimiterTypeOK', UNCHANGED accountVars, UNCHANGED requestVars
    PROVE  CommittedInv'
  <1> USE DEF Kind, Target, requestVars
  <1>1. /\ \A a : Stored(a)' = Stored(a) /\ Mail(a)' = Mail(a)
        /\ \A a : Empowered(a)' = Empowered(a)
        /\ \A a, role : Explained(a, role)' = Explained(a, role)
        /\ TrailShape' /\ EmailUnique' /\ TrailExplains' /\ ChangesByAdmins'
    BY RowsKept
  <1>2. AccountsTypeOK'
    BY DEF CommittedInv, AccountsInv, AccountsTypeOK, accountVars
  <1>3. ASSUME NEW q \in Requests
        PROVE  Uncommitted(q)' /\ RolesRead(q)' /\ ColumnsToWrite(q)' /\ InsertExclusive(q)'
    <2>1. Uncommitted(q) /\ RolesRead(q) /\ ColumnsToWrite(q) /\ InsertExclusive(q)
      BY DEF CommittedInv, AccountsInv
    <2>2. Uncommitted(q)' /\ ColumnsToWrite(q)'
      BY <1>1, <2>1 DEF Uncommitted, ColumnsToWrite, accountVars
    <2>3. RolesRead(q)'
      BY <1>1, <2>1 DEF RolesRead, RoleAllows
    <2>4. InsertExclusive(q)'
      BY <1>1, <2>1 DEF InsertExclusive, InsertingSame
    <2> QED
      BY <2>2, <2>3, <2>4
  <1> QED
    BY <1>1, <1>2, <1>3 DEF CommittedInv, AccountsInv

LEMMA AccountsStep == CommittedInv /\ LimiterInv /\ [Next]_vars => CommittedInv'
  <1> SUFFICES ASSUME CommittedInv, LimiterInv, [Next]_vars PROVE CommittedInv'
    OBVIOUS
  <1>1. LimiterTypeOK'
    BY LimiterStep DEF LimiterInv
  <1>2. ASSUME NEW r \in Requests, Arrive(r) PROVE CommittedInv'
    BY <1>1, <1>2, ArriveKeeps
  <1>3. ASSUME NEW r \in Requests, TurnAway(r) PROVE CommittedInv'
    BY <1>1, <1>3, RollbackKeeps DEF TurnAway
  <1>4. ASSUME NEW r \in Requests, Proceed(r) PROVE CommittedInv'
    BY <1>1, <1>4, InsertAccountKeeps, LoadTargetKeeps, FetchTargetKeeps, WriteTargetKeeps,
       CommitKeeps DEF Proceed
  <1>5. ASSUME NEW r \in Requests, Abort(r) PROVE CommittedInv'
    BY <1>1, <1>5, RollbackKeeps DEF Abort
  <1>6. CASE NextMinute
    BY <1>1, <1>6, AccountsUnchanged DEF NextMinute
  <1>7. CASE UNCHANGED vars
    BY <1>1, <1>7, AccountsUnchanged DEF vars
  <1> QED
    BY <1>2, <1>3, <1>4, <1>5, <1>6, <1>7 DEF Next, AllServed

LEMMA CommittedInvariance == Spec => []CommittedInv
  <1>1. Init => CommittedInv /\ LimiterInv
    BY InitAccounts, InitLimiter DEF Init
  <1>2. CommittedInv /\ LimiterInv /\ [Next]_vars => (CommittedInv /\ LimiterInv)'
    BY AccountsStep, LimiterStep
  <1> QED
    BY <1>1, <1>2, PTL DEF Spec

\* What a request may rely on while others commit: what it read is explained by the
\* trail, however old, and the index entries it holds are its own.
THEOREM AccountsInvariance == Spec => []AccountsInv
  <1>1. CommittedInv => AccountsInv
    BY DEF CommittedInv
  <1> QED
    BY <1>1, CommittedInvariance, PTL

\* Every reachable state of accounts, requests and counters is well typed.
THEOREM AccountsTypeCorrect == Spec => []AccountsTypeOK
  <1>1. CommittedInv => AccountsTypeOK
    BY DEF CommittedInv, AccountsInv
  <1> QED
    BY <1>1, CommittedInvariance, PTL

\* No two accounts ever have one address, as it was typed (the check-then-insert of
\* register and the unique index behind it).
THEOREM AddressesUnique == Spec => []EmailUnique
  <1>1. CommittedInv => EmailUnique
    BY DEF CommittedInv, AccountsInv
  <1> QED
    BY <1>1, CommittedInvariance, PTL

\* The audit trail holds the registration of every account and the end of every ended
\* one, and no other; and no account has a role it neither began with nor was ever
\* given by an entry.  Which changes of a role have their entry: ChangesAreLogged.
THEOREM TrailIsComplete == Spec => []TrailExplains
  <1>1. CommittedInv => TrailExplains
    BY DEF CommittedInv, AccountsInv
  <1> QED
    BY <1>1, CommittedInvariance, PTL

\* Only who was an administrator from the start, or was made one by somebody else,
\* ever changes a role or ends an account, although roles are read once and used later.
THEOREM PowerComesFromPower == Spec => []ChangesByAdmins
  <1>1. CommittedInv => ChangesByAdmins
    BY DEF CommittedInv, AccountsInv
  <1> QED
    BY <1>1, CommittedInvariance, PTL

\* No step revives a deactivated account or changes an address.
THEOREM DeactivationIsFinal == Spec => DeactivatedForGood
  <1> DEFINE Step == \A a \in AccountIds :
                        Stored(a) => Mail(a)' = Mail(a) /\ (~Live(a) => ~Live(a)')
  <1>1. ASSUME CommittedInv, [Next]_vars PROVE [Step]_vars
    <2>1. CASE UNCHANGED accountVars
      BY <2>1 DEF accountVars, Mail, Live
    <2>2. ASSUME NEW r \in Requests, Commit(r) PROVE Step
      <3>1. Uncommitted(r)
        BY <1>1 DEF CommittedInv, AccountsInv
      <3>2. pc[r] = "commit"
        BY <2>2 DEF Commit
      <3> QED
        BY <1>1, <2>2, <3>1, <3>2, RowsCommitted DEF Uncommitted
    <2>3. ASSUME NEW r \in Requests,
                 \/ Arrive(r) \/ TurnAway(r) \/ Abort(r)
                 \/ InsertAccount(r) \/ LoadTarget(r) \/ FetchTarget(r) \/ WriteTarget(r)
          PROVE  UNCHANGED accountVars
      BY <2>3 DEF Arrive, TurnAway, Abort, InsertAccount, LoadTarget, FetchTarget, WriteTarget,
                  Register, Login, Call, Begin, Continue, Rollback
    <2>4. CASE NextMinute \/ UNCHANGED vars
      BY <2>1, <2>4 DEF NextMinute, vars
    <2> QED
      BY <1>1, <2>1, <2>2, <2>3, <2>4 DEF Next, Proceed, AllServed
  <1> QED
    BY <1>1, CommittedInvariance, PTL DEF Spec, DeactivatedForGood

-----------------------------------------------------------------------------
(* Entry and role *)

\* Only Commit writes rows and entries.
LEMMA OthersCommitNothing ==
    ASSUME NEW r \in Requests,
           \/ Arrive(r) \/ TurnAway(r) \/ Abort(r)
           \/ InsertAccount(r) \/ LoadTarget(r) \/ FetchTarget(r) \/ WriteTarget(r)
    PROVE  UNCHANGED accountVars
  BY DEF Arrive, TurnAway, Abort, InsertAccount, LoadTarget, FetchTarget, WriteTarget,
         Register, Login, Call, Begin, Continue, Rollback

\* A role that a PATCH brings in was entered, unless it is the one it had loaded.
LEMMA ChangeEntered ==
    ASSUME CommittedInv, NEW r \in Requests, Commit(r), NEW a \in AccountIds,
           Stored(a), account'[a].role # account[a].role
    PROVE  /\ pc[r] = "commit" /\ Kind(r) = "update" /\ Target(r) = a
           /\ RoleLogged(r, a) \/ seen[r].role = account'[a].role
  <1> USE DEF Kind, Target
  <1>1. pc[r] = "commit" /\ Uncommitted(r)
    BY DEF Commit, CommittedInv, AccountsInv
  <1>2. ~(Kind(r) = "register" /\ a = r)
    BY <1>1 DEF Uncommitted
  <1>3. /\ Kind(r) = "update" /\ a = Target(r)
        /\ ask[r].role # NoRole /\ account'[a].role = ask[r].role
    BY <1>2, RowsCommitted
  <1>4. CASE ask[r].role # seen[r].role
    <2>1. /\ EntryFor(r).action = "ROLE_CHANGE" /\ EntryFor(r).account = a
          /\ EntryFor(r).after = ask[r].role
      BY <1>1, <1>3, <1>4, EntryCommitted
    <2>2. trail[r] = NoEntry
      BY <1>1 DEF Uncommitted
    <2> QED
      BY <1>1, <1>3, <2>1, <2>2, TrailCommitted DEF RoleLogged
  <1> QED
    BY <1>1, <1>3, <1>4

\* A role that is entered is in place, unless the PATCH had not to write it.
LEMMA EntryInPlace ==
    ASSUME CommittedInv, NEW r \in Requests, Commit(r), NEW q \in Requests,
           trail[q] = NoEntry, trail'[q].action = "ROLE_CHANGE"
    PROVE  RoleLogged(q, Target(q)) \/ "role" \notin dirty[q]
  <1> USE DEF Kind, Target
  <1>1. q = r
    BY TrailCommitted DEF NoEntry
  <1>2. /\ AccountsTypeOK /\ Uncommitted(r) /\ ColumnsToWrite(r) /\ pc[r] = "commit"
        /\ \A a \in AccountIds : account'[a] = RowAfter(r, a)
    BY DEF CommittedInv, AccountsInv, Commit
  <1>3. trail'[r] = EntryFor(r)
    BY TrailCommitted
  <1>4. /\ Kind(r) = "update" /\ EntryFor(r).account = Target(r)
        /\ EntryFor(r).after = ask[r].role
    BY <1>1, <1>2, <1>3, EntryCommitted
  <1>5. Target(r) \in AccountIds /\ account[Target(r)] \in Row
    BY <1>2, <1>4, RowsAreRows DEF Uncommitted, Changing, Stored, AccountsTypeOK
  <1>6. CASE "role" \in dirty[r]
    <2>1. account'[Target(r)] = RowWritten(r, account[Target(r)])
      BY <1>2, <1>4, <1>5 DEF RowAfter
    <2>2. RowWritten(r, account[Target(r)]).role = ask[r].role
      BY <1>5, <1>6 DEF RowWritten, Row
    <2> QED
      BY <1>1, <1>3, <1>4, <2>1, <2>2 DEF RoleLogged
  <1> QED
    BY <1>1, <1>6

\* Entry and role are committed together, or a PATCH had read the role too early: the
\* two ways in which update_user takes one for the other are all there are.
THEOREM ChangesAreLogged == Spec => RoleChangesLogged
  <1> DEFINE Changes ==
                \A a \in AccountIds :
                    Stored(a) /\ account'[a].role # account[a].role =>
                        \E r \in Requests :
                            /\ pc[r] = "commit" /\ Kind(r) = "update" /\ Target(r) = a
                            /\ RoleLogged(r, a) \/ seen[r].role = account'[a].role
             Entries ==
                \A r \in Requests :
                    trail'[r].action = "ROLE_CHANGE" /\ trail[r] = NoEntry =>
                        RoleLogged(r, Target(r)) \/ "role" \notin dirty[r]
  <1>1. ASSUME CommittedInv, [Next]_vars PROVE [Changes /\ Entries]_accountVars
    <2>1. ASSUME NEW r \in Requests, Commit(r) PROVE Changes
      BY <1>1, <2>1, ChangeEntered
    <2>2. ASSUME NEW r \in Requests, Commit(r) PROVE Entries
      BY <1>1, <2>2, EntryInPlace
    <2>3. CASE NextMinute \/ UNCHANGED vars
      BY <2>3 DEF NextMinute, vars
    <2> HIDE DEF Changes, Entries
    <2> QED
      BY <1>1, <2>1, <2>2, <2>3, OthersCommitNothing DEF Next, Proceed, AllServed
  <1> QED
    BY <1>1, CommittedInvariance, PTL DEF Spec, RoleChangesLogged
=================================================================================
