------------------------------- MODULE Accounts -------------------------------
(***************************************************************************)
(* The accounts of the users table and the requests that change them:      *)
(* registration, login, PATCH and DELETE of a user, behind the rate        *)
(* limiter.  Every request has a transaction of its own (READ COMMITTED)   *)
(* and a step ends where the code awaits the database, so other requests   *)
(* run between the look at the caller, the look at the target, the second  *)
(* SELECT of base.update, its UPDATE and the commit.                       *)
(*                                                                         *)
(* A refused request changes nothing and ends in the step that refuses it: *)
(* the exception rolls its transaction back, the audit entry of a failed   *)
(* login with it.  The identifier uuid4 gives to a new account is modelled *)
(* by the request that registers it.  What deactivation does to the        *)
(* refresh tokens of the account is in TokenRotation.                      *)
(***************************************************************************)
EXTENDS RateLimiter, FiniteSets

CONSTANTS
    LastRequest,    \* bound: the requests that arrive
    Concurrency,    \* bound: the requests in flight at a time
    Seeds,          \* the accounts there are at the start
    Admins,         \* those of them that are administrators
    Addresses,      \* email addresses as they may be typed
    Lower,          \* str.lower of each
    SeedAddress,    \* the address of each account of Seeds
    Roles,          \* the roles a PATCH may name
    Names,          \* the full names a request may give
    NoAddress, NoAccount, NoRole, NoName,
    MayAbort        \* statements and commits may fail, the server may crash

\* Requests are numbered as they arrive.
Requests == 1 .. LastRequest

ASSUME AccountAssumption ==
    /\ LastRequest \in Nat
    /\ Concurrency \in Nat
    /\ Admins \subseteq Seeds
    /\ Seeds \intersect Requests = {}
    /\ Lower \in [Addresses -> Addresses]
    /\ SeedAddress \in [Seeds -> Addresses]
    /\ \A a, b \in Seeds : SeedAddress[a] = SeedAddress[b] => a = b
    /\ {"viewer", "admin"} \subseteq Roles
    /\ NoAddress \notin Addresses /\ NoRole \notin Roles /\ NoName \notin Names
    /\ NoAccount \notin Seeds \union Requests
    /\ MayAbort \in BOOLEAN

VARIABLES
    account,    \* the committed rows of users
    trail,      \* the audit entry each request has committed
    pc,         \* where each request stands
    ask,        \* what it asks for
    caller,     \* the role get_current_user read
    seen,       \* the target as _load_target read it
    dirty       \* the columns base.update found to differ, and will write

accountVars == <<account, trail>>
requestVars == <<pc, ask, caller, seen, dirty>>
vars == <<accountVars, requestVars, limiterVars>>

AccountIds == Seeds \union Requests

\* is_active and deleted_at change together; `active` stands for both.
Row == [email : Addresses, role : Roles, name : Names \union {NoName}, active : BOOLEAN]

NoRow == [email |-> NoAddress, role |-> NoRole, name |-> NoName, active |-> FALSE]

Ask == [kind   : {"none", "register", "login", "update", "deactivate"},
        email  : Addresses \union {NoAddress},
        actor  : AccountIds \union {NoAccount},
        target : AccountIds \union {NoAccount},
        name   : Names \union {NoName},
        role   : Roles \union {NoRole}]

Nothing == [kind |-> "none", email |-> NoAddress, actor |-> NoAccount,
            target |-> NoAccount, name |-> NoName, role |-> NoRole]

Entry == [action : {"none", "USER_REGISTRATION", "USER_LOGIN", "ROLE_CHANGE",
                    "USER_DEACTIVATION"},
          actor   : AccountIds \union {NoAccount},
          account : AccountIds \union {NoAccount},
          before  : Roles \union {NoRole},
          after   : Roles \union {NoRole}]

NoEntry == [action |-> "none", actor |-> NoAccount, account |-> NoAccount,
            before |-> NoRole, after |-> NoRole]

NothingSeen == [role |-> NoRole, name |-> NoName]

Seen == [role : Roles \union {NoRole}, name : Names \union {NoName}]

AccountsTypeOK ==
    /\ LimiterTypeOK
    /\ account \in [AccountIds -> Row \union {NoRow}]
    /\ trail \in [Requests -> Entry]
    /\ pc \in [Requests -> {"new", "insert", "target", "fetch", "write", "commit", "done"}]
    /\ ask \in [Requests -> Ask]
    /\ caller \in [Requests -> Roles \union {NoRole}]
    /\ seen \in [Requests -> Seen]
    /\ dirty \in [Requests -> SUBSET {"name", "role", "active"}]

Init ==
    /\ LimiterInit
    /\ account = [a \in AccountIds |->
                    IF a \in Seeds
                    THEN [email |-> SeedAddress[a], name |-> NoName, active |-> TRUE,
                          role |-> IF a \in Admins THEN "admin" ELSE "viewer"]
                    ELSE NoRow]
    /\ trail = [r \in Requests |-> NoEntry]
    /\ pc = [r \in Requests |-> "new"]
    /\ ask = [r \in Requests |-> Nothing]
    /\ caller = [r \in Requests |-> NoRole]
    /\ seen = [r \in Requests |-> NothingSeen]
    /\ dirty = [r \in Requests |-> {}]

-----------------------------------------------------------------------------
(* The database *)

Stored(a) == account[a] # NoRow
Live(a)   == account[a].active
Mail(a)   == account[a].email

Kind(r)   == ask[r].kind
Target(r) == ask[r].target

\* get_by_email: the live account stored under the lowercased address.
Named(e) == {a \in AccountIds : Live(a) /\ Mail(a) = Lower[e]}

\* Mutant: the index does not know the rows of unfinished transactions.
InsertingNone(r) == {}

\* Other requests whose INSERT of the same address awaits its commit.
InsertingSame(r) ==
    {q \in Requests \ {r} : /\ Kind(q) = "register"
                            /\ pc[q] = "commit"
                            /\ ask[q].email = ask[r].email}

\* Other requests that hold the lock of the row r is to write.
WritesSame(r) ==
    {q \in Requests \ {r} : /\ Kind(q) \in {"update", "deactivate"}
                            /\ pc[q] = "commit"
                            /\ Target(q) = Target(r)}

-----------------------------------------------------------------------------
(* Arrival: the limiter, then the handler *)

Goto(r, step) == pc' = [pc EXCEPT ![r] = step]

\* The transaction is over, and what the handler knew is gone.
End(r) ==
    /\ Goto(r, "done")
    /\ ask' = [ask EXCEPT ![r] = Nothing]
    /\ caller' = [caller EXCEPT ![r] = NoRole]
    /\ seen' = [seen EXCEPT ![r] = NothingSeen]
    /\ dirty' = [dirty EXCEPT ![r] = {}]

Rollback(r) == End(r) /\ UNCHANGED accountVars

Continue(r, step) ==
    /\ Goto(r, step)
    /\ UNCHANGED <<accountVars, ask, caller, seen, dirty>>

InFlight == {q \in Requests : pc[q] \notin {"new", "done"}}

Turn(r) ==
    /\ pc[r] = "new"
    /\ \A q \in Requests : q < r => pc[q] # "new"
    /\ Cardinality(InFlight) < Concurrency

Begin(r, request, step) ==
    /\ ask' = [ask EXCEPT ![r] = request]
    /\ Goto(r, step)
    /\ UNCHANGED <<accountVars, seen, dirty>>

\* register refuses an address that get_by_email finds, and one that User.validate
\* does not take, and a password of less than 12 characters.
Register(r, e) ==
    \/ Rollback(r)
    \/ /\ Named(e) = {}
       /\ Begin(r, [Nothing EXCEPT !.kind = "register", !.email = e], "insert")
       /\ UNCHANGED caller

\* login refuses an address it does not find, a wrong password and an inactive
\* account alike: the LOGIN_FAILED entry is rolled back with the exception.
Login(r, e) ==
    \/ Rollback(r)
    \/ \E a \in Named(e) :
        /\ Begin(r, [Nothing EXCEPT !.kind = "login", !.email = e, !.target = a], "commit")
        /\ UNCHANGED caller

\* The caller's token names an account that was registered; get_current_user
\* finds it, active, and the role it reads is the one every later check uses.
Call(r, request) ==
    /\ Stored(request.actor)
    /\ IF Live(request.actor)
       THEN /\ caller' = [caller EXCEPT ![r] = account[request.actor].role]
            /\ Begin(r, request, "target")
       ELSE Rollback(r)

Patch(a, t, n, o) ==
    [Nothing EXCEPT !.kind = "update", !.actor = a, !.target = t, !.name = n, !.role = o]

Delete(a, t) == [Nothing EXCEPT !.kind = "deactivate", !.actor = a, !.target = t]

\* A request the limiter passes, up to the first row its handler reads.
Arrive(r) ==
    /\ Turn(r)
    /\ \E c \in Clients \union {NoClient} : Pass(c)
    /\ \/ \E e \in Addresses : Register(r, e) \/ Login(r, e)
       \/ \E a, t \in {b \in AccountIds : Stored(b)} :
            \/ Call(r, Delete(a, t))
            \/ \E n \in Names \union {NoName}, o \in Roles \union {NoRole} :
                Call(r, Patch(a, t, n, o))

\* A request over the limit never reaches a handler.
TurnAway(r) ==
    /\ Turn(r)
    /\ \E c \in Clients : Refuse(c)
    /\ Rollback(r)

\* The unique index covers deleted accounts and compares addresses as they were
\* typed; the INSERT waits for an unfinished one of the same address.
InsertAccount(r) ==
    /\ pc[r] = "insert"
    /\ InsertingSame(r) = {}
    /\ IF \E a \in AccountIds : Mail(a) = ask[r].email
       THEN Rollback(r)
       ELSE Continue(r, "commit")

-----------------------------------------------------------------------------
(* update_user and deactivate_user *)

\* Mutant: PATCH does not ask who may change roles.
AnybodyMay(r, role) == Kind(r) = "update" \/ role = "admin"

\* What the caller's role decides: require_role("admin") of DELETE, and the
\* RoleChangeForbiddenError of PATCH.
RoleAllows(r, role) ==
    \/ role = "admin"
    \/ Kind(r) = "update" /\ ask[r].role = NoRole

\* _load_target: a deleted account, and another's account to one who is not an
\* administrator, are not found.
LoadTarget(r) ==
    /\ pc[r] = "target"
    /\ IF /\ Live(Target(r))
          /\ caller[r] = "admin" \/ ask[r].actor = Target(r)
          /\ RoleAllows(r, caller[r])
       THEN /\ seen' = [seen EXCEPT ![r] = [role |-> account[Target(r)].role,
                                            name |-> account[Target(r)].name]]
            /\ Goto(r, "fetch")
            /\ UNCHANGED <<accountVars, ask, caller, dirty>>
       ELSE Rollback(r)

\* The full name is always among the updates: the one given, or the one loaded.
NameToSet(r) == IF ask[r].name # NoName THEN ask[r].name ELSE seen[r].name

\* The columns in which the updates differ from a row.
Differing(r, row) ==
    IF Kind(r) = "deactivate"
    THEN {"active"}
    ELSE (IF NameToSet(r) # row.name THEN {"name"} ELSE {})
         \union (IF ask[r].role \notin {NoRole, row.role} THEN {"role"} ELSE {})

\* base.update selects the row again, deleted or not, and the session will write
\* the columns that the assignments change.
FetchTarget(r) ==
    /\ pc[r] = "fetch"
    /\ dirty' = [dirty EXCEPT ![r] = Differing(r, account[Target(r)])]
    /\ Goto(r, "write")
    /\ UNCHANGED <<accountVars, ask, caller, seen>>

\* The UPDATE waits for the lock of the row and holds it until the transaction
\* ends; updated_at, which it sets too, is not modelled.
WriteTarget(r) ==
    /\ pc[r] = "write"
    /\ WritesSame(r) = {}
    /\ Continue(r, "commit")

-----------------------------------------------------------------------------
(* The end of every request *)

EntryOf(action, actor, a, before, after) ==
    [action |-> action, actor |-> actor, account |-> a, before |-> before, after |-> after]

RegistrationEntry(r) == EntryOf("USER_REGISTRATION", r, r, NoRole, "viewer")

LoginEntry(r) == EntryOf("USER_LOGIN", Target(r), Target(r), NoRole, NoRole)

DeactivationEntry(r) == EntryOf("USER_DEACTIVATION", ask[r].actor, Target(r), NoRole, NoRole)

\* The role before the change is the one that _load_target read.
RoleChangeEntry(r) == EntryOf("ROLE_CHANGE", ask[r].actor, Target(r), seen[r].role, ask[r].role)

\* The entry a request writes: none for a PATCH that names no role, or the role
\* that _load_target read.
EntryFor(r) ==
    CASE Kind(r) = "register"   -> RegistrationEntry(r)
      [] Kind(r) = "login"      -> LoginEntry(r)
      [] Kind(r) = "deactivate" -> DeactivationEntry(r)
      [] Kind(r) = "update" /\ ask[r].role \notin {NoRole, seen[r].role} -> RoleChangeEntry(r)
      [] OTHER -> NoEntry

\* Mutant: the entity is written back whole.
RowWhole(r, row) ==
    [row EXCEPT !.name   = NameToSet(r),
                !.role   = IF ask[r].role # NoRole THEN ask[r].role ELSE seen[r].role,
                !.active = Kind(r) # "deactivate"]

\* The row of the target once the columns of r are written to it.
RowWritten(r, row) ==
    [row EXCEPT !.name   = IF "name" \in dirty[r] THEN NameToSet(r) ELSE @,
                !.role   = IF "role" \in dirty[r] THEN ask[r].role ELSE @,
                !.active = IF "active" \in dirty[r] THEN FALSE ELSE @]

\* Mutant: the default role is left out.
RowInsertedBare(r) ==
    [email |-> ask[r].email, role |-> NoRole, name |-> NoName, active |-> TRUE]

RowInserted(r) ==
    [email |-> ask[r].email, role |-> "viewer", name |-> NoName, active |-> TRUE]

RowAfter(r, a) ==
    CASE Kind(r) = "register" /\ a = r -> RowInserted(r)
      [] Kind(r) \in {"update", "deactivate"} /\ a = Target(r) -> RowWritten(r, account[a])
      [] OTHER -> account[a]

\* Mutant: the entry is written after the commit, and may be lost.
CommitThenAudit(r) ==
    /\ pc[r] = "commit"
    /\ account' = [a \in AccountIds |-> RowAfter(r, a)]
    /\ trail' \in {trail, [trail EXCEPT ![r] = EntryFor(r)]}
    /\ End(r)

\* The entry is flushed, the handler answers and the transaction is committed:
\* nothing is read in between, and what was written stays locked throughout.
Commit(r) ==
    /\ pc[r] = "commit"
    /\ account' = [a \in AccountIds |-> RowAfter(r, a)]
    /\ trail' = [trail EXCEPT ![r] = EntryFor(r)]
    /\ End(r)

\* A statement or the commit raises, or the server dies: nothing is kept.  When
\* the INSERT of the entry is refused the service swallows the exception and
\* answers as if nothing had happened, but the flush has rolled back the rest.
Abort(r) ==
    /\ MayAbort
    /\ pc[r] \notin {"new", "done"}
    /\ Rollback(r)

Proceed(r) ==
    \/ InsertAccount(r)
    \/ LoadTarget(r) \/ FetchTarget(r) \/ WriteTarget(r)
    \/ Commit(r)

\* The clock is looked at when a request arrives.
NextMinute == (\E r \in Requests : Turn(r)) /\ Tick /\ UNCHANGED <<accountVars, requestVars>>

AllServed == (\A r \in Requests : pc[r] = "done") /\ UNCHANGED vars

Next ==
    \/ \E r \in Requests :
        \/ Arrive(r) \/ TurnAway(r)
        \/ (Proceed(r) \/ Abort(r)) /\ UNCHANGED limiterVars
    \/ NextMinute
    \/ AllServed

Spec == Init /\ [][Next]_vars

-----------------------------------------------------------------------------
(* Properties *)

\* Two registrations of an address that pass the lookup together, or one of an
\* address whose account was deleted, never leave two accounts with it.  An address
\* is what was typed, capitals included: the index compares nothing else, and two
\* accounts whose addresses differ in capitals alone are accounts of two addresses.
EmailUnique ==
    \A a, b \in AccountIds : Stored(a) /\ Stored(b) /\ Mail(a) = Mail(b) => a = b

HasEntry(action, a) == \E r \in Requests : trail[r].action = action /\ trail[r].account = a

Promoted(a, role) ==
    \E r \in Requests :
        trail[r].action = "ROLE_CHANGE" /\ trail[r].account = a /\ trail[r].after = role

FirstRole(a) == IF a \in Admins THEN "admin" ELSE "viewer"

Explained(a, role) == role = FirstRole(a) \/ Promoted(a, role)

\* The audit trail explains every account: one registered has its entry, and an
\* entry its account; one deleted has a USER_DEACTIVATION, and only such a one,
\* whatever fails in between.  Of a role it says less: it is the account's first,
\* or one that some ROLE_CHANGE gave it at some time; see RoleChangesLogged.
TrailExplains ==
    \A a \in AccountIds :
        /\ a \in Requests => (Stored(a) <=> HasEntry("USER_REGISTRATION", a))
        /\ Stored(a) => (~Live(a) <=> HasEntry("USER_DEACTIVATION", a))
        /\ Stored(a) => Explained(a, account[a].role)

Empowered(a) ==
    \/ a \in Admins
    \/ \E q \in Requests : /\ trail[q].action = "ROLE_CHANGE"
                           /\ trail[q].account = a
                           /\ trail[q].after = "admin"
                           /\ trail[q].actor # a

\* Power comes from power: whoever changed a role or ended an account had been
\* an administrator from the start, or was made one by somebody else.
ChangesByAdmins ==
    \A r \in Requests :
        trail[r].action \in {"ROLE_CHANGE", "USER_DEACTIVATION"} => Empowered(trail[r].actor)

\* What keeps those true step by step.  An unfinished request has committed nothing
\* and its accounts exist; a role it has read, its caller's or its target's, is one
\* the trail explains, however old it is by now; what it will write is what it asks
\* for and may ask for; and an INSERT that was accepted keeps its address to itself.
Changing == {"update", "deactivate"}
Loaded   == {"fetch", "write", "commit"}

Uncommitted(r) ==
    /\ pc[r] # "done" => ~Stored(r) /\ trail[r] = NoEntry
    /\ pc[r] \in {"new", "done"} <=> Kind(r) = "none"
    /\ pc[r] = "insert" => Kind(r) = "register"
    /\ pc[r] \in {"target", "fetch", "write"} => Kind(r) \in Changing
    /\ Kind(r) = "register" => ask[r].email \in Addresses
    /\ Kind(r) \in Changing => /\ ask[r].actor \in AccountIds /\ Stored(ask[r].actor)
                              /\ Target(r) \in AccountIds /\ Stored(Target(r))

RolesRead(r) ==
    Kind(r) \in Changing =>
        /\ caller[r] = "admin" => Empowered(ask[r].actor)
        /\ pc[r] \in Loaded =>
            /\ RoleAllows(r, caller[r])
            /\ Explained(Target(r), seen[r].role)
            /\ seen[r].role = "admin" => Empowered(Target(r))

ColumnsToWrite(r) ==
    /\ pc[r] \notin {"write", "commit"} => dirty[r] = {}
    /\ Kind(r) = "update" => "active" \notin dirty[r]
    /\ "role" \in dirty[r] => Kind(r) = "update" /\ ask[r].role # NoRole
    /\ Kind(r) = "deactivate" /\ pc[r] \in {"write", "commit"} => "active" \in dirty[r]

InsertExclusive(r) ==
    pc[r] = "commit" /\ Kind(r) = "register" =>
        /\ InsertingSame(r) = {}
        /\ \A a \in AccountIds : Mail(a) # ask[r].email

\* An entry is about the account it names, and an administrator was made one.
TrailShape ==
    /\ \A r \in Requests :
        /\ trail[r].action = "USER_REGISTRATION" => trail[r].account = r
        /\ trail[r].action = "USER_DEACTIVATION" =>
            trail[r].account \in AccountIds /\ Stored(trail[r].account)
    /\ \A a \in AccountIds : account[a].role = "admin" => Empowered(a)

AccountsInv ==
    /\ AccountsTypeOK
    /\ \A r \in Requests : Uncommitted(r) /\ RolesRead(r) /\ ColumnsToWrite(r) /\ InsertExclusive(r)
    /\ TrailShape

\* Entry and role are committed together or not at all, but for what a PATCH read
\* too early.  A role that changes has its entry in the same commit, unless the PATCH
\* names the role it found on the account when it looked, which another has changed
\* since; and an entry has its role, unless base.update found that role there already.
RoleLogged(r, a) ==
    /\ trail[r] = NoEntry
    /\ trail'[r].action = "ROLE_CHANGE"
    /\ trail'[r].account = a
    /\ trail'[r].after = account'[a].role

RoleChangesLogged ==
    [][/\ \A a \in AccountIds :
            Stored(a) /\ account'[a].role # account[a].role =>
                \E r \in Requests :
                    /\ pc[r] = "commit" /\ Kind(r) = "update" /\ Target(r) = a
                    /\ RoleLogged(r, a) \/ seen[r].role = account'[a].role
       /\ \A r \in Requests :
            trail'[r].action = "ROLE_CHANGE" /\ trail[r] = NoEntry =>
                RoleLogged(r, Target(r)) \/ "role" \notin dirty[r]]_accountVars

\* A deactivated account stays deactivated, and keeps its row and its address: a
\* PATCH that read it before writes it afterwards, and does not bring it back.
DeactivatedForGood ==
    [][\A a \in AccountIds :
         Stored(a) => Mail(a)' = Mail(a) /\ (~Live(a) => ~Live(a)')]_vars
================================================================================
