----------------------------- MODULE TokenRotation -----------------------------
(***************************************************************************)
(* Sessions of the API: login issues a refresh token, refresh exchanges it *)
(* for a new one, logout revokes one token or all tokens of a user, and an *)
(* administrator's deactivation ends the account and revokes its tokens.   *)
(* Every request has a database transaction of its own (READ COMMITTED),   *)
(* which get_db_session commits after the handler returned.                *)
(*                                                                         *)
(* A step ends where the code awaits the database, so other requests run   *)
(* between refresh's look at the account, its look at the token, the       *)
(* guarded UPDATE and the INSERT, and between revoke_all_for_user's SELECT *)
(* and each row it writes.  Requests that are refused before they write    *)
(* change nothing; they end in the same step that refuses them.            *)
(***************************************************************************)
EXTENDS Integers, FiniteSets

CONSTANTS
    Requests,       \* slots in which requests are served, one after another
    Users,          \* the registered accounts
    Tokens,         \* the refresh tokens that may be minted, as primary keys
    NoUser, NoToken,
    Expiring,       \* bound: the tokens whose 30 days may be over within a behaviour
    MayAbort,       \* statements and commits may fail, the server may crash
    AuditMayFail    \* the INSERT of the audit entry may be refused

ASSUME TokenAssumption ==
    /\ Tokens \subseteq Int
    /\ NoToken \notin Tokens
    /\ Expiring \subseteq Tokens
    /\ NoUser \notin Users
    /\ MayAbort \in BOOLEAN
    /\ AuditMayFail \in BOOLEAN

VARIABLES
    token,      \* the committed rows of user_refresh_tokens
    active,     \* the accounts whose committed row is active and not deleted
    expired,    \* the tokens whose 30 days are over
    returned,   \* the account named by each JWT a service call has returned
    pc,         \* where the request of each slot stands
    kind,       \* what it asks for
    user,       \* the account it acts on
    presented,  \* the token it was given; a logout drops one that has no row
    fresh,      \* the row it has inserted
    todo,       \* the rows revoke_all_for_user selected and has yet to write
    wrote       \* the token rows it has written, and holds the locks of

requestVars == <<pc, kind, user, presented, fresh, todo, wrote>>
vars == <<token, active, expired, returned,
          pc, kind, user, presented, fresh, todo, wrote>>

Kinds == {"none", "login", "refresh", "logout", "logout_all", "deactivate"}
Steps == {"idle", "read", "revoke", "insert", "account", "select", "write",
          "audit", "commit"}

\* A row also records who revoked it and which token it replaces, so that the
\* properties can be stated; is_revoked is `by # "nobody"`.
TokenRow == [owner  : Users \union {NoUser},
             by     : {"nobody", "rotation", "logout"},
             parent : Tokens \union {NoToken}]

NoRow == [owner |-> NoUser, by |-> "nobody", parent |-> NoToken]

TokensTypeOK ==
    /\ token \in [Tokens -> TokenRow]
    /\ active \subseteq Users
    /\ expired \subseteq Tokens
    /\ returned \in [Tokens -> Users \union {NoUser}]
    /\ pc \in [Requests -> Steps]
    /\ kind \in [Requests -> Kinds]
    /\ user \in [Requests -> Users \union {NoUser}]
    /\ presented \in [Requests -> Tokens \union {NoToken}]
    /\ fresh \in [Requests -> Tokens \union {NoToken}]
    /\ todo \in [Requests -> SUBSET Tokens]
    /\ wrote \in [Requests -> SUBSET Tokens]

Init ==
    /\ token = [t \in Tokens |-> NoRow]
    /\ active = Users
    /\ expired = {}
    /\ returned = [t \in Tokens |-> NoUser]
    /\ pc = [r \in Requests |-> "idle"]
    /\ kind = [r \in Requests |-> "none"]
    /\ user = [r \in Requests |-> NoUser]
    /\ presented = [r \in Requests |-> NoToken]
    /\ fresh = [r \in Requests |-> NoToken]
    /\ todo = [r \in Requests |-> {}]
    /\ wrote = [r \in Requests |-> {}]

-----------------------------------------------------------------------------
(* The database *)

Exists(t)  == token[t].owner # NoUser
Revoked(t) == token[t].by # "nobody"

\* The identifiers that uuid4 may still yield: neither stored nor known to anybody.
Unused == {t \in Tokens : /\ ~Exists(t)
                          /\ returned[t] = NoUser
                          /\ \A q \in Requests : fresh[q] # t}

RowLocked(r, t)     == \E q \in Requests \ {r} : t \in wrote[q]
AccountLocked(r, u) ==
    \E q \in Requests \ {r} :
        kind[q] = "deactivate" /\ user[q] = u /\ pc[q] \notin {"idle", "account"}

\* The rows of the SELECT of revoke_all_for_user.
ActiveTokens(u) ==
    {t \in Tokens : token[t].owner = u /\ ~Revoked(t) /\ t \notin expired}

-----------------------------------------------------------------------------
(* Bookkeeping of a request *)

Goto(r, step) == pc' = [pc EXCEPT ![r] = step]

Begin(r, k, u, t, step) ==
    /\ pc[r] = "idle"
    /\ Goto(r, step)
    /\ kind' = [kind EXCEPT ![r] = k]
    /\ user' = [user EXCEPT ![r] = u]
    /\ presented' = [presented EXCEPT ![r] = t]
    /\ UNCHANGED <<token, active, expired, returned, fresh, todo, wrote>>

\* The transaction is over; the slot is free for another request.
End(r) ==
    /\ Goto(r, "idle")
    /\ kind' = [kind EXCEPT ![r] = "none"]
    /\ user' = [user EXCEPT ![r] = NoUser]
    /\ presented' = [presented EXCEPT ![r] = NoToken]
    /\ fresh' = [fresh EXCEPT ![r] = NoToken]
    /\ todo' = [todo EXCEPT ![r] = {}]
    /\ wrote' = [wrote EXCEPT ![r] = {}]

Rollback(r) == End(r) /\ UNCHANGED <<token, active, expired, returned>>

-----------------------------------------------------------------------------
(* How each request starts: what is looked up before the first write. *)

\* Bound: a request that will mint a token starts only while one is left for it.
Minting     == {q \in Requests : kind[q] \in {"login", "refresh"} /\ fresh[q] = NoToken}
TokenToMint == Cardinality(Unused) > Cardinality(Minting)

\* get_by_email skips deleted accounts; the password is right, the account active.
Login(r, u) == TokenToMint /\ u \in active /\ Begin(r, "login", u, NoToken, "insert")

\* The JWT is one the service returned and not expired; get_by_id finds an active
\* account.
Refresh(r, t) ==
    /\ TokenToMint
    /\ t \notin expired
    /\ returned[t] \in active
    /\ Begin(r, "refresh", returned[t], t, "read")

\* The caller is an active account; an expired token is left as it is.
Logout(r, u, t) ==
    /\ u \in active
    /\ returned[t] # NoUser
    /\ t \notin expired
    /\ Begin(r, "logout", u, t, "read")

LogoutAll(r, u) == u \in active /\ Begin(r, "logout_all", u, NoToken, "select")

\* _load_target: get_by_id skips deleted accounts.
Deactivate(r, u) == u \in active /\ Begin(r, "deactivate", u, NoToken, "account")

Arrive(r) ==
    \/ \E u \in Users : Login(r, u) \/ LogoutAll(r, u) \/ Deactivate(r, u)
    \/ \E t \in Tokens : Refresh(r, t) \/ \E u \in Users : Logout(r, u, t)

-----------------------------------------------------------------------------
(* refresh and the logout of one device *)

\* get_by_jti.  refresh raises when there is no such row or it is revoked;
\* logout has nothing to revoke when there is no such row.
ReadToken(r) ==
    /\ pc[r] = "read"
    /\ IF kind[r] = "refresh" /\ (~Exists(presented[r]) \/ Revoked(presented[r]))
       THEN Rollback(r)
       ELSE IF Exists(presented[r])
       THEN /\ Goto(r, "revoke")
            /\ UNCHANGED <<token, active, expired, returned, kind, user,
                           presented, fresh, todo, wrote>>
       ELSE /\ Goto(r, "audit")
            /\ presented' = [presented EXCEPT ![r] = NoToken]
            /\ UNCHANGED <<token, active, expired, returned, kind, user,
                           fresh, todo, wrote>>

\* Mutant: the UPDATE does not require is_revoked = FALSE.
RevokeUnguarded(r) ==
    /\ pc[r] = "revoke"
    /\ ~RowLocked(r, presented[r])
    /\ Goto(r, IF kind[r] = "refresh" THEN "insert" ELSE "audit")
    /\ wrote' = [wrote EXCEPT ![r] = {presented[r]}]
    /\ UNCHANGED <<token, active, expired, returned, kind, user,
                   presented, fresh, todo>>

\* Mutant: a row another transaction has locked counts as revoked already.
RevokeSkippingLocked(r) ==
    /\ pc[r] = "revoke"
    /\ IF Revoked(presented[r]) \/ RowLocked(r, presented[r])
       THEN IF kind[r] = "refresh"
            THEN Rollback(r)
            ELSE /\ Goto(r, "audit")
                 /\ UNCHANGED <<token, active, expired, returned, kind,
                                user, presented, fresh, todo, wrote>>
       ELSE /\ Goto(r, IF kind[r] = "refresh" THEN "insert" ELSE "audit")
            /\ wrote' = [wrote EXCEPT ![r] = {presented[r]}]
            /\ UNCHANGED <<token, active, expired, returned, kind, user,
                           presented, fresh, todo>>

\* UPDATE ... WHERE ... AND is_revoked = FALSE waits for the row's lock and then
\* looks at the newest committed version: no row is a lost race for refresh
\* (TokenAlreadyRotatedError), and nothing to do for logout.
RevokeToken(r) ==
    /\ pc[r] = "revoke"
    /\ ~RowLocked(r, presented[r])
    /\ IF ~Revoked(presented[r])
       THEN /\ Goto(r, IF kind[r] = "refresh" THEN "insert" ELSE "audit")
            /\ wrote' = [wrote EXCEPT ![r] = {presented[r]}]
            /\ UNCHANGED <<token, active, expired, returned, kind, user,
                           presented, fresh, todo>>
       ELSE IF kind[r] = "refresh"
       THEN Rollback(r)
       ELSE /\ Goto(r, "audit")
            /\ UNCHANGED <<token, active, expired, returned, kind, user,
                           presented, fresh, todo, wrote>>

\* login and refresh mint a pair of JWTs and insert the row of the refresh token.
InsertToken(r) ==
    /\ pc[r] = "insert"
    /\ \E t \in Unused : fresh' = [fresh EXCEPT ![r] = t]
    /\ Goto(r, "audit")
    /\ UNCHANGED <<token, active, expired, returned, kind, user, presented, todo,
                   wrote>>

-----------------------------------------------------------------------------
(* deactivate_user and revoke_all_for_user *)

\* The UPDATE of the account waits for another deactivation of the same account.
UpdateAccount(r) ==
    /\ pc[r] = "account"
    /\ ~AccountLocked(r, user[r])
    /\ Goto(r, "select")
    /\ UNCHANGED <<token, active, expired, returned, kind, user,
                   presented, fresh, todo, wrote>>

SelectActive(r) ==
    /\ pc[r] = "select"
    /\ todo' = [todo EXCEPT ![r] = ActiveTokens(user[r])]
    /\ Goto(r, IF ActiveTokens(user[r]) = {} THEN "audit" ELSE "write")
    /\ UNCHANGED <<token, active, expired, returned, kind, user,
                   presented, fresh, wrote>>

\* Mutant: the rows are written in any order.
WriteAnyToken(r) ==
    /\ pc[r] = "write"
    /\ \E t \in todo[r] :
        /\ ~RowLocked(r, t)
        /\ wrote' = [wrote EXCEPT ![r] = @ \union {t}]
        /\ todo' = [todo EXCEPT ![r] = @ \ {t}]
        /\ Goto(r, IF todo[r] = {t} THEN "audit" ELSE "write")
    /\ UNCHANGED <<token, active, expired, returned, kind, user,
                   presented, fresh>>

\* The flush writes the changed rows in the order of their primary keys; each
\* UPDATE names its row by id alone and waits for the row's lock.
WriteToken(r) ==
    /\ pc[r] = "write"
    /\ \E t \in todo[r] :
        /\ \A s \in todo[r] : t <= s
        /\ ~RowLocked(r, t)
        /\ wrote' = [wrote EXCEPT ![r] = @ \union {t}]
        /\ todo' = [todo EXCEPT ![r] = @ \ {t}]
        /\ Goto(r, IF todo[r] = {t} THEN "audit" ELSE "write")
    /\ UNCHANGED <<token, active, expired, returned, kind, user,
                   presented, fresh>>

-----------------------------------------------------------------------------
(* The end of every request *)

Return(r) ==
    returned' = [t \in Tokens |-> IF t = fresh[r] THEN user[r] ELSE returned[t]]

\* The audit entry is flushed and the service returns.
Audit(r) ==
    /\ pc[r] = "audit"
    /\ Goto(r, "commit")
    /\ Return(r)
    /\ UNCHANGED <<token, active, expired, kind, user, presented, fresh,
                   todo, wrote>>

\* The INSERT of the audit entry is refused.  The service swallows the exception
\* and returns as if nothing had happened; the failed flush has rolled the
\* transaction back, and the commit of the session raises.
AuditFails(r) ==
    /\ AuditMayFail
    /\ pc[r] = "audit"
    /\ Return(r)
    /\ End(r)
    /\ UNCHANGED <<token, active, expired>>

Reason(k) == IF k = "refresh" THEN "rotation" ELSE "logout"

\* Mutant: a revocation replaces an earlier one.
CommittedRowAnew(r, t) ==
    IF t = fresh[r]
    THEN [owner |-> user[r], by |-> "nobody", parent |-> presented[r]]
    ELSE IF t \in wrote[r] THEN [token[t] EXCEPT !.by = Reason(kind[r])] ELSE token[t]

\* The committed row of t once the transaction of r is applied to it.
CommittedRow(r, t) ==
    IF t = fresh[r]
    THEN [owner |-> user[r], by |-> "nobody", parent |-> presented[r]]
    ELSE IF t \in wrote[r] /\ ~Revoked(t)
    THEN [token[t] EXCEPT !.by = Reason(kind[r])]
    ELSE token[t]

Commit(r) ==
    /\ pc[r] = "commit"
    /\ token' = [t \in Tokens |-> CommittedRow(r, t)]
    /\ active' = IF kind[r] = "deactivate" THEN active \ {user[r]} ELSE active
    /\ End(r)
    /\ UNCHANGED <<expired, returned>>

\* Mutant: a revocation is committed by itself, before the successor is stored.
AbortKeepingRevocation(r) ==
    /\ MayAbort
    /\ pc[r] # "idle"
    /\ token' = [t \in Tokens |-> IF t \in wrote[r] THEN CommittedRow(r, t)
                                                    ELSE token[t]]
    /\ End(r)
    /\ UNCHANGED <<active, expired, returned>>

\* Any statement or the commit raises, or the server dies: nothing is kept.
Abort(r) ==
    /\ MayAbort
    /\ pc[r] # "idle"
    /\ Rollback(r)

Proceed(r) ==
    \/ ReadToken(r)
    \/ RevokeToken(r)
    \/ InsertToken(r)
    \/ UpdateAccount(r)
    \/ SelectActive(r)
    \/ WriteToken(r)
    \/ Audit(r)
    \/ Commit(r)

\* The clock passes the end of a token's life.  The expiry of a token that is
\* revoked or was never stored goes unnoticed: nothing is done with it either way.
Expire(t) ==
    /\ t \in Expiring
    /\ Exists(t)
    /\ ~Revoked(t)
    /\ t \notin expired
    /\ expired' = expired \union {t}
    /\ UNCHANGED <<token, active, returned, requestVars>>

\* With every account deactivated each further request is refused.
RefuseAll ==
    /\ active = {}
    /\ \A r \in Requests : pc[r] = "idle"
    /\ UNCHANGED vars

Next ==
    \/ \E r \in Requests : Arrive(r) \/ Proceed(r) \/ AuditFails(r) \/ Abort(r)
    \/ \E t \in Tokens : Expire(t)
    \/ RefuseAll

\* The server keeps running every request it has accepted, and PostgreSQL serves
\* the waiters of a row in the order of their arrival.
Fairness == \A r \in Requests : SF_vars(Proceed(r))

Spec == Init /\ [][Next]_vars /\ Fairness

-----------------------------------------------------------------------------
(* Properties *)

\* No refresh token is ever exchanged twice, however many requests present it at
\* the same time: the guarded UPDATE of atomic_revoke_by_jti has one winner.
SingleUse ==
    \A s, t \in Tokens :
        token[s].parent = token[t].parent /\ token[s].parent # NoToken => s = t

\* Rotation is all or nothing: a token that refresh revoked has a successor in
\* the table, and a token with a successor was revoked by that refresh, not by a
\* logout.  So a failed refresh never costs the client its session, and a token
\* withdrawn by a logout was not turned into another one before.
RotationIsWhole ==
    \A t \in Tokens :
        token[t].by = "rotation" <=> \E s \in Tokens : token[s].parent = t

\* What keeps those true step by step.  A row is written by one transaction at a
\* time; a refresh past its UPDATE holds the lock of a token nobody has revoked;
\* an inserted row is its transaction's own until it commits.
ExclusiveLocks ==
    \A q, r \in Requests : q # r => wrote[q] \intersect wrote[r] = {}

RequestShape ==
    \A r \in Requests :
        /\ pc[r] = "idle" => wrote[r] = {} /\ fresh[r] = NoToken
        /\ pc[r] \in {"read", "revoke"} =>
              kind[r] \in {"refresh", "logout"} /\ presented[r] \in Tokens
        /\ pc[r] = "insert" => kind[r] \in {"login", "refresh"}
        /\ pc[r] # "idle" => user[r] \in Users
        /\ pc[r] \in {"account", "select", "write"} =>
              kind[r] \in {"logout_all", "deactivate"}
        /\ kind[r] = "login" => presented[r] = NoToken /\ wrote[r] = {}

RotationHoldsToken ==
    \A r \in Requests :
        kind[r] = "refresh" =>
            /\ pc[r] \in {"insert", "audit", "commit"} =>
                  /\ presented[r] \in Tokens
                  /\ wrote[r] = {presented[r]}
                  /\ ~Revoked(presented[r])
            /\ pc[r] \in {"audit", "commit"} => fresh[r] # NoToken

InsertedRowsPrivate ==
    \A r \in Requests :
        fresh[r] # NoToken =>
            /\ pc[r] \in {"audit", "commit"}
            /\ kind[r] \in {"login", "refresh"}
            /\ ~Exists(fresh[r])
            /\ \A q \in Requests \ {r} : fresh[q] # fresh[r]

OnlyStoredRowsWritten ==
    /\ \A t \in Tokens : ~Exists(t) => token[t] = NoRow
    /\ \A t \in Tokens : token[t].parent # NoToken => Exists(token[t].parent)
    /\ \A r \in Requests : \A t \in wrote[r] \union todo[r] : Exists(t)
    /\ \A r \in Requests : pc[r] = "revoke" => Exists(presented[r])

RotationInv ==
    /\ TokensTypeOK
    /\ ExclusiveLocks
    /\ RequestShape
    /\ RotationHoldsToken
    /\ InsertedRowsPrivate
    /\ OnlyStoredRowsWritten
    /\ RotationIsWhole
    /\ SingleUse

\* The rows implement SingleUseTokens: every commit is one issue, one exchange,
\* one withdrawal of live tokens, or changes nothing.
Status ==
    [t \in Tokens |-> IF ~Exists(t) THEN "unissued"
                      ELSE IF ~Revoked(t) THEN "live"
                      ELSE IF token[t].by = "rotation" THEN "exchanged" ELSE "withdrawn"]

Predecessor == [t \in Tokens |-> token[t].parent]

Abstract == INSTANCE SingleUseTokens WITH status <- Status, predecessor <- Predecessor

ImplementsSingleUse == Abstract!Init /\ [][Abstract!Next]_(Abstract!tokenVars)

\* The logout of a device that has found the row of its token and committed leaves
\* that token revoked, whatever ran beside it: neither another request's unfinished
\* revocation, which may be rolled back after the logout has looked at the row, nor a
\* lost race for the row lets the token live on.
LogoutRevokes ==
    [][\A r \in Requests :
         kind[r] = "logout" /\ presented[r] # NoToken /\ Commit(r)
            => token'[presented[r]].by # "nobody"]_vars

\* r stands before an UPDATE whose row another transaction holds.
Waits(r) ==
    \/ pc[r] = "revoke" /\ RowLocked(r, presented[r])
    \/ pc[r] = "account" /\ AccountLocked(r, user[r])
    \/ pc[r] = "write" /\ \E t \in todo[r] : (\A s \in todo[r] : t <= s) /\ RowLocked(r, t)

\* Requests never wait for each other in a circle, however many there are: while
\* some request is unfinished, one of them is not kept waiting by another.
NoCircularWait ==
    (\E r \in Requests : pc[r] # "idle") => \E r \in Requests : pc[r] # "idle" /\ ~Waits(r)

\* Why: a request takes its first lock by the statement before which it can wait,
\* except in revoke_all_for_user, which locks rows in the order of their keys.
LocksInOrder ==
    /\ \A r \in Requests :
        /\ pc[r] \in {"read", "revoke", "account", "select"} => wrote[r] = {}
        /\ pc[r] = "write" => todo[r] # {} /\ \A t \in wrote[r], s \in todo[r] : t < s
    /\ IsFiniteSet({t \in Tokens : Exists(t)})

WaitOrder == RotationInv /\ LocksInOrder

WaitInv == WaitOrder /\ NoCircularWait

\* None waits for ever for a row, either: every request that was accepted ends, and
\* its slot is idle again and again.
RequestsFinish == \A r \in Requests : []<>(pc[r] = "idle")

-----------------------------------------------------------------------------
(* Claims of the documentation that the code does not keep *)

\* auth_service.py:588: "If logout_all=True: all refresh tokens for user marked
\* revoked"; user_service.py:174: deactivation "revokes every refresh token".  At
\* the least, a token it selected is then the end of its session: no live token
\* has taken the place of one that it wrote.
AllDevicesLoggedOut ==
    [][\A r \in Requests :
         pc[r] = "commit" /\ pc'[r] = "idle" /\ kind[r] \in {"logout_all", "deactivate"}
            => \A t \in Tokens : token[t].parent \in wrote[r] => Revoked(t)']_vars
================================================================================
