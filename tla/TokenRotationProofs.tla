-------------------------- MODULE TokenRotationProofs --------------------------
(***************************************************************************)
(* Theorems about TokenRotation, for any number of requests, accounts and  *)
(* tokens.  The inductive invariant is RotationInv.  Only Commit writes    *)
(* rows, so the step proof treats it apart: for every other action the     *)
(* conjuncts about rows alone carry over (RowsKept).                       *)
(***************************************************************************)
EXTENDS TokenRotation, FiniteSetTheorems, WellFoundedInduction, TLAPS

LEMMA InitRotation == Init => RotationInv
  <1> SUFFICES ASSUME Init PROVE RotationInv
    OBVIOUS
  <1> USE TokenAssumption DEF Init
  <1>1. TokensTypeOK
    BY DEF TokensTypeOK, TokenRow, NoRow, Steps, Kinds
  <1>2. /\ ExclusiveLocks
        /\ RequestShape
        /\ RotationHoldsToken
        /\ InsertedRowsPrivate
    BY DEF ExclusiveLocks, RequestShape, RotationHoldsToken, InsertedRowsPrivate
  <1>3. \A t \in Tokens : ~Exists(t) /\ token[t] = NoRow
    BY DEF Exists, NoRow
  <1>4. /\ OnlyStoredRowsWritten
        /\ RotationIsWhole
        /\ SingleUse
    BY <1>3 DEF OnlyStoredRowsWritten, RotationIsWhole, SingleUse, NoRow
  <1> QED
    BY <1>1, <1>2, <1>4 DEF RotationInv

(***************************************************************************)
(* What a step that leaves the rows alone keeps.                           *)
(***************************************************************************)

LEMMA RowsKept ==
    ASSUME RotationInv, UNCHANGED token
    PROVE  /\ RotationIsWhole'
           /\ SingleUse'
           /\ \A t : Exists(t)' = Exists(t) /\ Revoked(t)' = Revoked(t)
           /\ (\A t \in Tokens : ~Exists(t) => token[t] = NoRow)'
           /\ (\A t \in Tokens : token[t].parent # NoToken => Exists(token[t].parent))'
  BY DEF RotationInv, RotationIsWhole, SingleUse, Exists, Revoked, OnlyStoredRowsWritten

\* A transaction that ends without a commit leaves the invariant.
LEMMA EndKeeps ==
    ASSUME RotationInv, NEW r \in Requests, End(r),
           UNCHANGED <<token, active, expired>>,
           returned' \in [Tokens -> Users \union {NoUser}]
    PROVE  RotationInv'
  <1> USE TokenAssumption DEF End, Goto
  <1>1. TokensTypeOK'
    BY DEF RotationInv, TokensTypeOK, Steps, Kinds
  <1>2. ExclusiveLocks'
    BY DEF RotationInv, TokensTypeOK, ExclusiveLocks
  <1>3. RequestShape'
    BY DEF RotationInv, TokensTypeOK, RequestShape
  <1>4. RotationHoldsToken'
    BY RowsKept DEF RotationInv, TokensTypeOK, RotationHoldsToken
  <1>5. InsertedRowsPrivate'
    BY RowsKept DEF RotationInv, TokensTypeOK, InsertedRowsPrivate
  <1>6. OnlyStoredRowsWritten'
    BY RowsKept DEF RotationInv, TokensTypeOK, OnlyStoredRowsWritten
  <1> QED
    BY <1>1, <1>2, <1>3, <1>4, <1>5, <1>6, RowsKept DEF RotationInv

(***************************************************************************)
(* One lemma per action.                                                   *)
(***************************************************************************)

LEMMA BeginKeeps ==
    ASSUME RotationInv, NEW r \in Requests, NEW k \in Kinds, NEW u \in Users,
           NEW t \in Tokens \union {NoToken}, NEW step \in Steps,
           Begin(r, k, u, t, step),
           \/ k = "login" /\ t = NoToken /\ step = "insert"
           \/ k \in {"refresh", "logout"} /\ t \in Tokens /\ step = "read"
           \/ k = "logout_all" /\ step = "select"
           \/ k = "deactivate" /\ step = "account"
    PROVE  RotationInv'
  <1> USE TokenAssumption DEF Begin, Goto
  <1>1. TokensTypeOK'
    BY DEF RotationInv, TokensTypeOK
  <1>2. ExclusiveLocks'
    BY DEF RotationInv, TokensTypeOK, ExclusiveLocks
  <1>3. RequestShape'
    BY DEF RotationInv, TokensTypeOK, RequestShape
  <1>4. RotationHoldsToken'
    BY RowsKept DEF RotationInv, TokensTypeOK, RotationHoldsToken
  <1>5. InsertedRowsPrivate'
    BY RowsKept DEF RotationInv, TokensTypeOK, InsertedRowsPrivate, RequestShape
  <1>6. OnlyStoredRowsWritten'
    BY RowsKept DEF RotationInv, TokensTypeOK, OnlyStoredRowsWritten
  <1> QED
    BY <1>1, <1>2, <1>3, <1>4, <1>5, <1>6, RowsKept DEF RotationInv

LEMMA ArriveKeeps ==
    ASSUME RotationInv, NEW r \in Requests, Arrive(r)
    PROVE  RotationInv'
  <1> USE TokenAssumption DEF Kinds, Steps
  <1>1. ASSUME NEW u \in Users, Login(r, u) PROVE RotationInv'
    BY <1>1, BeginKeeps DEF Login
  <1>2. ASSUME NEW u \in Users, LogoutAll(r, u) PROVE RotationInv'
    BY <1>2, BeginKeeps DEF LogoutAll
  <1>3. ASSUME NEW u \in Users, Deactivate(r, u) PROVE RotationInv'
    BY <1>3, BeginKeeps DEF Deactivate
  <1>4. ASSUME NEW t \in Tokens, Refresh(r, t) PROVE RotationInv'
    <2>1. returned[t] \in Users
      BY <1>4 DEF Refresh, RotationInv, TokensTypeOK
    <2> QED
      BY <1>4, <2>1, BeginKeeps DEF Refresh
  <1>5. ASSUME NEW t \in Tokens, NEW u \in Users, Logout(r, u, t) PROVE RotationInv'
    BY <1>5, BeginKeeps DEF Logout
  <1> QED
    BY <1>1, <1>2, <1>3, <1>4, <1>5 DEF Arrive

LEMMA RollbackKeeps ==
    ASSUME RotationInv, NEW r \in Requests, Rollback(r)
    PROVE  RotationInv'
  BY EndKeeps DEF Rollback, RotationInv, TokensTypeOK

LEMMA ReadTokenKeeps ==
    ASSUME RotationInv, NEW r \in Requests, ReadToken(r)
    PROVE  RotationInv'
  <1>1. CASE Rollback(r)
    BY <1>1, RollbackKeeps
  <1>2. CASE /\ \/ Exists(presented[r]) /\ Goto(r, "revoke") /\ UNCHANGED presented
                \/ /\ kind[r] # "refresh" /\ Goto(r, "audit")
                   /\ presented' = [presented EXCEPT ![r] = NoToken]
             /\ UNCHANGED <<token, active, expired, returned, kind, user,
                            fresh, todo, wrote>>
    <2> USE <1>2 DEF ReadToken, Goto
    <2>1. TokensTypeOK'
      BY DEF RotationInv, TokensTypeOK, Steps
    <2>2. ExclusiveLocks'
      BY DEF RotationInv, ExclusiveLocks
    <2>3. RequestShape'
      BY DEF RotationInv, TokensTypeOK, RequestShape
    <2>4. RotationHoldsToken'
      BY RowsKept DEF RotationInv, TokensTypeOK, RotationHoldsToken
    <2>5. InsertedRowsPrivate'
      BY RowsKept DEF RotationInv, TokensTypeOK, InsertedRowsPrivate
    <2>6. OnlyStoredRowsWritten'
      BY RowsKept DEF RotationInv, TokensTypeOK, OnlyStoredRowsWritten
    <2> QED
      BY <2>1, <2>2, <2>3, <2>4, <2>5, <2>6, RowsKept DEF RotationInv
  <1> QED
    BY <1>1, <1>2 DEF ReadToken

LEMMA RevokeTokenKeeps ==
    ASSUME RotationInv, NEW r \in Requests, RevokeToken(r)
    PROVE  RotationInv'
  <1>1. CASE Rollback(r)
    BY <1>1, RollbackKeeps
  <1> DEFINE t == presented[r]
  <1>2. /\ t \in Tokens
        /\ Exists(t)
        /\ kind[r] \in {"refresh", "logout"}
    BY DEF RevokeToken, RotationInv, RequestShape, OnlyStoredRowsWritten
  <1>3. CASE /\ ~Revoked(t)
             /\ Goto(r, IF kind[r] = "refresh" THEN "insert" ELSE "audit")
             /\ wrote' = [wrote EXCEPT ![r] = {t}]
             /\ UNCHANGED <<token, active, expired, returned, kind, user,
                            presented, fresh, todo>>
    <2> USE <1>2, <1>3 DEF RevokeToken, Goto
    <2>1. TokensTypeOK'
      BY DEF RotationInv, TokensTypeOK, Steps
    <2>2. ExclusiveLocks'
      BY DEF RotationInv, TokensTypeOK, ExclusiveLocks, RowLocked
    <2>3. RequestShape'
      BY DEF RotationInv, TokensTypeOK, RequestShape
    <2>4. RotationHoldsToken'
      BY RowsKept DEF RotationInv, TokensTypeOK, RotationHoldsToken
    <2>5. InsertedRowsPrivate'
      BY RowsKept DEF RotationInv, TokensTypeOK, InsertedRowsPrivate
    <2>6. OnlyStoredRowsWritten'
      BY RowsKept DEF RotationInv, TokensTypeOK, OnlyStoredRowsWritten
    <2> QED
      BY <2>1, <2>2, <2>3, <2>4, <2>5, <2>6, RowsKept DEF RotationInv
  <1>4. CASE /\ kind[r] # "refresh"
             /\ Goto(r, "audit")
             /\ UNCHANGED <<token, active, expired, returned, kind, user,
                            presented, fresh, todo, wrote>>
    <2> USE <1>2, <1>4 DEF RevokeToken, Goto
    <2>1. TokensTypeOK'
      BY DEF RotationInv, TokensTypeOK, Steps
    <2>2. ExclusiveLocks'
      BY DEF RotationInv, ExclusiveLocks
    <2>3. RequestShape'
      BY DEF RotationInv, TokensTypeOK, RequestShape
    <2>4. RotationHoldsToken'
      BY RowsKept DEF RotationInv, TokensTypeOK, RotationHoldsToken
    <2>5. InsertedRowsPrivate'
      BY RowsKept DEF RotationInv, TokensTypeOK, InsertedRowsPrivate
    <2>6. OnlyStoredRowsWritten'
      BY RowsKept DEF RotationInv, TokensTypeOK, OnlyStoredRowsWritten
    <2> QED
      BY <2>1, <2>2, <2>3, <2>4, <2>5, <2>6, RowsKept DEF RotationInv
  <1> QED
    BY <1>1, <1>3, <1>4 DEF RevokeToken

LEMMA InsertTokenKeeps ==
    ASSUME RotationInv, NEW r \in Requests, InsertToken(r)
    PROVE  RotationInv'
  <1>0. PICK t \in Unused : fresh' = [fresh EXCEPT ![r] = t]
    BY DEF InsertToken
  <1> USE DEF InsertToken, Goto
  <1>1. TokensTypeOK'
    BY <1>0 DEF RotationInv, TokensTypeOK, Steps, Unused
  <1>2. ExclusiveLocks'
    BY DEF RotationInv, TokensTypeOK, ExclusiveLocks
  <1>3. RequestShape'
    BY <1>0 DEF RotationInv, TokensTypeOK, RequestShape
  <1>4. RotationHoldsToken'
    BY <1>0, RowsKept, TokenAssumption
       DEF RotationInv, TokensTypeOK, RotationHoldsToken, RequestShape, Unused
  <1>5. InsertedRowsPrivate'
    BY <1>0, RowsKept, TokenAssumption
       DEF RotationInv, TokensTypeOK, InsertedRowsPrivate, RequestShape, Unused
  <1>6. OnlyStoredRowsWritten'
    BY RowsKept DEF RotationInv, TokensTypeOK, OnlyStoredRowsWritten
  <1> QED
    BY <1>1, <1>2, <1>3, <1>4, <1>5, <1>6, RowsKept DEF RotationInv

LEMMA UpdateAccountKeeps ==
    ASSUME RotationInv, NEW r \in Requests, UpdateAccount(r)
    PROVE  RotationInv'
  <1> USE DEF UpdateAccount, Goto
  <1>1. TokensTypeOK'
    BY DEF RotationInv, TokensTypeOK, Steps
  <1>2. ExclusiveLocks'
    BY DEF RotationInv, TokensTypeOK, ExclusiveLocks
  <1>3. RequestShape'
    BY DEF RotationInv, TokensTypeOK, RequestShape
  <1>4. RotationHoldsToken'
    BY RowsKept DEF RotationInv, TokensTypeOK, RotationHoldsToken
  <1>5. InsertedRowsPrivate'
    BY RowsKept DEF RotationInv, TokensTypeOK, InsertedRowsPrivate
  <1>6. OnlyStoredRowsWritten'
    BY RowsKept DEF RotationInv, TokensTypeOK, OnlyStoredRowsWritten
  <1> QED
    BY <1>1, <1>2, <1>3, <1>4, <1>5, <1>6, RowsKept DEF RotationInv

LEMMA SelectActiveKeeps ==
    ASSUME RotationInv, NEW r \in Requests, SelectActive(r)
    PROVE  RotationInv'
  <1>0. \A t \in ActiveTokens(user[r]) : Exists(t)
    BY TokenAssumption
       DEF SelectActive, ActiveTokens, Exists, RotationInv, TokensTypeOK, RequestShape
  <1> USE DEF SelectActive, Goto
  <1>1. TokensTypeOK'
    BY DEF RotationInv, TokensTypeOK, Steps, ActiveTokens
  <1>2. ExclusiveLocks'
    BY DEF RotationInv, TokensTypeOK, ExclusiveLocks
  <1>3. RequestShape'
    BY DEF RotationInv, TokensTypeOK, RequestShape
  <1>4. RotationHoldsToken'
    BY RowsKept DEF RotationInv, TokensTypeOK, RotationHoldsToken, RequestShape
  <1>5. InsertedRowsPrivate'
    BY RowsKept DEF RotationInv, TokensTypeOK, InsertedRowsPrivate
  <1>6. OnlyStoredRowsWritten'
    BY <1>0, RowsKept DEF RotationInv, TokensTypeOK, OnlyStoredRowsWritten
  <1> QED
    BY <1>1, <1>2, <1>3, <1>4, <1>5, <1>6, RowsKept DEF RotationInv

LEMMA WriteTokenKeeps ==
    ASSUME RotationInv, NEW r \in Requests, WriteToken(r)
    PROVE  RotationInv'
  <1>0. PICK t \in todo[r] :
           /\ ~RowLocked(r, t)
           /\ wrote' = [wrote EXCEPT ![r] = @ \union {t}]
           /\ todo' = [todo EXCEPT ![r] = @ \ {t}]
           /\ Goto(r, IF todo[r] = {t} THEN "audit" ELSE "write")
    BY DEF WriteToken
  <1>00. kind[r] \in {"logout_all", "deactivate"} /\ t \in Tokens
    BY <1>0 DEF WriteToken, RotationInv, RequestShape, TokensTypeOK
  <1> USE <1>0, <1>00 DEF WriteToken, Goto
  <1>1. TokensTypeOK'
    BY DEF RotationInv, TokensTypeOK, Steps
  <1>2. ExclusiveLocks'
    BY DEF RotationInv, TokensTypeOK, ExclusiveLocks, RowLocked
  <1>3. RequestShape'
    BY DEF RotationInv, TokensTypeOK, RequestShape
  <1>4. RotationHoldsToken'
    BY RowsKept DEF RotationInv, TokensTypeOK, RotationHoldsToken, RequestShape
  <1>5. InsertedRowsPrivate'
    BY RowsKept DEF RotationInv, TokensTypeOK, InsertedRowsPrivate
  <1>6. OnlyStoredRowsWritten'
    BY RowsKept DEF RotationInv, TokensTypeOK, OnlyStoredRowsWritten
  <1> QED
    BY <1>1, <1>2, <1>3, <1>4, <1>5, <1>6, RowsKept DEF RotationInv

LEMMA AuditKeeps ==
    ASSUME RotationInv, NEW r \in Requests, Audit(r)
    PROVE  RotationInv'
  <1> USE DEF Audit, Goto, Return
  <1>1. TokensTypeOK'
    BY DEF RotationInv, TokensTypeOK, Steps
  <1>2. ExclusiveLocks'
    BY DEF RotationInv, TokensTypeOK, ExclusiveLocks
  <1>3. RequestShape'
    BY DEF RotationInv, TokensTypeOK, RequestShape
  <1>4. RotationHoldsToken'
    BY RowsKept DEF RotationInv, TokensTypeOK, RotationHoldsToken, InsertedRowsPrivate
  <1>5. InsertedRowsPrivate'
    BY RowsKept DEF RotationInv, TokensTypeOK, InsertedRowsPrivate
  <1>6. OnlyStoredRowsWritten'
    BY RowsKept DEF RotationInv, TokensTypeOK, OnlyStoredRowsWritten
  <1> QED
    BY <1>1, <1>2, <1>3, <1>4, <1>5, <1>6, RowsKept DEF RotationInv

LEMMA AuditFailsKeeps ==
    ASSUME RotationInv, NEW r \in Requests, AuditFails(r)
    PROVE  RotationInv'
  <1>1. returned' \in [Tokens -> Users \union {NoUser}]
    BY DEF AuditFails, Return, RotationInv, TokensTypeOK
  <1> QED
    BY <1>1, EndKeeps DEF AuditFails

LEMMA ExpireKeeps ==
    ASSUME RotationInv, NEW t \in Tokens, Expire(t)
    PROVE  RotationInv'
  <1> USE DEF Expire, requestVars
  <1>1. TokensTypeOK'
    BY DEF RotationInv, TokensTypeOK
  <1>2. /\ ExclusiveLocks'
        /\ RequestShape'
        /\ RotationHoldsToken'
    BY RowsKept DEF RotationInv, ExclusiveLocks, RequestShape, RotationHoldsToken
  <1>3. /\ InsertedRowsPrivate'
        /\ OnlyStoredRowsWritten'
    BY RowsKept DEF RotationInv, InsertedRowsPrivate, OnlyStoredRowsWritten
  <1> QED
    BY <1>1, <1>2, <1>3, RowsKept DEF RotationInv

(***************************************************************************)
(* Commit: a login adds a row, a refresh adds one and revokes one, every   *)
(* other request only revokes.                                             *)
(***************************************************************************)

LoginCommits(r) ==
    /\ fresh[r] \in Tokens
    /\ ~Exists(fresh[r])
    /\ token' = [token EXCEPT ![fresh[r]] =
                    [owner |-> user[r], by |-> "nobody", parent |-> NoToken]]

RefreshCommits(r) ==
    /\ fresh[r] \in Tokens
    /\ presented[r] \in Tokens
    /\ ~Exists(fresh[r])
    /\ Exists(presented[r])
    /\ ~Revoked(presented[r])
    /\ token' = [t \in Tokens |->
                    IF t = fresh[r]
                    THEN [owner |-> user[r], by |-> "nobody", parent |-> presented[r]]
                    ELSE IF t = presented[r] THEN [token[t] EXCEPT !.by = "rotation"]
                    ELSE token[t]]

RevocationCommits(r) ==
    /\ fresh[r] = NoToken
    /\ token' = [t \in Tokens |->
                    IF t \in wrote[r] /\ ~Revoked(t)
                    THEN [token[t] EXCEPT !.by = "logout"]
                    ELSE token[t]]

LEMMA CommitCases ==
    ASSUME RotationInv, NEW r \in Requests, Commit(r)
    PROVE  \/ LoginCommits(r) /\ wrote[r] = {}
           \/ RefreshCommits(r) /\ wrote[r] = {presented[r]}
           \/ RevocationCommits(r)
  <1> USE TokenAssumption
  <1>1. CASE fresh[r] # NoToken /\ kind[r] = "login"
    <2>1. wrote[r] = {} /\ presented[r] = NoToken
      BY <1>1 DEF RotationInv, RequestShape
    <2>2. fresh[r] \in Tokens /\ ~Exists(fresh[r])
      BY <1>1 DEF RotationInv, TokensTypeOK, InsertedRowsPrivate
    <2>3. LoginCommits(r)
      BY <2>1, <2>2 DEF Commit, CommittedRow, LoginCommits, RotationInv, TokensTypeOK
    <2> QED
      BY <2>1, <2>3
  <1>2. CASE fresh[r] # NoToken /\ kind[r] = "refresh"
    <2>1. /\ wrote[r] = {presented[r]}
          /\ presented[r] \in Tokens
          /\ ~Revoked(presented[r])
      BY <1>2 DEF Commit, RotationInv, RotationHoldsToken
    <2>2. Exists(presented[r])
      BY <2>1 DEF RotationInv, OnlyStoredRowsWritten
    <2>3. fresh[r] \in Tokens /\ ~Exists(fresh[r])
      BY <1>2 DEF RotationInv, TokensTypeOK, InsertedRowsPrivate
    <2>4. RefreshCommits(r)
      BY <1>2, <2>1, <2>2, <2>3 DEF Commit, CommittedRow, Reason, RefreshCommits
    <2> QED
      BY <2>1, <2>4
  <1>3. CASE fresh[r] = NoToken
    <2>1. kind[r] # "refresh"
      BY <1>3 DEF Commit, RotationInv, RotationHoldsToken
    <2>2. RevocationCommits(r)
      BY <1>3, <2>1 DEF Commit, CommittedRow, Reason, RevocationCommits
    <2> QED
      BY <2>2
  <1> QED
    BY <1>1, <1>2, <1>3 DEF RotationInv, InsertedRowsPrivate

LEMMA CommitRows ==
    ASSUME RotationInv, NEW r \in Requests, Commit(r)
    PROVE  /\ token' \in [Tokens -> TokenRow]
           /\ \A t \in Tokens : Exists(t)' <=> Exists(t) \/ t = fresh[r]
           /\ \A t \in Tokens : t # fresh[r] /\ t \notin wrote[r] => token'[t] = token[t]
           /\ RotationIsWhole'
           /\ SingleUse'
           /\ (\A t \in Tokens : ~Exists(t) => token[t] = NoRow)'
           /\ (\A t \in Tokens : token[t].parent # NoToken => Exists(token[t].parent))'
  <1> USE TokenAssumption
  <1>1. /\ token \in [Tokens -> TokenRow]
        /\ user[r] \in Users
        /\ \A t \in Tokens : ~Exists(t) => token[t] = NoRow
        /\ \A t \in Tokens : token[t].parent # NoToken => Exists(token[t].parent)
        /\ RotationIsWhole
        /\ SingleUse
        /\ fresh[r] # NoToken => fresh[r] \in Tokens
    BY DEF Commit, RotationInv, TokensTypeOK, RequestShape, OnlyStoredRowsWritten
  <1>2. CASE LoginCommits(r)
    <2>1. token[fresh[r]] = NoRow
      BY <1>1, <1>2 DEF LoginCommits
    <2> QED
      BY <1>1, <1>2, <2>1
         DEF LoginCommits, TokenRow, NoRow, Exists, RotationIsWhole, SingleUse
  <1>3. CASE RefreshCommits(r) /\ wrote[r] = {presented[r]}
    <2>0. PICK new \in Tokens, old \in Tokens : new = fresh[r] /\ old = presented[r]
      BY <1>3 DEF RefreshCommits
    <2>1. token[new] = NoRow /\ new # old
      BY <1>1, <1>3, <2>0 DEF RefreshCommits
    <2>2. token' \in [Tokens -> TokenRow]
      BY <1>1, <1>3, <2>0, <2>1 DEF RefreshCommits, TokenRow
    <2>3. token[new].owner = NoUser /\ token[new].by = "nobody" /\ token[new].parent = NoToken
      BY <2>1 DEF NoRow
    <2>4. /\ \A t \in Tokens \ {new, old} : token'[t] = token[t]
          /\ token'[new].owner = user[r]
          /\ token'[new].by = "nobody"
          /\ token'[new].parent = old
          /\ token'[old].owner = token[old].owner
          /\ token'[old].by = "rotation"
          /\ token'[old].parent = token[old].parent
      BY <1>1, <1>3, <2>0, <2>1 DEF RefreshCommits, TokenRow
    <2>5. \A t \in Tokens : Exists(t)' <=> Exists(t) \/ t = new
      BY <1>1, <2>1, <2>3, <2>4 DEF Exists
    <2>6. \A t \in Tokens : token[t].parent # old /\ token[t].parent # new
      <3>1. token[old].by # "rotation" /\ ~Exists(new)
        BY <1>3, <2>0 DEF RefreshCommits, Revoked
      <3>2. ASSUME NEW t \in Tokens, token[t].parent = old PROVE FALSE
        BY <1>1, <3>1, <3>2 DEF RotationIsWhole
      <3>3. ASSUME NEW t \in Tokens, token[t].parent = new PROVE FALSE
        BY <1>1, <3>1, <3>3, TokenAssumption
      <3> QED
        BY <3>2, <3>3
    <2>7. RotationIsWhole'
      <3>1. \A t \in Tokens : token'[t].by = "rotation" <=> t = old \/ token[t].by = "rotation"
        BY <2>1, <2>3, <2>4
      <3>2. \A s, t \in Tokens :
              token'[s].parent = t <=> (s = new /\ t = old) \/ token[s].parent = t
        BY <2>1, <2>3, <2>4
      <3> QED
        BY <1>1, <3>1, <3>2 DEF RotationIsWhole
    <2>8. SingleUse'
      BY <1>1, <2>1, <2>3, <2>4, <2>6 DEF SingleUse
    <2>9. (\A t \in Tokens : ~Exists(t) => token[t] = NoRow)'
      BY <1>1, <1>3, <2>0, <2>1, <2>3, <2>5 DEF RefreshCommits
    <2>10. (\A t \in Tokens : token[t].parent # NoToken => Exists(token[t].parent))'
      <3>1. Exists(old)' /\ \A t \in Tokens : Exists(t) => Exists(t)'
        BY <1>3, <2>0, <2>5 DEF RefreshCommits
      <3>2. ASSUME NEW t \in Tokens, NEW p \in Tokens, token'[t].parent = p
            PROVE  Exists(p)'
        <4>1. CASE t = new
          BY <2>4, <3>1, <3>2, <4>1
        <4>2. CASE t # new
          <5>1. token[t].parent = p
            BY <2>4, <3>2, <4>2
          <5> QED
            BY <1>1, <3>1, <5>1
        <4> QED
          BY <4>1, <4>2
      <3>3. \A t \in Tokens : token'[t].parent \in Tokens \union {NoToken}
        BY <2>2 DEF TokenRow
      <3> QED
        BY <3>2, <3>3
    <2> QED
      BY <1>3, <2>0, <2>2, <2>4, <2>5, <2>7, <2>8, <2>9, <2>10
  <1>4. CASE RevocationCommits(r)
    <2>1. /\ token' \in [Tokens -> TokenRow]
          /\ \A t \in Tokens :
               /\ token'[t].owner = token[t].owner
               /\ token'[t].parent = token[t].parent
               /\ token'[t].by = "rotation" <=> token[t].by = "rotation"
          /\ \A t \in Tokens : t \notin wrote[r] => token'[t] = token[t]
      BY <1>1, <1>4 DEF RevocationCommits, TokenRow, Revoked
    <2>2. \A t \in Tokens : Exists(t)' <=> Exists(t)
      BY <2>1 DEF Exists
    <2>3. RotationIsWhole' /\ SingleUse'
      BY <1>1, <2>1 DEF RotationIsWhole, SingleUse
    <2>4. \A t \in Tokens : ~Exists(t) => t \notin wrote[r]
      BY DEF RotationInv, OnlyStoredRowsWritten
    <2>5. (\A t \in Tokens : ~Exists(t) => token[t] = NoRow)'
      BY <1>1, <2>1, <2>2, <2>4
    <2>6. (\A t \in Tokens : token[t].parent # NoToken => Exists(token[t].parent))'
      BY <1>1, <2>1, <2>2 DEF TokenRow
    <2> QED
      BY <1>4, <2>1, <2>2, <2>3, <2>5, <2>6 DEF RevocationCommits
  <1> QED
    BY CommitCases, <1>2, <1>3, <1>4

LEMMA CommitKeeps ==
    ASSUME RotationInv, NEW r \in Requests, Commit(r)
    PROVE  RotationInv'
  <1> USE TokenAssumption DEF Commit, End, Goto
  <1>1. TokensTypeOK'
    BY CommitRows DEF RotationInv, TokensTypeOK, Steps, Kinds
  <1>2. ExclusiveLocks'
    BY DEF RotationInv, TokensTypeOK, ExclusiveLocks
  <1>3. RequestShape'
    BY DEF RotationInv, TokensTypeOK, RequestShape
  \* What the other requests have written or inserted is not what r commits.
  <1>4. ASSUME NEW q \in Requests \ {r}, NEW t \in wrote[q] PROVE token'[t] = token[t]
    <2>1. t \in Tokens /\ t \notin wrote[r] /\ Exists(t)
      BY <1>4 DEF RotationInv, TokensTypeOK, ExclusiveLocks, OnlyStoredRowsWritten
    <2>2. t # fresh[r]
      BY <2>1 DEF RotationInv, InsertedRowsPrivate
    <2> QED
      BY <2>1, <2>2, CommitRows
  <1>5. RotationHoldsToken'
    <2> SUFFICES ASSUME NEW q \in Requests \ {r}, kind[q] = "refresh",
                        pc[q] \in {"insert", "audit", "commit"}
                 PROVE  /\ presented[q] \in Tokens
                        /\ wrote[q] = {presented[q]}
                        /\ ~Revoked(presented[q])'
                        /\ pc[q] \in {"audit", "commit"} => fresh[q] # NoToken
      BY DEF RotationHoldsToken, RotationInv, TokensTypeOK
    <2>1. /\ presented[q] \in Tokens
          /\ wrote[q] = {presented[q]}
          /\ ~Revoked(presented[q])
          /\ pc[q] \in {"audit", "commit"} => fresh[q] # NoToken
      BY DEF RotationInv, RotationHoldsToken
    <2>2. token'[presented[q]] = token[presented[q]]
      BY <1>4, <2>1
    <2> QED
      BY <2>1, <2>2 DEF Revoked
  <1>6. InsertedRowsPrivate'
    <2> SUFFICES ASSUME NEW q \in Requests \ {r}, fresh[q] # NoToken
                 PROVE  /\ pc[q] \in {"audit", "commit"}
                        /\ kind[q] \in {"login", "refresh"}
                        /\ (~Exists(fresh[q]))'
                        /\ \A p \in Requests \ {q} : fresh'[p] # fresh[q]
      BY DEF InsertedRowsPrivate, RotationInv, TokensTypeOK
    <2>1. PICK t \in Tokens : t = fresh[q]
      BY DEF RotationInv, TokensTypeOK
    <2>2. ~Exists(t) /\ t # fresh[r]
      BY <2>1 DEF RotationInv, InsertedRowsPrivate
    <2>3. ~Exists(t)'
      BY <2>2, CommitRows
    <2>4. fresh'[q] = t
      BY <2>1 DEF RotationInv, TokensTypeOK
    <2> QED
      BY <2>1, <2>3, <2>4 DEF RotationInv, TokensTypeOK, InsertedRowsPrivate, Exists
  <1>7. OnlyStoredRowsWritten'
    BY CommitRows DEF RotationInv, TokensTypeOK, OnlyStoredRowsWritten, RequestShape
  <1> QED
    BY <1>1, <1>2, <1>3, <1>5, <1>6, <1>7, CommitRows DEF RotationInv

(***************************************************************************)
(* The theorems.                                                           *)
(***************************************************************************)

LEMMA NextKeeps == RotationInv /\ [Next]_vars => RotationInv'
  <1> SUFFICES ASSUME RotationInv, [Next]_vars PROVE RotationInv'
    OBVIOUS
  <1>1. ASSUME NEW r \in Requests, Arrive(r) PROVE RotationInv'
    BY <1>1, ArriveKeeps
  <1>2. ASSUME NEW r \in Requests, Proceed(r) PROVE RotationInv'
    BY <1>2, ReadTokenKeeps, RevokeTokenKeeps, InsertTokenKeeps, UpdateAccountKeeps,
       SelectActiveKeeps, WriteTokenKeeps, AuditKeeps, CommitKeeps
       DEF Proceed
  <1>3. ASSUME NEW r \in Requests, AuditFails(r) PROVE RotationInv'
    BY <1>3, AuditFailsKeeps
  <1>4. ASSUME NEW r \in Requests, Abort(r) PROVE RotationInv'
    BY <1>4, RollbackKeeps DEF Abort
  <1>5. ASSUME NEW t \in Tokens, Expire(t) PROVE RotationInv'
    BY <1>5, ExpireKeeps
  <1>6. ASSUME UNCHANGED vars PROVE RotationInv'
    <2> USE <1>6 DEF vars
    <2>1. TokensTypeOK' /\ ExclusiveLocks' /\ RequestShape'
      BY DEF RotationInv, TokensTypeOK, ExclusiveLocks, RequestShape
    <2>2. RotationHoldsToken' /\ InsertedRowsPrivate' /\ OnlyStoredRowsWritten'
      BY RowsKept
         DEF RotationInv, RotationHoldsToken, InsertedRowsPrivate, OnlyStoredRowsWritten
    <2> QED
      BY <2>1, <2>2, RowsKept DEF RotationInv
  <1> QED
    BY <1>1, <1>2, <1>3, <1>4, <1>5, <1>6 DEF Next, RefuseAll

THEOREM RotationInvariance == Spec => []RotationInv
  <1>1. Init => RotationInv
    BY InitRotation
  <1>2. RotationInv /\ [Next]_vars => RotationInv'
    BY NextKeeps
  <1> QED
    BY <1>1, <1>2, PTL DEF Spec

\* Every variable keeps its type.
THEOREM TokensTypeCorrect == Spec => []TokensTypeOK
  BY RotationInvariance, PTL DEF RotationInv

\* No refresh token is ever exchanged for two others (refresh, auth_service.py:487).
THEOREM TokensAreSingleUse == Spec => []SingleUse
  BY RotationInvariance, PTL DEF RotationInv

\* A token is revoked by a rotation exactly if it has a successor in the table.
THEOREM RotationsAreWhole == Spec => []RotationIsWhole
  BY RotationInvariance, PTL DEF RotationInv

LEMMA OnlyCommitWritesRows ==
    ASSUME [Next]_vars
    PROVE  (\E r \in Requests : Commit(r)) \/ UNCHANGED token
  BY DEF Next, vars, Arrive, Login, Refresh, Logout, LogoutAll, Deactivate, Begin,
         Proceed, ReadToken, RevokeToken, InsertToken, UpdateAccount, SelectActive,
         WriteToken, Audit, AuditFails, Abort, Rollback, Expire, RefuseAll

(***************************************************************************)
(* A logout past its UPDATE has the token revoked, or holds it: what it saw*)
(* is committed and stays.                                                 *)
(***************************************************************************)

LogoutHoldsToken ==
    \A r \in Requests :
        kind[r] = "logout" /\ pc[r] \in {"audit", "commit"} /\ presented[r] # NoToken
            => Revoked(presented[r]) \/ presented[r] \in wrote[r]

\* A revoked row stays revoked.
LEMMA RevokedStays ==
    ASSUME RotationInv, [Next]_vars, NEW t \in Tokens, Revoked(t)
    PROVE  Revoked(t)'
  <1>1. CASE UNCHANGED token
    BY <1>1 DEF Revoked
  <1>2. ASSUME NEW q \in Requests, Commit(q) PROVE Revoked(t)'
    <2>1. Exists(t)
      BY DEF Revoked, NoRow, RotationInv, OnlyStoredRowsWritten
    <2>2. t # fresh[q]
      BY <2>1, TokenAssumption DEF RotationInv, InsertedRowsPrivate
    <2>3. token'[t] = token[t]
      BY <1>2, <2>2 DEF Commit, CommittedRow
    <2> QED
      BY <2>3 DEF Revoked
  <1> QED
    BY <1>1, <1>2, OnlyCommitWritesRows

LEMMA LogoutHoldsKept ==
    ASSUME RotationInv, LogoutHoldsToken, [Next]_vars
    PROVE  LogoutHoldsToken'
  <1> DEFINE Holds(r) ==
                kind[r] = "logout" /\ pc[r] \in {"audit", "commit"} /\ presented[r] # NoToken
                    => Revoked(presented[r]) \/ presented[r] \in wrote[r]
  <1>1. SUFFICES ASSUME NEW r \in Requests PROVE Holds(r)'
    BY DEF LogoutHoldsToken
  <1>2. /\ pc \in [Requests -> Steps] /\ kind \in [Requests -> Kinds]
        /\ presented \in [Requests -> Tokens \union {NoToken}]
        /\ wrote \in [Requests -> SUBSET Tokens] /\ Holds(r)
    BY DEF RotationInv, TokensTypeOK, LogoutHoldsToken
  <1>3. CASE UNCHANGED <<pc, kind, presented, wrote>>
    <2>1. presented[r] # NoToken /\ Revoked(presented[r]) => token'[presented[r]].by # "nobody"
      BY <1>2, RevokedStays DEF Revoked
    <2> QED
      BY <1>2, <1>3, <2>1 DEF Revoked
  <1>4. ASSUME NEW q \in Requests \ {r},
               pc'[r] = pc[r], kind'[r] = kind[r], presented'[r] = presented[r], wrote'[r] = wrote[r]
        PROVE  Holds(r)'
    <2>1. presented[r] # NoToken /\ Revoked(presented[r]) => token'[presented[r]].by # "nobody"
      BY <1>2, RevokedStays DEF Revoked
    <2> QED
      BY <1>2, <1>4, <2>1 DEF Revoked
  <1>5. ASSUME NEW q \in Requests, Arrive(q) PROVE Holds(r)'
    <2>1. CASE q = r
      BY <1>2, <1>5, <2>1
         DEF Arrive, Login, LogoutAll, Deactivate, Refresh, Logout, Begin, Goto
    <2>2. CASE q # r
      BY <1>2, <1>4, <1>5, <2>2
         DEF Arrive, Login, LogoutAll, Deactivate, Refresh, Logout, Begin, Goto
    <2> QED
      BY <2>1, <2>2
  <1>6. ASSUME NEW q \in Requests, End(q) PROVE Holds(r)'
    <2>1. CASE q = r
      BY <1>2, <1>6, <2>1 DEF End, Goto
    <2>2. CASE q # r
      BY <1>2, <1>4, <1>6, <2>2 DEF End, Goto
    <2> QED
      BY <2>1, <2>2
  <1>7. ASSUME NEW q \in Requests \ {r}, Proceed(q) PROVE Holds(r)'
    <2>1. CASE End(q)
      BY <1>6, <2>1
    <2>2. CASE ~ End(q)
      BY <1>2, <1>4, <1>7, <2>2
         DEF Proceed, ReadToken, RevokeToken, InsertToken, UpdateAccount, SelectActive,
             WriteToken, Audit, Commit, Rollback, Goto
    <2> QED
      BY <2>1, <2>2
  <1>8. ASSUME Proceed(r) PROVE Holds(r)'
    <2>1. CASE ReadToken(r)
      <3>1. CASE Rollback(r)
        BY <1>6, <3>1 DEF Rollback
      <3>2. CASE ~ Rollback(r)
        BY <1>2, <2>1, <3>2 DEF ReadToken, Goto
      <3> QED
        BY <3>1, <3>2
    <2>2. CASE RevokeToken(r)
      <3>1. CASE Rollback(r)
        BY <1>6, <3>1 DEF Rollback
      <3>2. CASE ~ Rollback(r)
        BY <1>2, <2>2, <3>2 DEF RevokeToken, Goto, Revoked
      <3> QED
        BY <3>1, <3>2
    <2>3. CASE InsertToken(r) \/ UpdateAccount(r) \/ SelectActive(r) \/ WriteToken(r)
      BY <1>2, <2>3 DEF InsertToken, UpdateAccount, SelectActive, WriteToken,
                        RotationInv, RequestShape
    <2>4. CASE Audit(r)
      BY <1>2, <2>4 DEF Audit, Goto, Revoked
    <2>5. CASE Commit(r)
      BY <1>6, <2>5 DEF Commit
    <2> QED
      BY <1>8, <2>1, <2>2, <2>3, <2>4, <2>5 DEF Proceed
  <1> QED
    BY <1>3, <1>5, <1>6, <1>7, <1>8
       DEF Next, AuditFails, Abort, Rollback, Expire, RefuseAll, vars, requestVars

\* A device's logout that found the row of its token leaves it revoked when it commits,
\* whatever ran beside it (logout, auth_service.py:648).
THEOREM LogoutsRevoke == Spec => LogoutRevokes
  <1>1. Init => LogoutHoldsToken
    BY DEF Init, LogoutHoldsToken
  <1>2. RotationInv /\ LogoutHoldsToken /\ [Next]_vars => LogoutHoldsToken'
    BY LogoutHoldsKept
  <1>3. ASSUME RotationInv, LogoutHoldsToken, NEW r \in Requests,
               kind[r] = "logout", presented[r] # NoToken, Commit(r)
        PROVE  token'[presented[r]].by # "nobody"
    <2>1. PICK t \in Tokens : t = presented[r]
      BY <1>3 DEF RotationInv, TokensTypeOK
    <2>2. pc[r] = "commit" /\ (Revoked(t) \/ t \in wrote[r])
      BY <1>3, <2>1 DEF Commit, LogoutHoldsToken
    <2>3. fresh[r] = NoToken /\ t # fresh[r]
      BY <1>3, TokenAssumption DEF RotationInv, InsertedRowsPrivate
    <2>4. token[t] \in TokenRow /\ token'[t] = CommittedRow(r, t)
      BY <1>3 DEF Commit, RotationInv, TokensTypeOK
    <2>5. token'[t].by # "nobody"
      BY <1>3, <2>2, <2>3, <2>4 DEF CommittedRow, Revoked, Reason, TokenRow
    <2> QED
      BY <2>1, <2>5
  <1>4. RotationInv /\ LogoutHoldsToken /\ [Next]_vars
          => [\A r \in Requests : kind[r] = "logout" /\ presented[r] # NoToken /\ Commit(r)
                => token'[presented[r]].by # "nobody"]_vars
    BY <1>3
  <1> QED
    BY <1>1, <1>2, <1>4, RotationInvariance, PTL DEF Spec, LogoutRevokes

(***************************************************************************)
(* Refinement: what Commit does to the rows is one step of SingleUseTokens.*)
(***************************************************************************)

LEMMA StatusValue ==
    ASSUME NEW t \in Tokens
    PROVE  /\ Status[t] = "unissued" <=> ~Exists(t)
           /\ Status[t] = "live" <=> Exists(t) /\ ~Revoked(t)
  BY DEF Status

LEMMA RowsUnchanged ==
    UNCHANGED token => UNCHANGED <<Status, Predecessor>>
  BY DEF Status, Predecessor, Exists, Revoked

LEMMA InitImplements == Init => Abstract!Init
  BY DEF Init, Abstract!Init, Status, Predecessor, Exists, NoRow

LEMMA LoginImplements ==
    ASSUME RotationInv, NEW r \in Requests, Commit(r), LoginCommits(r)
    PROVE  Abstract!Next
  <1> USE TokenAssumption
  <1>0. PICK new \in Tokens : new = fresh[r]
    BY DEF LoginCommits
  <1>1. /\ token \in [Tokens -> TokenRow]
        /\ user[r] \in Users
        /\ token[new] = NoRow
    BY <1>0 DEF LoginCommits, Commit, RotationInv, TokensTypeOK, RequestShape,
               OnlyStoredRowsWritten
  <1>2. /\ \A t \in Tokens \ {new} : token'[t] = token[t]
        /\ token'[new].owner = user[r]
        /\ token'[new].by = "nobody"
        /\ token'[new].parent = token[new].parent
    BY <1>0, <1>1 DEF LoginCommits, NoRow
  <1>3. Status[new] = "unissued"
    BY <1>1 DEF Status, Exists, NoRow
  <1>4. Status' = [Status EXCEPT ![new] = "live"]
    BY <1>1, <1>2 DEF Status, Exists, Revoked
  <1>5. Predecessor' = Predecessor
    BY <1>2 DEF Predecessor
  <1> QED
    BY <1>3, <1>4, <1>5 DEF Abstract!Next, Abstract!Issue

LEMMA RefreshImplements ==
    ASSUME RotationInv, NEW r \in Requests, Commit(r), RefreshCommits(r)
    PROVE  Abstract!Next
  <1> USE TokenAssumption
  <1>0. PICK new \in Tokens, old \in Tokens : new = fresh[r] /\ old = presented[r]
    BY DEF RefreshCommits
  <1>1. /\ token \in [Tokens -> TokenRow]
        /\ user[r] \in Users
        /\ new # old
        /\ ~Exists(new)
        /\ Exists(old) /\ ~Revoked(old)
    BY <1>0 DEF RefreshCommits, Commit, RotationInv, TokensTypeOK, RequestShape
  <1>2. /\ \A t \in Tokens \ {new, old} : token'[t] = token[t]
        /\ token'[new].owner = user[r]
        /\ token'[new].by = "nobody"
        /\ token'[new].parent = old
        /\ token'[old].owner = token[old].owner
        /\ token'[old].by = "rotation"
        /\ token'[old].parent = token[old].parent
    BY <1>0, <1>1 DEF RefreshCommits, TokenRow
  <1>3. Status[old] = "live" /\ Status[new] = "unissued"
    BY <1>1, StatusValue
  <1>4. Status' = [Status EXCEPT ![old] = "exchanged", ![new] = "live"]
    <2>1. /\ Status' = [t \in Tokens |-> Status'[t]]
          /\ Status = [t \in Tokens |-> Status[t]]
      BY DEF Status
    <2>2. \A t \in Tokens \ {new, old} : Status'[t] = Status[t]
      BY <1>2 DEF Status, Exists, Revoked
    <2>3. Status'[new] = "live" /\ Status'[old] = "exchanged"
      BY <1>1, <1>2 DEF Status, Exists, Revoked
    <2> QED
      BY <1>1, <2>1, <2>2, <2>3
  <1>5. Predecessor' = [Predecessor EXCEPT ![new] = old]
    BY <1>1, <1>2 DEF Predecessor
  <1> QED
    BY <1>3, <1>4, <1>5 DEF Abstract!Next, Abstract!Exchange

LEMMA RevocationImplements ==
    ASSUME RotationInv, NEW r \in Requests, Commit(r), RevocationCommits(r)
    PROVE  Abstract!Next
  <1>0. PICK S \in SUBSET Tokens : S = {t \in Tokens : t \in wrote[r] /\ ~Revoked(t)}
    OBVIOUS
  <1>1. /\ token \in [Tokens -> TokenRow]
        /\ \A t \in S : Exists(t) /\ ~Revoked(t)
    BY <1>0 DEF RotationInv, TokensTypeOK, OnlyStoredRowsWritten
  <1>2. /\ \A t \in Tokens : token'[t].owner = token[t].owner
        /\ \A t \in Tokens : token'[t].parent = token[t].parent
        /\ \A t \in Tokens : token'[t].by = IF t \in S THEN "logout" ELSE token[t].by
    BY <1>0, <1>1 DEF RevocationCommits, TokenRow
  <1>3. \A t \in S : Status[t] = "live"
    BY <1>1, StatusValue
  <1>4. Status' = [t \in Tokens |-> IF t \in S THEN "withdrawn" ELSE Status[t]]
    BY <1>1, <1>2 DEF Status, Exists, Revoked
  <1>5. Predecessor' = Predecessor
    BY <1>2 DEF Predecessor
  <1> QED
    BY <1>3, <1>4, <1>5 DEF Abstract!Next, Abstract!Withdraw

LEMMA StepImplements ==
    RotationInv /\ [Next]_vars => [Abstract!Next]_(Abstract!tokenVars)
  <1> SUFFICES ASSUME RotationInv, [Next]_vars
               PROVE  [Abstract!Next]_(Abstract!tokenVars)
    OBVIOUS
  <1>1. CASE UNCHANGED token
    BY <1>1, RowsUnchanged DEF Abstract!tokenVars
  <1>2. ASSUME NEW r \in Requests, Commit(r) PROVE Abstract!Next
    BY <1>2, CommitCases, LoginImplements, RefreshImplements, RevocationImplements
  <1> QED
    BY <1>1, <1>2, OnlyCommitWritesRows

\* Whatever the requests do and however they interleave, the table of tokens only
\* ever makes the steps of SingleUseTokens.
THEOREM RotationImplementsSingleUse == Spec => ImplementsSingleUse
  <1>1. Init => Abstract!Init
    BY InitImplements
  <1>2. RotationInv /\ [Next]_vars => [Abstract!Next]_(Abstract!tokenVars)
    BY StepImplements
  <1> QED
    BY <1>1, <1>2, RotationInvariance, PTL DEF Spec, ImplementsSingleUse

(***************************************************************************)
(* Nobody waits in a circle.  Each transaction locks in the order in which *)
(* it waits; so the request whose awaited row is the greatest waits for a  *)
(* request that waits for nobody.                                          *)
(***************************************************************************)

\* A finite set of integers that is not empty has a greatest element.
LEMMA Greatest ==
    ASSUME NEW S \in SUBSET Int, IsFiniteSet(S), S # {}
    PROVE  \E m \in S : \A x \in S : x <= m
  <1> DEFINE Above(m) == {x \in S : m < x}
             Aboves == {Above(m) : m \in S}
  <1>1. IsWellFoundedOn(StrictSubsetOrdering(S), FiniteSubsetsOf(S))
    BY FS_StrictSubsetOrderingWellFounded
  <1>2. Aboves # {} /\ Aboves \subseteq FiniteSubsetsOf(S)
    <2>1. FiniteSubsetsOf(S) = SUBSET S
      BY FS_FiniteSubsetsOfFinite
    <2>2. Aboves # {} /\ Aboves \subseteq SUBSET S
      OBVIOUS
    <2> QED
      BY <2>1, <2>2, Zenon
  <1>3. PICK U \in Aboves : \A V \in Aboves : <<V, U>> \notin StrictSubsetOrdering(S)
    <2> HIDE DEF Aboves
    <2> QED
      BY <1>1, <1>2, WFMin
  <1>4. PICK m \in S : U = Above(m)
    BY <1>3
  <1>5. ASSUME NEW x \in S, m < x PROVE FALSE
    <2>1. Above(x) \in Aboves
      OBVIOUS
    <2>2. ASSUME NEW z \in Above(x) PROVE z \in Above(m)
      <3>1. z \in Int /\ x \in Int /\ m \in Int /\ x < z
        OBVIOUS
      <3> QED
        BY <1>5, <3>1
    <2>3. x \in Above(m) /\ x \notin Above(x)
      BY <1>5
    <2>4. <<Above(x), Above(m)>> \in StrictSubsetOrdering(S)
      BY <2>2, <2>3 DEF StrictSubsetOrdering
    <2> QED
      BY <1>3, <1>4, <2>1, <2>4
  <1> QED
    BY <1>5

\* And a least.
LEMMA Least ==
    ASSUME NEW S \in SUBSET Int, IsFiniteSet(S), S # {}
    PROVE  \E m \in S : \A x \in S : m <= x
  <1> DEFINE Minus == {-x : x \in S}
  <1>1. Minus \in SUBSET Int /\ Minus # {}
    OBVIOUS
  <1>2. IsFiniteSet(Minus)
    <2> DEFINE minus == [x \in S |-> -x]
    <2>1. minus \in Surjection(S, Minus)
      BY DEF Surjection
    <2> QED
      BY <2>1, FS_Surjection
  <1>3. PICK y \in Minus : \A x \in Minus : x <= y
    <2> HIDE DEF Minus
    <2> QED
      BY <1>1, <1>2, Greatest
  <1>4. PICK m \in S : y = -m
    BY <1>3
  <1>5. ASSUME NEW x \in S PROVE m <= x
    <2>1. -x <= -m
      BY <1>3, <1>4
    <2> QED
      BY <2>1
  <1> QED
    BY <1>5

\* Whoever holds a row of tokens and waits, waits inside revoke_all_for_user.
LEMMA HolderWaitsInOrder ==
    ASSUME WaitOrder, NEW q \in Requests, Waits(q), NEW t \in wrote[q]
    PROVE  pc[q] = "write"
  BY DEF WaitOrder, LocksInOrder, Waits

LEMMA NobodyInACircle == WaitOrder => NoCircularWait
  <1> SUFFICES ASSUME WaitOrder,
                      NEW r0 \in Requests, pc[r0] # "idle",
                      \A r \in Requests : pc[r] # "idle" => Waits(r)
               PROVE  FALSE
    BY DEF NoCircularWait
  <1> DEFINE Stored == {t \in Tokens : Exists(t)}
             First(r, t) == t \in todo[r] /\ \A s \in todo[r] : t <= s
             Awaited == {t \in Stored : \E r \in Requests : pc[r] = "write" /\ First(r, t)}
  <1>1. IsFiniteSet(Stored) /\ Stored \in SUBSET Int
    BY TokenAssumption DEF WaitOrder, LocksInOrder
  <1>2. ASSUME NEW r \in Requests, pc[r] = "write"
        PROVE  \E t \in Awaited : First(r, t)
    <2>1. todo[r] # {} /\ todo[r] \in SUBSET Stored
      BY <1>2 DEF WaitOrder, LocksInOrder, RotationInv, OnlyStoredRowsWritten, TokensTypeOK
    <2>2. IsFiniteSet(todo[r]) /\ todo[r] \in SUBSET Int
      BY <1>1, <2>1, FS_Subset
    <2>3. PICK t \in todo[r] : \A s \in todo[r] : t <= s
      BY <2>1, <2>2, Least
    <2> QED
      BY <1>2, <2>1, <2>3
  <1>3. ASSUME NEW r \in Requests, NEW t \in Tokens, RowLocked(r, t)
        PROVE  \E q \in Requests : t \in wrote[q] /\ pc[q] = "write"
    <2>1. PICK q \in Requests : t \in wrote[q]
      BY <1>3 DEF RowLocked
    <2>2. pc[q] # "idle"
      BY <2>1 DEF WaitOrder, RotationInv, RequestShape
    <2> QED
      BY <2>1, <2>2, HolderWaitsInOrder
  <1>4. \E r \in Requests : pc[r] = "write"
    <2>1. CASE pc[r0] = "revoke" /\ RowLocked(r0, presented[r0])
      BY <2>1, <1>3 DEF WaitOrder, RotationInv, RequestShape
    <2>2. CASE pc[r0] = "account" /\ AccountLocked(r0, user[r0])
      <3>1. PICK q \in Requests : kind[q] = "deactivate" /\ pc[q] \notin {"idle", "account"}
        BY <2>2 DEF AccountLocked
      <3>2. pc[q] \in {"revoke", "write"}
        BY <3>1 DEF Waits
      <3> QED
        BY <3>1, <3>2 DEF WaitOrder, RotationInv, RequestShape
    <2>3. CASE pc[r0] = "write"
      BY <2>3
    <2> QED
      BY <2>1, <2>2, <2>3 DEF Waits
  <1>5. PICK m \in Awaited : \A t \in Awaited : t <= m
    <2>1. Awaited # {}
      BY <1>2, <1>4
    <2>2. IsFiniteSet(Awaited) /\ Awaited \in SUBSET Int
      BY <1>1, FS_Subset
    <2> HIDE DEF Awaited
    <2> QED
      BY <2>1, <2>2, Greatest
  <1>6. PICK r \in Requests : pc[r] = "write" /\ First(r, m)
    BY <1>5
  <1>7. RowLocked(r, m)
    <2>1. PICK t \in todo[r] : (\A s \in todo[r] : t <= s) /\ RowLocked(r, t)
      BY <1>6 DEF Waits
    <2>2. t \in Int /\ m \in Int
      BY <1>1, <1>5, TokenAssumption DEF WaitOrder, RotationInv, TokensTypeOK
    <2>3. t = m
      BY <1>6, <2>1, <2>2
    <2> QED
      BY <2>1, <2>3
  <1>8. PICK q \in Requests : m \in wrote[q] /\ pc[q] = "write"
    BY <1>3, <1>7
  <1>9. PICK t \in Awaited : First(q, t)
    BY <1>2, <1>8
  <1>10. m < t
    BY <1>8, <1>9 DEF WaitOrder, LocksInOrder
  <1> QED
    BY <1>1, <1>5, <1>9, <1>10

LEMMA StoredStayFinite ==
    ASSUME RotationInv, [Next]_vars, IsFiniteSet({t \in Tokens : Exists(t)})
    PROVE  IsFiniteSet({t \in Tokens : Exists(t)}')
  <1> DEFINE Stored == {t \in Tokens : Exists(t)}
  <1>1. CASE UNCHANGED token
    BY <1>1 DEF Exists
  <1>2. ASSUME NEW r \in Requests, Commit(r) PROVE IsFiniteSet(Stored')
    <2>1. IsFiniteSet(Stored \union {fresh[r]})
      BY FS_AddElement
    <2>2. Stored' \subseteq Stored \union {fresh[r]}
      BY <1>2 DEF Commit, CommittedRow, Exists, RotationInv, TokensTypeOK, TokenRow
    <2> QED
      BY <2>1, <2>2, FS_Subset
  <1> QED
    BY <1>1, <1>2, OnlyCommitWritesRows

LEMMA InitOrder == Init => LocksInOrder
  <1> SUFFICES ASSUME Init PROVE LocksInOrder
    OBVIOUS
  <1>1. {t \in Tokens : Exists(t)} = {}
    BY DEF Init, Exists, NoRow
  <1> QED
    BY <1>1, FS_EmptySet DEF Init, LocksInOrder

LEMMA OrderKept ==
    ASSUME RotationInv, LocksInOrder, [Next]_vars
    PROVE  LocksInOrder'
  <1> USE DEF Goto
  <1> DEFINE Ordered(r) ==
                /\ pc[r] \in {"read", "revoke", "account", "select"} => wrote[r] = {}
                /\ pc[r] = "write" =>
                      todo[r] # {} /\ \A t \in wrote[r], s \in todo[r] : t < s
  <1>1. /\ pc \in [Requests -> Steps]
        /\ todo \in [Requests -> SUBSET Tokens]
        /\ wrote \in [Requests -> SUBSET Tokens]
    BY DEF RotationInv, TokensTypeOK
  <1>2. \A r \in Requests : Ordered(r) /\ (pc[r] = "idle" => wrote[r] = {})
    BY DEF LocksInOrder, RotationInv, RequestShape
  <1>3. SUFFICES ASSUME NEW r \in Requests PROVE Ordered(r)'
    BY StoredStayFinite DEF LocksInOrder
  <1>4. ASSUME NEW q \in Requests, Arrive(q) PROVE Ordered(r)'
    BY <1>1, <1>2, <1>4
       DEF Arrive, Login, LogoutAll, Deactivate, Refresh, Logout, Begin
  <1>5. ASSUME NEW q \in Requests, End(q) PROVE Ordered(r)'
    BY <1>1, <1>2, <1>5 DEF End
  <1>6. ASSUME NEW q \in Requests, Proceed(q) PROVE Ordered(r)'
    <2>1. CASE ReadToken(q)
      BY <1>1, <1>2, <1>5, <2>1 DEF ReadToken, Rollback
    <2>2. CASE RevokeToken(q)
      BY <1>1, <1>2, <1>5, <2>2 DEF RevokeToken, Rollback
    <2>3. CASE InsertToken(q) \/ UpdateAccount(q) \/ Audit(q)
      BY <1>1, <1>2, <2>3 DEF InsertToken, UpdateAccount, Audit
    <2>4. CASE SelectActive(q)
      BY <1>1, <1>2, <2>4 DEF SelectActive
    <2>5. CASE WriteToken(q)
      <3>1. PICK t \in todo[q] :
               /\ \A s \in todo[q] : t <= s
               /\ wrote' = [wrote EXCEPT ![q] = @ \union {t}]
               /\ todo' = [todo EXCEPT ![q] = @ \ {t}]
               /\ pc' = [pc EXCEPT ![q] = IF todo[q] = {t} THEN "audit" ELSE "write"]
               /\ pc[q] = "write"
        BY <2>5 DEF WriteToken
      <3>2. CASE q # r
        BY <1>1, <1>2, <3>1, <3>2
      <3>3. ASSUME q = r, pc'[r] = "write",
                   NEW w \in wrote'[r], NEW s \in todo'[r]
            PROVE  w < s
        <4>1. w \in wrote[r] \union {t} /\ s \in todo[r] \ {t}
          BY <1>1, <3>1, <3>3
        <4>2. w \in Int /\ s \in Int /\ t \in Int
          BY <1>1, <3>1, <3>3, <4>1, TokenAssumption
        <4>3. t <= s /\ t # s
          BY <3>1, <3>3, <4>1
        <4> QED
          BY <1>2, <3>1, <3>3, <4>1, <4>2, <4>3
      <3>4. CASE q = r
        <4>1. pc'[r] \in {"audit", "write"} /\ (pc'[r] = "write" => todo'[r] # {})
          BY <1>1, <3>1, <3>4
        <4> QED
          BY <4>1, <3>3, <3>4
      <3> QED
        BY <3>2, <3>4
    <2>6. CASE Commit(q)
      BY <1>5, <2>6 DEF Commit
    <2> QED
      BY <1>6, <2>1, <2>2, <2>3, <2>4, <2>5, <2>6 DEF Proceed
  <1>7. ASSUME UNCHANGED <<pc, todo, wrote>> PROVE Ordered(r)'
    BY <1>2, <1>7
  <1> QED
    BY <1>4, <1>5, <1>6, <1>7
       DEF Next, AuditFails, Abort, Rollback, Expire, RefuseAll, vars, requestVars

THEOREM WaitsInvariance == Spec => []WaitInv
  <1>1. Init => LocksInOrder
    BY InitOrder
  <1>2. RotationInv /\ LocksInOrder /\ [Next]_vars => LocksInOrder'
    BY OrderKept
  <1>3. RotationInv /\ LocksInOrder => WaitInv
    BY NobodyInACircle DEF WaitInv, WaitOrder
  <1> QED
    BY <1>1, <1>2, <1>3, RotationInvariance, PTL DEF Spec

\* However many requests revoke, rotate and deactivate at the same time, one of
\* them is never kept waiting (refresh_token.py:302, user_service.py:191).
THEOREM NobodyWaitsInACircle == Spec => []NoCircularWait
  BY WaitsInvariance, PTL DEF WaitInv
================================================================================
