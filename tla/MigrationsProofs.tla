--------------------------- MODULE MigrationsProofs ---------------------------
(***************************************************************************)
(* Proofs about the Alembic history, for any rows.  The schema of every    *)
(* revision is written down in closed form, SchemaAt, table by table; each *)
(* upgrade turns it into that of the next revision and each downgrade into *)
(* that of the one before.  So a downgrade undoes its upgrade, the head    *)
(* has the tables the models declare, and the schema of a revision tells   *)
(* which side of the relation of uploads and assets it has: from which it  *)
(* follows that no path of migrations loses or invents a link.             *)
(***************************************************************************)
EXTENDS Migrations, TLAPS

-----------------------------------------------------------------------------
(* The schema of each revision in closed form. *)

(* The revision that creates each table, in the order of History.          *)
Since == [users |-> 1, uploads |-> 2, digital_assets |-> 3, analyses |-> 4,
          audit_logs |-> 5, user_refresh_tokens |-> 6, reports |-> 7]

(* The tables that later revisions leave. *)
WideUsers == Table([UsersTable.columns EXCEPT !["password_hash"] = Req("varchar(255)")],
                   UsersTable.constraints)
NamelessUsers == Table([WideUsers.columns EXCEPT !["full_name"] = Opt("varchar(255)")],
                       UsersTable.constraints)

DeletedAt == Entry("deleted_at", Opt("timestamptz"))
DeletedUploads  == Table(UploadsTable.columns ++ DeletedAt, UploadsTable.constraints)
DeletedAnalyses == Table(AnalysesTable.columns ++ DeletedAt, AnalysesTable.constraints)

LinkedUploads == Table(DeletedUploads.columns ++ Entry("digital_asset_id", Opt("uuid")),
                       DeletedUploads.constraints \union {UploadAsset} \union {AssetCompleted})
KeyedUploads  == Table(LinkedUploads.columns ++ Entry("idempotency_key", Opt("varchar(255)")),
                       LinkedUploads.constraints \union {IdempotencyKey})

ContentAssets == Table(DigitalAssetsTable.columns ++ ContentColumns,
                       (DigitalAssetsTable.constraints \ {GlobalValue})
                           \union {OwnValue, UniqueContent} \union ContentChecks)
FreeAssets    == Table(Restrict(ContentAssets.columns,
                                DOMAIN ContentAssets.columns \ {"upload_id"}),
                       (ContentAssets.constraints \ {FileUpload}) \ {AssetUpload})

JtiColumn == Entry("jti", Opt("varchar(256)"))
JtiTokens == Table([RefreshTokensTable.columns ++ JtiColumn EXCEPT !["jti"] = Req("varchar(256)")],
                   RefreshTokensTable.constraints \union {Unique({"jti"})})

TableAt(t, n) ==
    CASE t = "users" ->
             IF n < 8 THEN UsersTable ELSE IF n < 10 THEN WideUsers ELSE NamelessUsers
      [] t = "uploads" ->
             IF n < 11 THEN UploadsTable ELSE IF n < 13 THEN DeletedUploads
             ELSE IF n < 14 THEN LinkedUploads ELSE KeyedUploads
      [] t = "digital_assets" ->
             IF n < 12 THEN DigitalAssetsTable ELSE IF n < 13 THEN ContentAssets ELSE FreeAssets
      [] t = "analyses" -> IF n < 11 THEN AnalysesTable ELSE DeletedAnalyses
      [] t = "audit_logs" -> AuditLogsTable
      [] t = "user_refresh_tokens" -> IF n < 9 THEN RefreshTokensTable ELSE JtiTokens
      [] t = "reports" -> ReportsTable

TablesAt(n) == {t \in DOMAIN Since : Since[t] <= n}
SchemaAt(n) == [t \in TablesAt(n) |-> TableAt(t, n)]

Put(s, t, table) == [s EXCEPT ![t] = table]

-----------------------------------------------------------------------------
(* Operations on schemas are operations on one table. *)

LEMMA OnOneTable ==
    ASSUME NEW s, NEW t \in DOMAIN s, NEW C, NEW K, s[t] = Table(C, K)
    PROVE  /\ \A c, k : AddColumn(s, t, c, k) = Put(s, t, Table(C ++ Entry(c, k), K))
           /\ \A c : DropColumn(s, t, c) = Put(s, t, Table(Restrict(C, DOMAIN C \ {c}), K))
           /\ \A c, k : AlterColumn(s, t, c, k) = Put(s, t, Table([C EXCEPT ![c] = k], K))
           /\ \A k : AddConstraint(s, t, k) = Put(s, t, Table(C, K \union {k}))
           /\ \A k : DropConstraint(s, t, k) = Put(s, t, Table(C, K \ {k}))
<1>1. s[t].columns = C /\ s[t].constraints = K
  BY DEF Table
<1>2. \A D : [s[t] EXCEPT !.columns = D] = Table(D, K)
  BY DEF Table
<1>3. \A L : [s[t] EXCEPT !.constraints = L] = Table(C, L)
  BY DEF Table
<1>4. \A c, k : AddColumn(s, t, c, k) = Put(s, t, Table(C ++ Entry(c, k), K))
  <2> TAKE c, k
  <2> DEFINE D == C ++ Entry(c, k)
  <2>1. AddColumn(s, t, c, k) = [s EXCEPT ![t] = [s[t] EXCEPT !.columns = D]]
    BY <1>1 DEF AddColumn
  <2> HIDE DEF D
  <2>2. [s[t] EXCEPT !.columns = D] = Table(D, K)
    BY <1>2
  <2>3. QED
    BY <2>1, <2>2 DEF Put, D
<1>5. \A c : DropColumn(s, t, c) = Put(s, t, Table(Restrict(C, DOMAIN C \ {c}), K))
  <2> TAKE c
  <2> DEFINE D == Restrict(C, DOMAIN C \ {c})
  <2>1. DropColumn(s, t, c) = [s EXCEPT ![t] = [s[t] EXCEPT !.columns = D]]
    BY <1>1 DEF DropColumn
  <2> HIDE DEF D
  <2>2. [s[t] EXCEPT !.columns = D] = Table(D, K)
    BY <1>2
  <2>3. QED
    BY <2>1, <2>2 DEF Put, D
<1>6. \A c, k : AlterColumn(s, t, c, k) = Put(s, t, Table([C EXCEPT ![c] = k], K))
  <2> TAKE c, k
  <2> DEFINE D == [C EXCEPT ![c] = k]
  <2>1. AlterColumn(s, t, c, k) = [s EXCEPT ![t] = [s[t] EXCEPT !.columns = D]]
    BY <1>1 DEF AlterColumn
  <2> HIDE DEF D
  <2>2. [s[t] EXCEPT !.columns = D] = Table(D, K)
    BY <1>2
  <2>3. QED
    BY <2>1, <2>2 DEF Put, D
<1>7. \A k : AddConstraint(s, t, k) = Put(s, t, Table(C, K \union {k}))
  <2> TAKE k
  <2>1. AddConstraint(s, t, k) = [s EXCEPT ![t] = [s[t] EXCEPT !.constraints = K \union {k}]]
    BY <1>1 DEF AddConstraint
  <2>2. [s[t] EXCEPT !.constraints = K \union {k}] = Table(C, K \union {k})
    BY <1>3
  <2>3. QED
    BY <2>1, <2>2 DEF Put
<1>8. \A k : DropConstraint(s, t, k) = Put(s, t, Table(C, K \ {k}))
  <2> TAKE k
  <2>1. DropConstraint(s, t, k) = [s EXCEPT ![t] = [s[t] EXCEPT !.constraints = K \ {k}]]
    BY <1>1 DEF DropConstraint
  <2>2. [s[t] EXCEPT !.constraints = K \ {k}] = Table(C, K \ {k})
    BY <1>3
  <2>3. QED
    BY <2>1, <2>2 DEF Put
<1>9. QED
  BY <1>4, <1>5, <1>6, <1>7, <1>8

LEMMA PutIs ==
    ASSUME NEW s, NEW t \in DOMAIN s, NEW table
    PROVE  /\ DOMAIN Put(s, t, table) = DOMAIN s
           /\ Put(s, t, table)[t] = table
           /\ \A x \in DOMAIN s \ {t} : Put(s, t, table)[x] = s[x]
           /\ \A other : Put(Put(s, t, table), t, other) = Put(s, t, other)
BY DEF Put

-----------------------------------------------------------------------------
(* The steps of the closed form. *)

LEMMA CreatedAt ==
    ASSUME NEW n \in 0 .. 6, NEW t \in DOMAIN Since, Since[t] = n + 1,
           NEW table, table = TableAt(t, n + 1)
    PROVE  /\ AddTable(SchemaAt(n), t, table) = SchemaAt(n + 1)
           /\ DropTable(SchemaAt(n + 1), t) = SchemaAt(n)
<1>1. TablesAt(n + 1) = TablesAt(n) \union {t} /\ t \notin TablesAt(n)
  BY DEF TablesAt, Since
<1>2. \A x \in TablesAt(n) : TableAt(x, n + 1) = TableAt(x, n)
  BY DEF TableAt, TablesAt, Since
<1>3. DOMAIN SchemaAt(n) = TablesAt(n) /\ DOMAIN SchemaAt(n + 1) = TablesAt(n + 1)
  BY DEF SchemaAt
<1>4. \A x \in TablesAt(n) : SchemaAt(n)[x] = TableAt(x, n)
  BY DEF SchemaAt
<1>5. AddTable(SchemaAt(n), t, table) = SchemaAt(n + 1)
  BY <1>1, <1>2, <1>3, <1>4 DEF AddTable, ++, Entry, SchemaAt
<1>6. DropTable(SchemaAt(n + 1), t) = SchemaAt(n)
  BY <1>1, <1>2 DEF DropTable, Restrict, SchemaAt
<1>7. QED
  BY <1>5, <1>6

LEMMA ChangedAt ==
    ASSUME NEW n \in 7 .. 13, NEW t \in DOMAIN Since,
           \A x \in DOMAIN Since \ {t} : TableAt(x, n + 1) = TableAt(x, n)
    PROVE  /\ t \in DOMAIN SchemaAt(n) /\ SchemaAt(n)[t] = TableAt(t, n)
           /\ t \in DOMAIN SchemaAt(n + 1) /\ SchemaAt(n + 1)[t] = TableAt(t, n + 1)
           /\ Put(SchemaAt(n), t, TableAt(t, n + 1)) = SchemaAt(n + 1)
           /\ Put(SchemaAt(n + 1), t, TableAt(t, n)) = SchemaAt(n)
<1>1. TablesAt(n) = DOMAIN Since /\ TablesAt(n + 1) = DOMAIN Since
  BY DEF TablesAt, Since
<1>2. QED
  BY <1>1 DEF SchemaAt, Put

(* A table is its columns and its constraints.                             *)
LEMMA TableIs ==
    ASSUME NEW C, NEW K
    PROVE  Table(C, K).columns = C /\ Table(C, K).constraints = K
BY DEF Table

IsFunction(C) == C = [c \in DOMAIN C |-> C[c]]

LEMMA AddThenDrop ==
    ASSUME NEW C, IsFunction(C), NEW c, c \notin DOMAIN C, NEW k, NEW D, D = C ++ Entry(c, k)
    PROVE  Restrict(D, DOMAIN D \ {c}) = C
<1>1. DOMAIN D = DOMAIN C \union {c} /\ \A x \in DOMAIN C : D[x] = C[x]
  BY DEF ++, Entry
<1>2. QED
  BY <1>1 DEF IsFunction, Restrict

LEMMA DropThenAdd ==
    ASSUME NEW C, IsFunction(C), NEW c \in DOMAIN C, NEW k, C[c] = k
    PROVE  Restrict(C, DOMAIN C \ {c}) ++ Entry(c, k) = C
<1> DEFINE D == Restrict(C, DOMAIN C \ {c})
           E == D ++ Entry(c, k)
<1>1. DOMAIN D = DOMAIN C \ {c} /\ \A x \in DOMAIN D : D[x] = C[x]
  BY DEF Restrict
<1>2. E = [x \in DOMAIN D \union DOMAIN Entry(c, k) |->
             IF x \in DOMAIN D THEN D[x] ELSE Entry(c, k)[x]]
  BY DEF ++
<1> HIDE DEF D, E
<1>3. DOMAIN Entry(c, k) = {c} /\ Entry(c, k)[c] = k
  BY DEF Entry
<1>4. E = [x \in DOMAIN C |-> C[x]]
  BY <1>1, <1>2, <1>3
<1>5. QED
  BY <1>4 DEF IsFunction, D, E

LEMMA AlterBack ==
    ASSUME NEW C, IsFunction(C), NEW c \in DOMAIN C, NEW k, NEW j, C[c] = j
    PROVE  [[C EXCEPT ![c] = k] EXCEPT ![c] = j] = C
BY DEF IsFunction

-----------------------------------------------------------------------------
(* The tables that create_table makes, as far as later revisions need to   *)
(* know them.                                                              *)

LEMMA UsersCreated ==
    LET C == UsersTable.columns
    IN  /\ UsersTable = Table(C, UsersTable.constraints) /\ IsFunction(C)
        /\ "password_hash" \in DOMAIN C /\ C["password_hash"] = Req("varchar(60)")
        /\ "full_name" \in DOMAIN C /\ C["full_name"] = Req("varchar(255)")
BY DEF UsersTable, Table, IsFunction, ++, SoftDeleted, Identified

LEMMA UploadsCreated ==
    LET C == UploadsTable.columns
        K == UploadsTable.constraints
    IN  /\ UploadsTable = Table(C, K) /\ IsFunction(C)
        /\ {"deleted_at", "digital_asset_id", "idempotency_key"} \intersect DOMAIN C = {}
        /\ UploadAsset \notin K /\ AssetCompleted \notin K /\ IdempotencyKey \notin K
<1>1. LET C == UploadsTable.columns
          K == UploadsTable.constraints
      IN  /\ UploadsTable = Table(C, K) /\ IsFunction(C)
          /\ {"deleted_at", "digital_asset_id", "idempotency_key"} \intersect DOMAIN C = {}
  BY DEF UploadsTable, Table, IsFunction, ++, Identified
<1>2. UploadsTable.constraints =
        {PrimaryKey, Unique({"storage_key"}), Check("file_size_bytes >= 0"),
         OneOf("upload_status", {"pending", "processing", "completed", "failed"}),
         References("user_id", "users", "no action")}
  BY DEF UploadsTable, Table
<1>3. QED
  BY <1>1, <1>2 DEF UploadAsset, AssetCompleted, IdempotencyKey, PrimaryKey, Unique,
                    UniqueWhere, Check, OneOf, References

LEMMA AssetsCreated ==
    LET C == DigitalAssetsTable.columns
        K == DigitalAssetsTable.constraints
    IN  /\ DigitalAssetsTable = Table(C, K) /\ IsFunction(C)
        /\ DOMAIN ContentColumns \intersect DOMAIN C = {}
        /\ "upload_id" \in DOMAIN C /\ C["upload_id"] = Opt("uuid")
        /\ GlobalValue \in K /\ FileUpload \in K /\ AssetUpload \in K
        /\ ({OwnValue, UniqueContent} \union ContentChecks) \intersect K = {}
<1>1. LET C == DigitalAssetsTable.columns
          K == DigitalAssetsTable.constraints
      IN  /\ DigitalAssetsTable = Table(C, K) /\ IsFunction(C)
          /\ DOMAIN ContentColumns \intersect DOMAIN C = {}
          /\ "upload_id" \in DOMAIN C /\ C["upload_id"] = Opt("uuid")
  BY DEF DigitalAssetsTable, Table, IsFunction, ++, SoftDeleted, Identified, ContentColumns
<1>2. DigitalAssetsTable.constraints =
        {PrimaryKey, GlobalValue, FileUpload, AssetUpload,
         OneOf("asset_type", {"url", "domain", "ip_address", "file_hash", "file"}),
         References("user_id", "users", "restrict")}
  BY DEF DigitalAssetsTable, Table
<1>3. OwnValue # GlobalValue
  <2>1. "user_id" \in {"user_id", "normalized_value", "asset_type"}
                        \ {"normalized_value", "asset_type"}
    OBVIOUS
  <2>2. QED
    BY <2>1 DEF OwnValue, GlobalValue, Unique
<1>4. OwnValue \notin DigitalAssetsTable.constraints
  BY <1>2, <1>3 DEF FileUpload, AssetUpload, OwnValue, PrimaryKey, Unique, Check, OneOf,
                    References
<1>5. UniqueContent \notin DigitalAssetsTable.constraints
  BY <1>2 DEF GlobalValue, FileUpload, AssetUpload, UniqueContent, PrimaryKey, Unique,
              UniqueWhere, Check, OneOf, References
<1>6. ContentChecks \intersect DigitalAssetsTable.constraints = {}
  <2>1. \A a, b : Check(a) = Check(b) => a = b
    BY DEF Check
  <2>2. \A k \in ContentChecks : k # FileUpload
    BY <2>1 DEF FileUpload, ContentChecks
  <2>3. \A k \in ContentChecks : \E condition : k = Check(condition)
    BY DEF ContentChecks
  <2>4. QED
    BY <1>2, <2>2, <2>3 DEF GlobalValue, AssetUpload, PrimaryKey, Unique, Check, OneOf,
                            References
<1>7. QED
  BY <1>1, <1>2, <1>4, <1>5, <1>6

LEMMA AnalysesCreated ==
    LET C == AnalysesTable.columns
    IN  /\ AnalysesTable = Table(C, AnalysesTable.constraints) /\ IsFunction(C)
        /\ "deleted_at" \notin DOMAIN C
BY DEF AnalysesTable, Table, IsFunction, ++, Identified

LEMMA TokensCreated ==
    LET C == RefreshTokensTable.columns
        K == RefreshTokensTable.constraints
    IN  /\ RefreshTokensTable = Table(C, K) /\ IsFunction(C)
        /\ "jti" \notin DOMAIN C /\ Unique({"jti"}) \notin K
<1>1. LET C == RefreshTokensTable.columns
          K == RefreshTokensTable.constraints
      IN  /\ RefreshTokensTable = Table(C, K) /\ IsFunction(C)
          /\ "jti" \notin DOMAIN C
  BY DEF RefreshTokensTable, Table, IsFunction, ++, SoftDeleted, Identified
<1>2. RefreshTokensTable.constraints =
        {PrimaryKey, Unique({"token_hash"}), References("user_id", "users", "cascade")}
  BY DEF RefreshTokensTable, Table
<1>3. QED
  BY <1>1, <1>2 DEF PrimaryKey, Unique, References

-----------------------------------------------------------------------------
(* The revisions that change one table. *)

LEMMA HistoryIs ==
    /\ Len(History) = 14
    /\ History[1] = "de771966819d"
    /\ History[2] = "85764e04d85a"
    /\ History[3] = "1f4a7b8c"
    /\ History[4] = "baf6d10dde4e"
    /\ History[5] = "9c8e3f5b"
    /\ History[6] = "a8f2b3c1"
    /\ History[7] = "create_reports"
    /\ History[8] = "increase_password_hash_argon2"
    /\ History[9] = "add_jti_to_refresh_tokens"
    /\ History[10] = "make_full_name_optional"
    /\ History[11] = "66ffcf8ae2f3"
    /\ History[12] = "reconcile_digital_assets"
    /\ History[13] = "e5t3_upload_asset_fk"
    /\ History[14] = "e5t4_upload_idempotency"
BY DEF History

LEMMA Creations ==
    /\ CreateUsers(SchemaAt(0)) = SchemaAt(1)
    /\ CreateUploads(SchemaAt(1)) = SchemaAt(2)
    /\ CreateDigitalAssets(SchemaAt(2)) = SchemaAt(3)
    /\ CreateAnalyses(SchemaAt(3)) = SchemaAt(4)
    /\ CreateAuditLogs(SchemaAt(4)) = SchemaAt(5)
    /\ CreateRefreshTokens(SchemaAt(5)) = SchemaAt(6)
    /\ CreateReports(SchemaAt(6)) = SchemaAt(7)
<1>1. ASSUME NEW n \in 0 .. 6, NEW t \in DOMAIN Since, Since[t] = n + 1,
             NEW table, table = TableAt(t, n + 1)
      PROVE  AddTable(SchemaAt(n), t, table) = SchemaAt(n + 1)
  BY <1>1, CreatedAt
<1>2. /\ UsersTable = TableAt("users", 1) /\ UploadsTable = TableAt("uploads", 2)
      /\ DigitalAssetsTable = TableAt("digital_assets", 3)
      /\ AnalysesTable = TableAt("analyses", 4) /\ AuditLogsTable = TableAt("audit_logs", 5)
      /\ RefreshTokensTable = TableAt("user_refresh_tokens", 6)
      /\ ReportsTable = TableAt("reports", 7)
  BY DEF TableAt
<1>3. /\ DOMAIN Since = {"users", "uploads", "digital_assets", "analyses", "audit_logs",
                         "user_refresh_tokens", "reports"}
      /\ Since["users"] = 1 /\ Since["uploads"] = 2 /\ Since["digital_assets"] = 3
      /\ Since["analyses"] = 4 /\ Since["audit_logs"] = 5
      /\ Since["user_refresh_tokens"] = 6 /\ Since["reports"] = 7
  BY DEF Since
<1>4. CreateUsers(SchemaAt(0)) = SchemaAt(1)
  BY <1>1, <1>2, <1>3 DEF CreateUsers
<1>5. CreateUploads(SchemaAt(1)) = SchemaAt(2)
  BY <1>1, <1>2, <1>3 DEF CreateUploads
<1>6. CreateDigitalAssets(SchemaAt(2)) = SchemaAt(3)
  BY <1>1, <1>2, <1>3 DEF CreateDigitalAssets
<1>7. CreateAnalyses(SchemaAt(3)) = SchemaAt(4)
  BY <1>1, <1>2, <1>3 DEF CreateAnalyses
<1>8. CreateAuditLogs(SchemaAt(4)) = SchemaAt(5)
  BY <1>1, <1>2, <1>3 DEF CreateAuditLogs
<1>9. CreateRefreshTokens(SchemaAt(5)) = SchemaAt(6)
  BY <1>1, <1>2, <1>3 DEF CreateRefreshTokens
<1>10. CreateReports(SchemaAt(6)) = SchemaAt(7)
  BY <1>1, <1>2, <1>3 DEF CreateReports
<1>11. QED
  BY <1>4, <1>5, <1>6, <1>7, <1>8, <1>9, <1>10

LEMMA Drops ==
    /\ DropUsers(SchemaAt(1)) = SchemaAt(0)
    /\ DropUploads(SchemaAt(2)) = SchemaAt(1)
    /\ DropDigitalAssets(SchemaAt(3)) = SchemaAt(2)
    /\ DropAnalyses(SchemaAt(4)) = SchemaAt(3)
    /\ DropAuditLogs(SchemaAt(5)) = SchemaAt(4)
    /\ DropRefreshTokens(SchemaAt(6)) = SchemaAt(5)
    /\ DropReports(SchemaAt(7)) = SchemaAt(6)
<1>1. ASSUME NEW n \in 0 .. 6, NEW t \in DOMAIN Since, Since[t] = n + 1
      PROVE  DropTable(SchemaAt(n + 1), t) = SchemaAt(n)
  BY <1>1, CreatedAt
<1>2. /\ DOMAIN Since = {"users", "uploads", "digital_assets", "analyses", "audit_logs",
                         "user_refresh_tokens", "reports"}
      /\ Since["users"] = 1 /\ Since["uploads"] = 2 /\ Since["digital_assets"] = 3
      /\ Since["analyses"] = 4 /\ Since["audit_logs"] = 5
      /\ Since["user_refresh_tokens"] = 6 /\ Since["reports"] = 7
  BY DEF Since
<1>3. /\ DropUsers(SchemaAt(1)) = SchemaAt(0) /\ DropUploads(SchemaAt(2)) = SchemaAt(1)
      /\ DropDigitalAssets(SchemaAt(3)) = SchemaAt(2)
  BY <1>1, <1>2 DEF DropUsers, DropUploads, DropDigitalAssets
<1>4. /\ DropAnalyses(SchemaAt(4)) = SchemaAt(3) /\ DropAuditLogs(SchemaAt(5)) = SchemaAt(4)
  BY <1>1, <1>2 DEF DropAnalyses, DropAuditLogs
<1>5. /\ DropRefreshTokens(SchemaAt(6)) = SchemaAt(5) /\ DropReports(SchemaAt(7)) = SchemaAt(6)
  BY <1>1, <1>2 DEF DropRefreshTokens, DropReports
<1>6. QED
  BY <1>3, <1>4, <1>5

LEMMA PasswordHashes ==
    /\ WidenPasswordHash(SchemaAt(7)) = SchemaAt(8)
    /\ NarrowPasswordHash(SchemaAt(8)) = SchemaAt(7)
<1> DEFINE C == UsersTable.columns
           K == UsersTable.constraints
           W == [C EXCEPT !["password_hash"] = Req("varchar(255)")]
<1>1. TableAt("users", 7) = Table(C, K) /\ TableAt("users", 8) = Table(W, K)
  BY UsersCreated DEF TableAt, WideUsers
<1>2. "users" \in DOMAIN Since
      /\ \A x \in DOMAIN Since \ {"users"} : TableAt(x, 8) = TableAt(x, 7)
  BY DEF TableAt, Since
<1>3. /\ "users" \in DOMAIN SchemaAt(7) /\ SchemaAt(7)["users"] = Table(C, K)
      /\ "users" \in DOMAIN SchemaAt(8) /\ SchemaAt(8)["users"] = Table(W, K)
      /\ Put(SchemaAt(7), "users", Table(W, K)) = SchemaAt(8)
      /\ Put(SchemaAt(8), "users", Table(C, K)) = SchemaAt(7)
  <2>1. 7 \in 7 .. 13 /\ 7 + 1 = 8
    OBVIOUS
  <2>2. QED
    BY <1>1, <1>2, <2>1, ChangedAt
<1>4. [W EXCEPT !["password_hash"] = Req("varchar(60)")] = C
  BY UsersCreated, AlterBack
<1> HIDE DEF C, K
<1>5. WidenPasswordHash(SchemaAt(7)) = SchemaAt(8)
  BY <1>3, OnOneTable DEF WidenPasswordHash
<1> HIDE DEF W
<1>6. NarrowPasswordHash(SchemaAt(8)) = SchemaAt(7)
  BY <1>3, <1>4, OnOneTable DEF NarrowPasswordHash
<1>7. QED
  BY <1>5, <1>6

LEMMA FullNames ==
    /\ FullNameOptional(SchemaAt(9)) = SchemaAt(10)
    /\ FullNameRequired(SchemaAt(10)) = SchemaAt(9)
<1> DEFINE C == WideUsers.columns
           K == UsersTable.constraints
           N == [C EXCEPT !["full_name"] = Opt("varchar(255)")]
<1>1. TableAt("users", 9) = Table(C, K) /\ TableAt("users", 10) = Table(N, K)
  BY TableIs DEF TableAt, WideUsers, NamelessUsers
<1>2. "users" \in DOMAIN Since
      /\ \A x \in DOMAIN Since \ {"users"} : TableAt(x, 10) = TableAt(x, 9)
  BY DEF TableAt, Since
<1>3. /\ "users" \in DOMAIN SchemaAt(9) /\ SchemaAt(9)["users"] = Table(C, K)
      /\ "users" \in DOMAIN SchemaAt(10) /\ SchemaAt(10)["users"] = Table(N, K)
      /\ Put(SchemaAt(9), "users", Table(N, K)) = SchemaAt(10)
      /\ Put(SchemaAt(10), "users", Table(C, K)) = SchemaAt(9)
  <2>1. 9 \in 7 .. 13 /\ 9 + 1 = 10
    OBVIOUS
  <2>2. QED
    BY <1>1, <1>2, <2>1, ChangedAt
<1>4. [N EXCEPT !["full_name"] = Req("varchar(255)")] = C
  <2>1. C = [UsersTable.columns EXCEPT !["password_hash"] = Req("varchar(255)")]
    BY TableIs DEF WideUsers
  <2>2. IsFunction(C) /\ "full_name" \in DOMAIN C /\ C["full_name"] = Req("varchar(255)")
    BY <2>1, UsersCreated DEF IsFunction
  <2>3. QED
    BY <2>2, AlterBack
<1> HIDE DEF C, K
<1>5. FullNameOptional(SchemaAt(9)) = SchemaAt(10)
  BY <1>3, OnOneTable DEF FullNameOptional
<1> HIDE DEF N
<1>6. FullNameRequired(SchemaAt(10)) = SchemaAt(9)
  BY <1>3, <1>4, OnOneTable DEF FullNameRequired
<1>7. QED
  BY <1>5, <1>6

LEMMA Jtis ==
    /\ AddJti(SchemaAt(8)) = SchemaAt(9)
    /\ RemoveJti(SchemaAt(9)) = SchemaAt(8)
<1> DEFINE T == "user_refresh_tokens"
           C == RefreshTokensTable.columns
           K == RefreshTokensTable.constraints
           A == C ++ JtiColumn
           J == [A EXCEPT !["jti"] = Req("varchar(256)")]
           U == Unique({"jti"})
           L == K \union {U}
<1>1. TableAt(T, 8) = Table(C, K) /\ TableAt(T, 9) = Table(J, L)
  BY TokensCreated DEF TableAt, JtiTokens
<1>2. T \in DOMAIN Since /\ \A x \in DOMAIN Since \ {T} : TableAt(x, 9) = TableAt(x, 8)
  BY DEF TableAt, Since
<1>3. /\ T \in DOMAIN SchemaAt(8) /\ SchemaAt(8)[T] = Table(C, K)
      /\ T \in DOMAIN SchemaAt(9) /\ SchemaAt(9)[T] = Table(J, L)
      /\ Put(SchemaAt(8), T, Table(J, L)) = SchemaAt(9)
      /\ Put(SchemaAt(9), T, Table(C, K)) = SchemaAt(8)
  <2>1. 8 \in 7 .. 13 /\ 8 + 1 = 9
    OBVIOUS
  <2>2. QED
    BY <1>1, <1>2, <2>1, ChangedAt
<1>4. Restrict(J, DOMAIN J \ {"jti"}) = C
  <2>1. DOMAIN J = DOMAIN A /\ \A x \in DOMAIN A \ {"jti"} : J[x] = A[x]
    OBVIOUS
  <2>2. DOMAIN A = DOMAIN C \union {"jti"} /\ \A x \in DOMAIN C : A[x] = C[x]
    BY DEF ++, JtiColumn, Entry
  <2> HIDE DEF A, J
  <2>3. QED
    BY <2>1, <2>2, TokensCreated DEF IsFunction, Restrict
<1>5. L \ {U} = K
  BY TokensCreated
<1> HIDE DEF C, K, U
<1>6. AddJti(SchemaAt(8)) = SchemaAt(9)
  <2> DEFINE S1 == Put(SchemaAt(8), T, Table(A, K))
             S2 == Put(SchemaAt(8), T, Table(J, K))
  <2>1. AddColumn(SchemaAt(8), T, "jti", Opt("varchar(256)")) = S1
    BY <1>3, OnOneTable DEF JtiColumn
  <2> HIDE DEF A
  <2>2. /\ T \in DOMAIN S1 /\ S1[T] = Table(A, K)
        /\ T \in DOMAIN S2 /\ S2[T] = Table(J, K)
        /\ \A table : Put(S1, T, table) = Put(SchemaAt(8), T, table)
        /\ \A table : Put(S2, T, table) = Put(SchemaAt(8), T, table)
    BY <1>3, PutIs
  <2> HIDE DEF S1
  <2>3. AlterColumn(S1, T, "jti", Req("varchar(256)")) = S2
    <3>1. \A c, k : AlterColumn(S1, T, c, k) = Put(S1, T, Table([A EXCEPT ![c] = k], K))
      <4> HIDE DEF S2, J
      <4>1. QED
        BY <2>2, OnOneTable
    <3>2. AlterColumn(S1, T, "jti", Req("varchar(256)")) = Put(S1, T, Table(J, K))
      BY <3>1
    <3> HIDE DEF J
    <3>3. QED
      BY <2>2, <3>2
  <2> HIDE DEF S2, J
  <2>4. AddConstraint(S2, T, U) = SchemaAt(9)
    BY <1>3, <2>2, OnOneTable
  <2>5. QED
    BY <2>1, <2>3, <2>4 DEF AddJti, U
<1>7. RemoveJti(SchemaAt(9)) = SchemaAt(8)
  <2> DEFINE S1 == Put(SchemaAt(9), T, Table(J, K))
  <2> HIDE DEF J
  <2>1. DropConstraint(SchemaAt(9), T, U) = S1
    BY <1>3, <1>5, OnOneTable
  <2>2. /\ T \in DOMAIN S1 /\ S1[T] = Table(J, K)
        /\ \A table : Put(S1, T, table) = Put(SchemaAt(9), T, table)
    BY <1>3, PutIs
  <2> HIDE DEF S1
  <2>3. DropColumn(S1, T, "jti") = SchemaAt(8)
    BY <1>3, <1>4, <2>2, OnOneTable
  <2>4. QED
    BY <2>1, <2>3 DEF RemoveJti, U
<1>8. QED
  BY <1>6, <1>7

(* A column and the constraints on it, added and dropped.                  *)
LEMMA LinkAdded ==
    ASSUME NEW s, NEW t \in DOMAIN s, NEW C, NEW K, s[t] = Table(C, K),
           NEW c, NEW k, NEW a, NEW b
    PROVE  AddConstraint(AddConstraint(AddColumn(s, t, c, k), t, a), t, b)
             = Put(s, t, Table(C ++ Entry(c, k), (K \union {a}) \union {b}))
<1> DEFINE D  == C ++ Entry(c, k)
           L  == K \union {a}
           M  == L \union {b}
           S1 == Put(s, t, Table(D, K))
           S2 == Put(s, t, Table(D, L))
<1>1. AddColumn(s, t, c, k) = S1
  BY OnOneTable
<1> HIDE DEF D
<1>2. /\ t \in DOMAIN S1 /\ S1[t] = Table(D, K)
      /\ t \in DOMAIN S2 /\ S2[t] = Table(D, L)
      /\ \A table : Put(S1, t, table) = Put(s, t, table)
      /\ \A table : Put(S2, t, table) = Put(s, t, table)
  BY PutIs
<1> HIDE DEF S1
<1>3. AddConstraint(S1, t, a) = S2
  BY <1>2, OnOneTable
<1> HIDE DEF S2, L
<1>4. AddConstraint(S2, t, b) = Put(s, t, Table(D, M))
  BY <1>2, OnOneTable
<1>5. QED
  BY <1>1, <1>3, <1>4 DEF D, L

LEMMA LinkDropped ==
    ASSUME NEW s, NEW t \in DOMAIN s, NEW C, NEW K, s[t] = Table(C, K), NEW c, NEW a, NEW b
    PROVE  DropColumn(DropConstraint(DropConstraint(s, t, a), t, b), t, c)
             = Put(s, t, Table(Restrict(C, DOMAIN C \ {c}), (K \ {a}) \ {b}))
<1> DEFINE D  == Restrict(C, DOMAIN C \ {c})
           L  == K \ {a}
           M  == L \ {b}
           S1 == Put(s, t, Table(C, L))
           S2 == Put(s, t, Table(C, M))
<1>1. DropConstraint(s, t, a) = S1
  BY OnOneTable
<1> HIDE DEF L
<1>2. /\ t \in DOMAIN S1 /\ S1[t] = Table(C, L)
      /\ t \in DOMAIN S2 /\ S2[t] = Table(C, M)
      /\ \A table : Put(S1, t, table) = Put(s, t, table)
      /\ \A table : Put(S2, t, table) = Put(s, t, table)
  BY PutIs
<1> HIDE DEF S1
<1>3. DropConstraint(S1, t, b) = S2
  BY <1>2, OnOneTable
<1> HIDE DEF S2, M
<1>4. DropColumn(S2, t, c) = Put(s, t, Table(D, M))
  BY <1>2, OnOneTable
<1>5. QED
  BY <1>1, <1>3, <1>4 DEF L, M

LEMMA LinkedAre ==
    LET C == LinkedUploads.columns
        K == LinkedUploads.constraints
    IN  /\ IsFunction(C) /\ "idempotency_key" \notin DOMAIN C
        /\ IdempotencyKey \notin K
<1> DEFINE C == UploadsTable.columns
           D == C ++ DeletedAt
           E == D ++ Entry("digital_asset_id", Opt("uuid"))
           K == UploadsTable.constraints
<1>1. LinkedUploads.columns = E
      /\ LinkedUploads.constraints = (K \union {UploadAsset}) \union {AssetCompleted}
  BY TableIs DEF LinkedUploads, DeletedUploads
<1>2. DOMAIN E = DOMAIN C \union {"deleted_at", "digital_asset_id"} /\ IsFunction(E)
  BY DEF ++, DeletedAt, Entry, IsFunction
<1>3. IdempotencyKey # UploadAsset /\ IdempotencyKey # AssetCompleted
  BY DEF IdempotencyKey, UploadAsset, AssetCompleted, UniqueWhere, References, Check
<1> HIDE DEF E
<1>4. QED
  BY <1>1, <1>2, <1>3, UploadsCreated

LEMMA IdempotencyKeys ==
    /\ AddIdempotencyKey(SchemaAt(13)) = SchemaAt(14)
    /\ RemoveIdempotencyKey(SchemaAt(14)) = SchemaAt(13)
<1> DEFINE T == "uploads"
           C == LinkedUploads.columns
           K == LinkedUploads.constraints
           D == C ++ Entry("idempotency_key", Opt("varchar(255)"))
           L == K \union {IdempotencyKey}
<1>1. TableAt(T, 13) = Table(C, K) /\ TableAt(T, 14) = Table(D, L)
  BY TableIs DEF TableAt, LinkedUploads, KeyedUploads
<1>2. T \in DOMAIN Since /\ \A x \in DOMAIN Since \ {T} : TableAt(x, 14) = TableAt(x, 13)
  BY DEF TableAt, Since
<1>3. /\ T \in DOMAIN SchemaAt(13) /\ SchemaAt(13)[T] = Table(C, K)
      /\ T \in DOMAIN SchemaAt(14) /\ SchemaAt(14)[T] = Table(D, L)
      /\ Put(SchemaAt(13), T, Table(D, L)) = SchemaAt(14)
      /\ Put(SchemaAt(14), T, Table(C, K)) = SchemaAt(13)
  <2>1. 13 \in 7 .. 13 /\ 13 + 1 = 14
    OBVIOUS
  <2>2. QED
    BY <1>1, <1>2, <2>1, ChangedAt
<1>4. /\ IsFunction(C) /\ "idempotency_key" \notin DOMAIN C
      /\ IdempotencyKey \notin K
  BY LinkedAre
<1>5. Restrict(D, DOMAIN D \ {"idempotency_key"}) = C
  BY <1>4, AddThenDrop
<1>6. L \ {IdempotencyKey} = K
  BY <1>4
<1> HIDE DEF C, K
<1>7. AddIdempotencyKey(SchemaAt(13)) = SchemaAt(14)
  <2> DEFINE S1 == Put(SchemaAt(13), T, Table(D, K))
  <2>1. AddColumn(SchemaAt(13), T, "idempotency_key", Opt("varchar(255)")) = S1
    BY <1>3, OnOneTable
  <2> HIDE DEF D
  <2>2. /\ T \in DOMAIN S1 /\ S1[T] = Table(D, K)
        /\ \A table : Put(S1, T, table) = Put(SchemaAt(13), T, table)
    BY <1>3, PutIs
  <2> HIDE DEF S1
  <2>3. AddConstraint(S1, T, IdempotencyKey) = SchemaAt(14)
    BY <1>3, <2>2, OnOneTable
  <2>4. QED
    BY <2>1, <2>3 DEF AddIdempotencyKey
<1>8. RemoveIdempotencyKey(SchemaAt(14)) = SchemaAt(13)
  <2> DEFINE S1 == Put(SchemaAt(14), T, Table(D, K))
  <2> HIDE DEF D
  <2>1. DropConstraint(SchemaAt(14), T, IdempotencyKey) = S1
    BY <1>3, <1>6, OnOneTable
  <2>2. /\ T \in DOMAIN S1 /\ S1[T] = Table(D, K)
        /\ \A table : Put(S1, T, table) = Put(SchemaAt(14), T, table)
    BY <1>3, PutIs
  <2> HIDE DEF S1
  <2>3. DropColumn(S1, T, "idempotency_key") = SchemaAt(13)
    BY <1>3, <1>5, <2>2, OnOneTable
  <2>4. QED
    BY <2>1, <2>3 DEF RemoveIdempotencyKey
<1>9. QED
  BY <1>7, <1>8

LEMMA Reconciliations ==
    /\ Reconcile(SchemaAt(11)) = SchemaAt(12)
    /\ Unreconcile(SchemaAt(12)) = SchemaAt(11)
<1> DEFINE T == "digital_assets"
           C == DigitalAssetsTable.columns
           K == DigitalAssetsTable.constraints
           D == C ++ ContentColumns
           N == {OwnValue, UniqueContent} \union ContentChecks
           L == (K \ {GlobalValue}) \union N
<1>1. TableAt(T, 11) = Table(C, K) /\ TableAt(T, 12) = Table(D, L)
  <2>1. L = (K \ {GlobalValue}) \union {OwnValue, UniqueContent} \union ContentChecks
    OBVIOUS
  <2>2. QED
    BY <2>1, AssetsCreated DEF TableAt, ContentAssets
<1>2. T \in DOMAIN Since /\ \A x \in DOMAIN Since \ {T} : TableAt(x, 12) = TableAt(x, 11)
  BY DEF TableAt, Since
<1>3. /\ T \in DOMAIN SchemaAt(11) /\ SchemaAt(11)[T] = Table(C, K)
      /\ T \in DOMAIN SchemaAt(12) /\ SchemaAt(12)[T] = Table(D, L)
      /\ Put(SchemaAt(11), T, Table(D, L)) = SchemaAt(12)
      /\ Put(SchemaAt(12), T, Table(C, K)) = SchemaAt(11)
  <2>1. 11 \in 7 .. 13 /\ 11 + 1 = 12
    OBVIOUS
  <2>2. QED
    BY <1>1, <1>2, <2>1, ChangedAt
<1>4. Restrict(D, DOMAIN D \ DOMAIN ContentColumns) = C
  <2>1. /\ DOMAIN D = DOMAIN C \union DOMAIN ContentColumns
        /\ \A x \in DOMAIN C : D[x] = C[x]
    BY DEF ++
  <2> HIDE DEF D
  <2>2. QED
    BY <2>1, AssetsCreated DEF IsFunction, Restrict
<1>5. (L \ N) \union {GlobalValue} = K
  <2>1. GlobalValue \in K /\ N \intersect K = {}
    BY AssetsCreated
  <2> HIDE DEF K, N
  <2>2. QED
    BY <2>1
<1>6. Table(D, L).columns = D /\ Table(D, L).constraints = L
      /\ Table(C, K).columns = C /\ Table(C, K).constraints = K
  BY TableIs
<1>7. Reconcile(SchemaAt(11)) = SchemaAt(12)
  <2>1. Reconcile(SchemaAt(11)) = Put(SchemaAt(11), T, Table(D, L))
    <3> HIDE DEF C, K
    <3>1. QED
      BY <1>3, <1>6 DEF Reconcile, Put
  <2>2. QED
    BY <1>3, <2>1
<1>8. Unreconcile(SchemaAt(12)) = SchemaAt(11)
  <2>1. Unreconcile(SchemaAt(12))
          = Put(SchemaAt(12), T, Table(Restrict(D, DOMAIN D \ DOMAIN ContentColumns),
                                       (L \ N) \union {GlobalValue}))
    <3> HIDE DEF D, L
    <3>1. QED
      BY <1>3, <1>6 DEF Unreconcile, Put
  <2>2. QED
    BY <1>3, <1>4, <1>5, <2>1
<1>9. QED
  BY <1>7, <1>8

-----------------------------------------------------------------------------
(* The revisions that change two tables. *)

LEMMA BothChangedAt ==
    ASSUME NEW n \in 7 .. 13, NEW t \in DOMAIN Since, NEW u \in DOMAIN Since \ {t},
           \A x \in DOMAIN Since \ {t, u} : TableAt(x, n + 1) = TableAt(x, n)
    PROVE  /\ t \in DOMAIN SchemaAt(n) /\ u \in DOMAIN SchemaAt(n)
           /\ SchemaAt(n)[t] = TableAt(t, n) /\ SchemaAt(n)[u] = TableAt(u, n)
           /\ Put(Put(SchemaAt(n), t, TableAt(t, n + 1)), u, TableAt(u, n + 1))
                = SchemaAt(n + 1)
           /\ t \in DOMAIN SchemaAt(n + 1) /\ u \in DOMAIN SchemaAt(n + 1)
           /\ SchemaAt(n + 1)[t] = TableAt(t, n + 1)
           /\ SchemaAt(n + 1)[u] = TableAt(u, n + 1)
           /\ Put(Put(SchemaAt(n + 1), u, TableAt(u, n)), t, TableAt(t, n)) = SchemaAt(n)
<1>1. TablesAt(n) = DOMAIN Since /\ TablesAt(n + 1) = DOMAIN Since
  BY DEF TablesAt, Since
<1>2. QED
  BY <1>1 DEF SchemaAt, Put

LEMMA DeletedTimes ==
    /\ AddDeletedAt(SchemaAt(10)) = SchemaAt(11)
    /\ RemoveDeletedAt(SchemaAt(11)) = SchemaAt(10)
<1> DEFINE T  == "uploads"
           V  == "analyses"
           C  == UploadsTable.columns
           K  == UploadsTable.constraints
           D  == C ++ DeletedAt
           CA == AnalysesTable.columns
           KA == AnalysesTable.constraints
           DA == CA ++ DeletedAt
<1>1. /\ TableAt(T, 10) = Table(C, K) /\ TableAt(T, 11) = Table(D, K)
      /\ TableAt(V, 10) = Table(CA, KA) /\ TableAt(V, 11) = Table(DA, KA)
  BY UploadsCreated, AnalysesCreated DEF TableAt, DeletedUploads, DeletedAnalyses
<1>2. /\ T \in DOMAIN Since /\ V \in DOMAIN Since \ {T}
      /\ \A x \in DOMAIN Since \ {T, V} : TableAt(x, 11) = TableAt(x, 10)
  BY DEF TableAt, Since
<1>3. /\ T \in DOMAIN SchemaAt(10) /\ V \in DOMAIN SchemaAt(10)
      /\ SchemaAt(10)[T] = Table(C, K) /\ SchemaAt(10)[V] = Table(CA, KA)
      /\ Put(Put(SchemaAt(10), T, Table(D, K)), V, Table(DA, KA)) = SchemaAt(11)
      /\ T \in DOMAIN SchemaAt(11) /\ V \in DOMAIN SchemaAt(11)
      /\ SchemaAt(11)[T] = Table(D, K) /\ SchemaAt(11)[V] = Table(DA, KA)
      /\ Put(Put(SchemaAt(11), V, Table(CA, KA)), T, Table(C, K)) = SchemaAt(10)
  <2>1. 10 \in 7 .. 13 /\ 10 + 1 = 11
    OBVIOUS
  <2>2. QED
    BY <1>1, <1>2, <2>1, BothChangedAt
<1>4. Restrict(D, DOMAIN D \ {"deleted_at"}) = C
  BY UploadsCreated, AddThenDrop DEF DeletedAt
<1>5. Restrict(DA, DOMAIN DA \ {"deleted_at"}) = CA
  BY AnalysesCreated, AddThenDrop DEF DeletedAt
<1>6. T # V
  OBVIOUS
<1> HIDE DEF C, K, CA, KA
<1>7. AddDeletedAt(SchemaAt(10)) = SchemaAt(11)
  <2> DEFINE S1 == Put(SchemaAt(10), T, Table(D, K))
  <2>1. AddColumn(SchemaAt(10), T, "deleted_at", Opt("timestamptz")) = S1
    BY <1>3, OnOneTable DEF DeletedAt
  <2> HIDE DEF D
  <2>2. V \in DOMAIN S1 /\ S1[V] = Table(CA, KA)
    BY <1>3, <1>6, PutIs
  <2> HIDE DEF S1
  <2>3. AddColumn(S1, V, "deleted_at", Opt("timestamptz")) = Put(S1, V, Table(DA, KA))
    BY <2>2, OnOneTable DEF DeletedAt
  <2> HIDE DEF DA
  <2>4. QED
    BY <1>3, <2>1, <2>3 DEF AddDeletedAt, S1
<1>8. RemoveDeletedAt(SchemaAt(11)) = SchemaAt(10)
  <2> DEFINE S1 == Put(SchemaAt(11), V, Table(CA, KA))
  <2> HIDE DEF D, DA
  <2>1. DropColumn(SchemaAt(11), V, "deleted_at") = S1
    BY <1>3, <1>5, OnOneTable
  <2>2. T \in DOMAIN S1 /\ S1[T] = Table(D, K)
    BY <1>3, <1>6, PutIs
  <2> HIDE DEF S1
  <2>3. DropColumn(S1, T, "deleted_at") = Put(S1, T, Table(C, K))
    BY <1>4, <2>2, OnOneTable
  <2>4. QED
    BY <1>3, <2>1, <2>3 DEF RemoveDeletedAt, S1
<1>9. QED
  BY <1>7, <1>8

(* The columns and constraints of the two tables before the relation is    *)
(* turned round.                                                           *)
LEMMA DeletedAre ==
    LET C == DeletedUploads.columns
        K == DeletedUploads.constraints
    IN  /\ IsFunction(C) /\ "digital_asset_id" \notin DOMAIN C
        /\ UploadAsset \notin K /\ AssetCompleted \notin K
<1> DEFINE C == UploadsTable.columns
           D == C ++ DeletedAt
<1>1. DeletedUploads.columns = D /\ DeletedUploads.constraints = UploadsTable.constraints
  BY TableIs DEF DeletedUploads
<1>2. DOMAIN D = DOMAIN C \union {"deleted_at"} /\ IsFunction(D)
  BY DEF ++, DeletedAt, Entry, IsFunction
<1> HIDE DEF D
<1>3. QED
  BY <1>1, <1>2, UploadsCreated

LEMMA ContentAre ==
    LET C == ContentAssets.columns
        K == ContentAssets.constraints
    IN  /\ IsFunction(C) /\ "upload_id" \in DOMAIN C /\ C["upload_id"] = Opt("uuid")
        /\ FileUpload \in K /\ AssetUpload \in K
<1> DEFINE C == DigitalAssetsTable.columns
           D == C ++ ContentColumns
           K == DigitalAssetsTable.constraints
<1>1. /\ ContentAssets.columns = D
      /\ ContentAssets.constraints
           = (K \ {GlobalValue}) \union {OwnValue, UniqueContent} \union ContentChecks
  BY TableIs DEF ContentAssets
<1>2. /\ IsFunction(D) /\ DOMAIN C \subseteq DOMAIN D
      /\ \A c \in DOMAIN C : D[c] = C[c]
  BY DEF ++, IsFunction
<1>3. FileUpload # GlobalValue /\ AssetUpload # GlobalValue
  BY DEF FileUpload, AssetUpload, GlobalValue, Check, References, Unique
<1> HIDE DEF D
<1>4. QED
  BY <1>1, <1>2, <1>3, AssetsCreated

LEMMA TurnsRound ==
    /\ LinkFromUpload(SchemaAt(12)) = SchemaAt(13)
    /\ LinkFromAsset(SchemaAt(13)) = SchemaAt(12)
<1> DEFINE T  == "uploads"
           V  == "digital_assets"
           C  == DeletedUploads.columns
           K  == DeletedUploads.constraints
           D  == C ++ Entry("digital_asset_id", Opt("uuid"))
           L  == (K \union {UploadAsset}) \union {AssetCompleted}
           CA == ContentAssets.columns
           KA == ContentAssets.constraints
           DA == Restrict(CA, DOMAIN CA \ {"upload_id"})
           LA == (KA \ {FileUpload}) \ {AssetUpload}
<1>1. /\ TableAt(T, 12) = Table(C, K) /\ TableAt(T, 13) = Table(D, L)
      /\ TableAt(V, 12) = Table(CA, KA) /\ TableAt(V, 13) = Table(DA, LA)
  BY TableIs DEF TableAt, DeletedUploads, LinkedUploads, ContentAssets, FreeAssets
<1>2. /\ T \in DOMAIN Since /\ V \in DOMAIN Since \ {T}
      /\ \A x \in DOMAIN Since \ {T, V} : TableAt(x, 13) = TableAt(x, 12)
  BY DEF TableAt, Since
<1>3. /\ T \in DOMAIN SchemaAt(12) /\ V \in DOMAIN SchemaAt(12)
      /\ SchemaAt(12)[T] = Table(C, K) /\ SchemaAt(12)[V] = Table(CA, KA)
      /\ Put(Put(SchemaAt(12), T, Table(D, L)), V, Table(DA, LA)) = SchemaAt(13)
      /\ T \in DOMAIN SchemaAt(13) /\ V \in DOMAIN SchemaAt(13)
      /\ SchemaAt(13)[T] = Table(D, L) /\ SchemaAt(13)[V] = Table(DA, LA)
      /\ Put(Put(SchemaAt(13), V, Table(CA, KA)), T, Table(C, K)) = SchemaAt(12)
  <2>1. 12 \in 7 .. 13 /\ 12 + 1 = 13
    OBVIOUS
  <2>2. QED
    BY <1>1, <1>2, <2>1, BothChangedAt
<1>4. Restrict(D, DOMAIN D \ {"digital_asset_id"}) = C
  BY DeletedAre, AddThenDrop
<1>5. DA ++ Entry("upload_id", Opt("uuid")) = CA
  BY ContentAre, DropThenAdd
<1>6. (L \ {AssetCompleted}) \ {UploadAsset} = K
  BY DeletedAre
<1>7. (LA \union {AssetUpload}) \union {FileUpload} = KA
  BY ContentAre
<1>8. T # V
  OBVIOUS
<1> HIDE DEF C, K, CA, KA
<1>9. LinkFromUpload(SchemaAt(12)) = SchemaAt(13)
  <2> DEFINE held == AddConstraint(AddConstraint(AddColumn(SchemaAt(12), T,
                        "digital_asset_id", Opt("uuid")), T, UploadAsset), T, AssetCompleted)
             freed == DropConstraint(DropConstraint(held, V, FileUpload), V, AssetUpload)
  <2>1. LinkFromUpload(SchemaAt(12)) = DropColumn(freed, V, "upload_id")
    BY DEF LinkFromUpload
  <2>2. held = Put(SchemaAt(12), T, Table(D, L))
    BY <1>3, LinkAdded
  <2> HIDE DEF held, D, L
  <2>3. V \in DOMAIN held /\ held[V] = Table(CA, KA)
    BY <1>3, <1>8, <2>2, PutIs
  <2>4. DropColumn(freed, V, "upload_id") = Put(held, V, Table(DA, LA))
    BY <2>3, LinkDropped
  <2>5. QED
    BY <1>3, <2>1, <2>2, <2>4
<1>10. LinkFromAsset(SchemaAt(13)) = SchemaAt(12)
  <2> DEFINE held == AddConstraint(AddConstraint(AddColumn(SchemaAt(13), V,
                        "upload_id", Opt("uuid")), V, AssetUpload), V, FileUpload)
             freed == DropConstraint(DropConstraint(held, T, AssetCompleted), T, UploadAsset)
  <2>1. LinkFromAsset(SchemaAt(13)) = DropColumn(freed, T, "digital_asset_id")
    BY DEF LinkFromAsset
  <2> HIDE DEF D, L, DA, LA
  <2>2. held = Put(SchemaAt(13), V, Table(CA, KA))
    BY <1>3, <1>5, <1>7, LinkAdded
  <2> HIDE DEF held
  <2>3. T \in DOMAIN held /\ held[T] = Table(D, L)
    BY <1>3, <1>8, <2>2, PutIs
  <2>4. DropColumn(freed, T, "digital_asset_id") = Put(held, T, Table(C, K))
    BY <1>4, <1>6, <2>3, LinkDropped
  <2>5. QED
    BY <1>3, <2>1, <2>2, <2>4
<1>11. QED
  BY <1>9, <1>10

-----------------------------------------------------------------------------
(* One revision up, one revision down. *)

LEMMA UpgradedAt ==
    \A n \in 0 .. 13 : Upgraded(SchemaAt(n), History[n + 1]) = SchemaAt(n + 1)
<1> TAKE n \in 0 .. 13
<1>1. CASE n <= 6
  BY <1>1, HistoryIs, Creations DEF Upgraded
<1>2. CASE n = 7 \/ n = 8 \/ n = 9
  BY <1>2, HistoryIs, PasswordHashes, Jtis, FullNames DEF Upgraded
<1>3. CASE n = 10 \/ n = 11
  BY <1>3, HistoryIs, DeletedTimes, Reconciliations DEF Upgraded
<1>4. CASE n = 12 \/ n = 13
  BY <1>4, HistoryIs, TurnsRound, IdempotencyKeys DEF Upgraded
<1>5. QED
  BY <1>1, <1>2, <1>3, <1>4

LEMMA DowngradedAt ==
    \A n \in 1 .. 14 : Downgraded(SchemaAt(n), History[n]) = SchemaAt(n - 1)
<1> TAKE n \in 1 .. 14
<1>1. CASE n <= 7
  BY <1>1, HistoryIs, Drops DEF Downgraded
<1>2. CASE n = 8 \/ n = 9 \/ n = 10
  BY <1>2, HistoryIs, PasswordHashes, Jtis, FullNames DEF Downgraded
<1>3. CASE n = 11 \/ n = 12
  BY <1>3, HistoryIs, DeletedTimes, Reconciliations DEF Downgraded
<1>4. CASE n = 13 \/ n = 14
  BY <1>4, HistoryIs, TurnsRound, IdempotencyKeys DEF Downgraded
<1>5. QED
  BY <1>1, <1>2, <1>3, <1>4

(* What the upgrades build from the empty database.                        *)
LEMMA BuiltIs == \A n \in 0 .. 14 : Built[n] = SchemaAt(n)
<1> DEFINE Step(f) == [r \in 0 .. 14 |->
                          IF r = 0 THEN NoTables ELSE Upgraded(f[r - 1], History[r])]
           W == [n \in 0 .. 14 |-> SchemaAt(n)]
<1>1. SchemaAt(0) = NoTables
  BY DEF SchemaAt, TablesAt, Since, NoTables
<1>2. \A r \in 1 .. 14 : Upgraded(W[r - 1], History[r]) = W[r]
  <2> TAKE r \in 1 .. 14
  <2> DEFINE n == r - 1
  <2>1. n \in 0 .. 13 /\ r = n + 1 /\ n \in 0 .. 14
    OBVIOUS
  <2> HIDE DEF n
  <2>2. W[n] = SchemaAt(n) /\ W[r] = SchemaAt(n + 1)
    BY <2>1
  <2>3. QED
    BY <2>1, <2>2, UpgradedAt DEF n
<1>3. W[0] = NoTables
  BY <1>1
<1>4. W = Step(W)
  <2> HIDE DEF W
  <2>1. W = [n \in 0 .. 14 |-> W[n]]
    BY DEF W
  <2>2. QED
    BY <1>2, <1>3, <2>1
<1>5. Built = CHOOSE f : f = Step(f)
  BY HistoryIs DEF Built
<1>6. Built = Step(Built)
  <2> HIDE DEF Step
  <2>1. QED
    BY <1>4, <1>5
<1>7. Built[0] = SchemaAt(0)
  BY <1>1, <1>6
<1>8. \A n \in 0 .. 13 : Built[n] = SchemaAt(n) => Built[n + 1] = SchemaAt(n + 1)
  <2> TAKE n \in 0 .. 13
  <2>1. n + 1 \in 0 .. 14 /\ n + 1 # 0 /\ (n + 1) - 1 = n
    OBVIOUS
  <2>2. Built[n + 1] = Upgraded(Built[n], History[n + 1])
    BY <1>6, <2>1
  <2>3. QED
    BY <2>2, UpgradedAt
<1> HIDE DEF W, Step
<1>9. \A n \in 0 .. 7 : Built[n] = SchemaAt(n)
  BY <1>7, <1>8
<1>10. \A n \in 7 .. 14 : Built[n] = SchemaAt(n)
  BY <1>9, <1>8
<1>11. QED
  BY <1>9, <1>10

-----------------------------------------------------------------------------
(* The two sides of the relation. *)

(* The second and third revisions create the two tables, the thirteenth    *)
(* turns the relation of uploads and assets round.                         *)
Side(s, n) ==
    /\ "uploads" \in DOMAIN s <=> n >= 2
    /\ "digital_assets" \in DOMAIN s <=> n >= 3
    /\ n \in 2 .. 12 => "digital_asset_id" \notin DOMAIN s["uploads"].columns
    /\ n \in 3 .. 12 => AssetUpload \in s["digital_assets"].constraints
    /\ n >= 13 => /\ "upload_id" \notin DOMAIN s["digital_assets"].columns
                  /\ UploadAsset \in s["uploads"].constraints

LEMMA SideAt == \A n \in 0 .. 14 : Side(SchemaAt(n), n)
<1> TAKE n \in 0 .. 14
<1>1. "uploads" \in DOMAIN SchemaAt(n) <=> n >= 2
  BY DEF SchemaAt, TablesAt, Since
<1>2. "digital_assets" \in DOMAIN SchemaAt(n) <=> n >= 3
  BY DEF SchemaAt, TablesAt, Since
<1>3. n >= 2 => SchemaAt(n)["uploads"] = TableAt("uploads", n)
  BY <1>1 DEF SchemaAt
<1>4. n >= 3 => SchemaAt(n)["digital_assets"] = TableAt("digital_assets", n)
  BY <1>2 DEF SchemaAt
<1>5. CASE n <= 10
  <2>1. TableAt("uploads", n) = UploadsTable
        /\ TableAt("digital_assets", n) = DigitalAssetsTable
    BY <1>5 DEF TableAt
  <2>2. QED
    BY <1>1, <1>2, <1>3, <1>4, <1>5, <2>1, UploadsCreated, AssetsCreated DEF Side
<1>6. CASE n = 11 \/ n = 12
  <2>1. /\ TableAt("uploads", n) = DeletedUploads
        /\ TableAt("digital_assets", n) = DigitalAssetsTable
              \/ TableAt("digital_assets", n) = ContentAssets
    BY <1>6 DEF TableAt
  <2>2. QED
    BY <1>1, <1>2, <1>3, <1>4, <1>6, <2>1, DeletedAre, AssetsCreated, ContentAre DEF Side
<1>7. CASE n = 13 \/ n = 14
  <2>1. /\ TableAt("uploads", n) = LinkedUploads \/ TableAt("uploads", n) = KeyedUploads
        /\ TableAt("digital_assets", n) = FreeAssets
    BY <1>7 DEF TableAt
  <2>2. UploadAsset \in LinkedUploads.constraints /\ UploadAsset \in KeyedUploads.constraints
    BY TableIs DEF LinkedUploads, KeyedUploads
  <2>3. "upload_id" \notin DOMAIN FreeAssets.columns
    BY TableIs DEF FreeAssets, Restrict
  <2>4. QED
    BY <1>1, <1>2, <1>3, <1>4, <1>7, <2>1, <2>2, <2>3 DEF Side
<1>8. QED
  BY <1>5, <1>6, <1>7

-----------------------------------------------------------------------------
(* The tables that the models of the application declare. *)

(* A table the models of the application fit.                              *)
Fits(model, table) ==
    /\ DOMAIN model.columns = DOMAIN table.columns
    /\ \A c \in DOMAIN model.columns : Holds(model.columns[c], table.columns[c])
    /\ model.constraints = table.constraints

LEMMA SameHolds ==
    ASSUME NEW model, NEW table, DOMAIN model.columns = DOMAIN table.columns,
           \A c \in DOMAIN model.columns :
              \/ model.columns[c] = table.columns[c]
              \/ Holds(model.columns[c], table.columns[c]),
           model.constraints = table.constraints
    PROVE  Fits(model, table)
BY DEF Holds, Fits

(* A model adds the columns that its base class has.                       *)
LEMMA BaseIs == BaseColumns = SoftDeleted /\ BaseColumns = Identified ++ DeletedAt
BY DEF BaseColumns, SoftDeleted, Identified, DeletedAt, Entry, ++

LEMMA MergeIs ==
    ASSUME NEW f, NEW g
    PROVE  /\ DOMAIN (f ++ g) = DOMAIN f \union DOMAIN g
           /\ \A x \in DOMAIN f : (f ++ g)[x] = f[x]
           /\ \A x \in DOMAIN g \ DOMAIN f : (f ++ g)[x] = g[x]
BY DEF ++

LEMMA UsersFit == Fits(User, NamelessUsers)
<1> DEFINE C == UsersTable.columns
           W == [C EXCEPT !["password_hash"] = Req("varchar(255)")]
           N == [W EXCEPT !["full_name"] = Opt("varchar(255)")]
           M == User.columns
<1>1. NamelessUsers.columns = N
  BY TableIs DEF NamelessUsers, WideUsers
<1>2. DOMAIN C = DOMAIN M
  BY SMTT(60) DEF UsersTable, User, Model, Table, BaseColumns, ++, SoftDeleted, Identified
<1>3. \A c \in DOMAIN C \ {"password_hash", "full_name"} : C[c] = M[c]
  BY SMTT(60) DEF UsersTable, User, Model, Table, BaseColumns, ++, SoftDeleted, Identified
<1>4. M["password_hash"] = Req("varchar(255)") /\ M["full_name"] = Opt("varchar(255)")
  BY DEF User, Model, Table, ++
<1> HIDE DEF C, M
<1>5. DOMAIN N = DOMAIN M /\ \A c \in DOMAIN M : M[c] = N[c]
  BY <1>2, <1>3, <1>4
<1>6. User.constraints = {Unique({"email"}), OneOf("role", UserRole)} \union {PrimaryKey}
  BY DEF User, Model, Table
<1>7. NamelessUsers.constraints
        = {Unique({"email"}), OneOf("role", UserRole)} \union {PrimaryKey}
  BY DEF NamelessUsers, UsersTable, Table, UserRole
<1> HIDE DEF N
<1>8. QED
  BY <1>1, <1>5, <1>6, <1>7, SameHolds DEF M

(* The bigint of the size holds the integer of the model.                  *)
LEMMA UploadsFitModel == Fits(Upload, KeyedUploads)
<1> DEFINE C == UploadsTable.columns
           D == C ++ DeletedAt
           E == D ++ Entry("digital_asset_id", Opt("uuid"))
           H == E ++ Entry("idempotency_key", Opt("varchar(255)"))
           M == UploadColumns ++ BaseColumns
           size == "file_size_bytes"
<1>1. KeyedUploads.columns = H
  BY TableIs DEF KeyedUploads, LinkedUploads, DeletedUploads
<1>2. Upload.columns = M
  BY TableIs DEF Upload, Model
<1>3. DOMAIN C = (DOMAIN UploadColumns \union DOMAIN Identified)
                    \ {"digital_asset_id", "idempotency_key"}
  BY SMTT(60) DEF UploadsTable, Table, UploadColumns, Identified, ++
<1>4. \A c \in DOMAIN C \ {size} : C[c] = (UploadColumns ++ Identified)[c]
  BY SMTT(60) DEF UploadsTable, Table, UploadColumns, Identified, ++
<1>5. /\ UploadColumns["digital_asset_id"] = Opt("uuid")
      /\ UploadColumns["idempotency_key"] = Opt("varchar(255)")
      /\ UploadColumns[size] = Req("integer")
      /\ {"digital_asset_id", "idempotency_key", size} \subseteq DOMAIN UploadColumns
  BY DEF UploadColumns
<1>6. /\ DOMAIN UploadColumns \intersect DOMAIN Identified = {}
      /\ "deleted_at" \notin DOMAIN UploadColumns \union DOMAIN Identified
      /\ {"digital_asset_id", "idempotency_key", size} \intersect DOMAIN Identified = {}
  BY DEF UploadColumns, Identified
<1>7. C[size] = Req("bigint")
  BY DEF UploadsTable, Table, Identified, ++
<1> HIDE DEF C
<1>8. /\ DOMAIN H = DOMAIN C \union {"deleted_at", "digital_asset_id", "idempotency_key"}
      /\ \A c \in DOMAIN C : H[c] = C[c]
      /\ H["deleted_at"] = Opt("timestamptz")
      /\ H["digital_asset_id"] = Opt("uuid")
      /\ H["idempotency_key"] = Opt("varchar(255)")
  BY <1>3, <1>6 DEF ++, DeletedAt, Entry
<1>9. /\ DOMAIN M = DOMAIN UploadColumns \union DOMAIN Identified \union {"deleted_at"}
      /\ \A c \in DOMAIN UploadColumns : M[c] = UploadColumns[c]
      /\ \A c \in DOMAIN Identified : M[c] = Identified[c]
      /\ M["deleted_at"] = Opt("timestamptz")
  BY <1>6, BaseIs DEF ++, DeletedAt, Entry
<1>10. /\ \A c \in DOMAIN UploadColumns : (UploadColumns ++ Identified)[c] = UploadColumns[c]
       /\ \A c \in DOMAIN Identified : (UploadColumns ++ Identified)[c] = Identified[c]
  BY <1>6 DEF ++
<1> HIDE DEF H, M
<1>11. DOMAIN M = DOMAIN H
  BY <1>3, <1>5, <1>6, <1>8, <1>9
<1>12. \A c \in DOMAIN M \ {size} : M[c] = H[c]
  BY <1>3, <1>4, <1>5, <1>6, <1>8, <1>9, <1>10
<1>13. Holds(M[size], H[size])
  <2>1. size \in DOMAIN C
    BY <1>3, <1>5
  <2>2. M[size] = Req("integer") /\ H[size] = Req("bigint")
    BY <1>5, <1>7, <1>8, <1>9, <2>1
  <2>3. QED
    BY <2>2 DEF Holds, Req
<1>14. Upload.constraints = UploadConstraints \union {PrimaryKey}
  BY TableIs DEF Upload, Model
<1>15. UploadsTable.constraints =
         {PrimaryKey, Unique({"storage_key"}), Check("file_size_bytes >= 0"),
          OneOf("upload_status", UploadStatus), References("user_id", "users", "no action")}
  BY DEF UploadsTable, Table, UploadStatus
<1>16. KeyedUploads.constraints
         = ((UploadsTable.constraints \union {UploadAsset}) \union {AssetCompleted})
               \union {IdempotencyKey}
  BY TableIs DEF KeyedUploads, LinkedUploads, DeletedUploads
<1>17. KeyedUploads.constraints = UploadConstraints \union {PrimaryKey}
  BY <1>15, <1>16 DEF UploadConstraints, UploadAsset, AssetCompleted, IdempotencyKey
<1>18. QED
  BY <1>1, <1>2, <1>11, <1>12, <1>13, <1>14, <1>17, SameHolds

LEMMA AnalysesFit == Fits(Analysis, DeletedAnalyses)
<1> DEFINE A == AnalysisColumns
<1>1. AnalysesTable.columns = Identified ++ A
  BY DEF AnalysesTable, Table, AnalysisColumns
<1>2. DeletedAnalyses.columns = (Identified ++ A) ++ DeletedAt
  BY <1>1, TableIs DEF DeletedAnalyses
<1>3. Analysis.columns = A ++ (Identified ++ DeletedAt)
  BY TableIs, BaseIs DEF Analysis, Model
<1>4. DOMAIN A \intersect (DOMAIN Identified \union DOMAIN DeletedAt) = {}
  BY DEF AnalysisColumns, Identified, DeletedAt, Entry
<1> HIDE DEF A
<1>5. DOMAIN Analysis.columns = DOMAIN DeletedAnalyses.columns
  BY <1>2, <1>3 DEF ++
<1>6. \A c \in DOMAIN Analysis.columns : Analysis.columns[c] = DeletedAnalyses.columns[c]
  BY <1>2, <1>3, <1>4 DEF ++
<1>7. Analysis.constraints = AnalysisConstraints \union {PrimaryKey}
  BY TableIs DEF Analysis, Model
<1>8. DeletedAnalyses.constraints = AnalysisConstraints \union {PrimaryKey}
  BY DEF Table, DeletedAnalyses, AnalysesTable, AnalysisConstraints
<1>9. QED
  BY <1>5, <1>6, <1>7, <1>8, SameHolds

LEMMA AuditLogsFit == Fits(AuditLog, AuditLogsTable)
<1>1. AuditLogsTable.columns = SoftDeleted ++ AuditLogColumns
  BY DEF AuditLogsTable, Table, AuditLogColumns
<1>2. AuditLog.columns = AuditLogColumns ++ SoftDeleted
  BY TableIs, BaseIs DEF AuditLog, Model
<1>3. DOMAIN AuditLogColumns \intersect DOMAIN SoftDeleted = {}
  BY DEF AuditLogColumns, SoftDeleted, Identified, ++
<1>4. AuditLog.columns = AuditLogsTable.columns
  BY <1>1, <1>2, <1>3 DEF ++
<1>5. AuditLog.constraints = AuditLogConstraints \union {PrimaryKey}
  BY TableIs DEF AuditLog, Model
<1>6. AuditLogsTable.constraints = AuditLogConstraints \union {PrimaryKey}
  BY DEF Table, AuditLogsTable, AuditLogConstraints
<1>7. QED
  BY <1>4, <1>5, <1>6, SameHolds

LEMMA TokensFitModel == Fits(RefreshToken, JtiTokens)
<1> DEFINE C == RefreshTokensTable.columns
           D == C ++ JtiColumn
           J == [D EXCEPT !["jti"] = Req("varchar(256)")]
           M == RefreshToken.columns
<1>1. JtiTokens.columns = J
  BY TableIs DEF JtiTokens
<1>2. DOMAIN M = DOMAIN C \union {"jti"}
  BY SMTT(60) DEF RefreshTokensTable, RefreshToken, Model, Table, BaseColumns, ++,
                  SoftDeleted, Identified
<1>3. \A c \in DOMAIN C : M[c] = C[c]
  BY SMTT(60) DEF RefreshTokensTable, RefreshToken, Model, Table, BaseColumns, ++,
                  SoftDeleted, Identified
<1>4. M["jti"] = Req("varchar(256)")
  BY DEF RefreshToken, Model, Table, ++
<1>5. "jti" \notin DOMAIN C
  BY TokensCreated
<1> HIDE DEF C, M
<1>6. DOMAIN D = DOMAIN C \union {"jti"} /\ \A c \in DOMAIN C : D[c] = C[c]
  BY DEF ++, JtiColumn, Entry
<1> HIDE DEF D
<1>7. DOMAIN M = DOMAIN J /\ \A c \in DOMAIN M : M[c] = J[c]
  BY <1>2, <1>3, <1>4, <1>5, <1>6
<1>8. RefreshToken.constraints
        = {Unique({"jti"}), Unique({"token_hash"}), References("user_id", "users", "cascade"),
           PrimaryKey}
  BY DEF RefreshToken, Model, Table
<1>9. RefreshTokensTable.constraints
        = {PrimaryKey, Unique({"token_hash"}), References("user_id", "users", "cascade")}
  BY DEF RefreshTokensTable, Table
<1>10. JtiTokens.constraints = RefreshTokensTable.constraints \union {Unique({"jti"})}
  BY TableIs DEF JtiTokens
<1>11. RefreshToken.constraints = JtiTokens.constraints
  BY <1>8, <1>9, <1>10
<1> HIDE DEF J
<1>12. QED
  BY <1>1, <1>7, <1>11, SameHolds DEF M

(* The text of a report's content holds the varchar of the model.          *)
LEMMA ReportsFit == Fits(Report, ReportsTable)
<1>1. DOMAIN Report.columns = DOMAIN ReportsTable.columns
  BY SMTT(60) DEF Table, Report, Model, BaseColumns, ++, ReportsTable, Identified, SoftDeleted
<1>2. \A c \in DOMAIN Report.columns \ {"content"} : Report.columns[c] = ReportsTable.columns[c]
  BY SMTT(60) DEF Table, Report, Model, BaseColumns, ++, ReportsTable, Identified, SoftDeleted
<1>3. Report.columns["content"] = Opt("varchar")
  BY DEF Table, Report, Model, ++, BaseColumns
<1>4. ReportsTable.columns["content"] = Opt("text")
  BY DEF Table, ReportsTable, Identified, SoftDeleted, ++
<1>5. Holds(Report.columns["content"], ReportsTable.columns["content"])
  BY <1>3, <1>4 DEF Holds, Opt
<1> DEFINE K == {PrimaryKey, OneOf("status", ReportStatus),
                 References("asset_id", "digital_assets", "no action"),
                 References("analysis_id", "analyses", "no action"),
                 References("created_by", "users", "no action")}
<1>6. Report.constraints = K
  BY DEF Report, Model, Table
<1>7. ReportsTable.constraints = K
  BY DEF ReportsTable, Table, ReportStatus
<1>8. Report.constraints = ReportsTable.constraints
  BY <1>6, <1>7
<1>9. QED
  BY <1>1, <1>2, <1>5, <1>8, SameHolds

LEMMA AssetsFitModel == Fits(DigitalAsset, FreeAssets)
<1> DEFINE C == DigitalAssetsTable.columns
           D == C ++ ContentColumns
           F == Restrict(D, DOMAIN D \ {"upload_id"})
           A == DigitalAssetColumns
           M == A ++ SoftDeleted
<1>1. FreeAssets.columns = F
  BY TableIs DEF FreeAssets, ContentAssets
<1>2. DigitalAsset.columns = M
  BY TableIs, BaseIs DEF DigitalAsset, Model
<1>3. DOMAIN C = ((DOMAIN A \union DOMAIN SoftDeleted) \ DOMAIN ContentColumns)
                     \union {"upload_id"}
  BY SMTT(60) DEF DigitalAssetsTable, Table, DigitalAssetColumns, Identified, SoftDeleted,
                  ++, ContentColumns
<1>4. \A c \in DOMAIN C \ {"upload_id"} : C[c] = M[c]
  BY SMTT(60) DEF DigitalAssetsTable, Table, DigitalAssetColumns, Identified, SoftDeleted, ++
<1>5. \A c \in DOMAIN ContentColumns : c \in DOMAIN A /\ ContentColumns[c] = A[c]
  BY DEF ContentColumns, DigitalAssetColumns
<1>6. "upload_id" \notin DOMAIN A \union DOMAIN SoftDeleted
  BY DEF DigitalAssetColumns, SoftDeleted, Identified, ++
<1>7. DOMAIN M = DOMAIN A \union DOMAIN SoftDeleted /\ \A c \in DOMAIN A : M[c] = A[c]
  BY DEF ++
<1> HIDE DEF C, A, M
<1>8. /\ DOMAIN F = (DOMAIN C \union DOMAIN ContentColumns) \ {"upload_id"}
      /\ \A c \in DOMAIN C \ {"upload_id"} : F[c] = C[c]
      /\ \A c \in DOMAIN ContentColumns \ (DOMAIN C \union {"upload_id"}) :
            F[c] = ContentColumns[c]
  BY DEF Restrict, ++
<1> HIDE DEF F
<1>9. DOMAIN M = DOMAIN F /\ \A c \in DOMAIN M : M[c] = F[c]
  BY <1>3, <1>4, <1>5, <1>6, <1>7, <1>8
<1>10. DigitalAsset.constraints = DigitalAssetConstraints \union {PrimaryKey}
  BY TableIs DEF DigitalAsset, Model
<1> DEFINE K == {PrimaryKey, OneOf("asset_type", AssetType),
                 References("user_id", "users", "restrict")}
           N == {OwnValue, UniqueContent} \union ContentChecks
<1>11. DigitalAssetsTable.constraints = K \union {GlobalValue, FileUpload, AssetUpload}
  BY DEF DigitalAssetsTable, Table, AssetType
<1>12. FreeAssets.constraints
         = ((((K \union {GlobalValue, FileUpload, AssetUpload}) \ {GlobalValue}) \union N)
               \ {FileUpload}) \ {AssetUpload}
  BY <1>11, TableIs DEF FreeAssets, ContentAssets
<1>13. {GlobalValue, FileUpload, AssetUpload} \intersect K = {}
  BY DEF GlobalValue, FileUpload, AssetUpload, PrimaryKey, Unique, Check, OneOf, References
<1>14. {FileUpload, AssetUpload} \intersect N = {}
  BY <1>11, AssetsCreated
<1>15. FreeAssets.constraints = K \union N
  BY <1>12, <1>13, <1>14
<1>16. DigitalAssetConstraints \union {PrimaryKey} = K \union N
  BY DEF DigitalAssetConstraints, OwnValue, UniqueContent, ContentChecks, AssetType
<1>17. DigitalAsset.constraints = FreeAssets.constraints
  BY <1>10, <1>15, <1>16
<1>18. QED
  BY <1>1, <1>2, <1>9, <1>17, SameHolds

(* The head revision.                                                      *)
LEMMA HeadFits ==
    /\ DOMAIN SchemaAt(14) = DOMAIN metadata
    /\ \A t \in DOMAIN metadata : Fits(metadata[t], SchemaAt(14)[t])
<1>1. DOMAIN metadata = DOMAIN Since
  BY DEF metadata, Since
<1>2. DOMAIN SchemaAt(14) = DOMAIN Since
  BY DEF SchemaAt, TablesAt, Since
<1>3. \A t \in DOMAIN Since : SchemaAt(14)[t] = TableAt(t, 14)
  BY <1>2 DEF SchemaAt
<1>4. \A t \in DOMAIN Since : Fits(metadata[t], TableAt(t, 14))
  BY UsersFit, UploadsFitModel, AssetsFitModel, AnalysesFit, AuditLogsFit, TokensFitModel,
     ReportsFit DEF Since, metadata, TableAt
<1>5. QED
  BY <1>1, <1>2, <1>3, <1>4

LEMMA EnumerationsFit ==
    \A e \in Enumerated :
        /\ e[1] \in DOMAIN metadata
        /\ OneOf(e[2], e[3]) \in metadata[e[1]].constraints
<1>1. OneOf("role", UserRole) \in User.constraints
  BY DEF User, Model, Table
<1>2. OneOf("upload_status", UploadStatus) \in Upload.constraints
  <2>1. Upload.constraints = UploadConstraints \union {PrimaryKey}
    BY TableIs DEF Upload, Model
  <2>2. QED
    BY <2>1 DEF UploadConstraints
<1>3. OneOf("asset_type", AssetType) \in DigitalAsset.constraints
  <2>1. DigitalAsset.constraints = DigitalAssetConstraints \union {PrimaryKey}
    BY TableIs DEF DigitalAsset, Model
  <2>2. QED
    BY <2>1 DEF DigitalAssetConstraints, AssetType
<1>4. OneOf("status", AnalysisStatus) \in Analysis.constraints
  <2>1. Analysis.constraints = AnalysisConstraints \union {PrimaryKey}
    BY TableIs DEF Analysis, Model
  <2>2. QED
    BY <2>1 DEF AnalysisConstraints, AnalysisStatus
<1>5. OneOf("status", ReportStatus) \in Report.constraints
  BY DEF Report, Model, Table
<1>6. QED
  BY <1>1, <1>2, <1>3, <1>4, <1>5 DEF Enumerated, metadata

-----------------------------------------------------------------------------
(* The steps. *)

RowsTyped ==
    /\ upload \in [Uploads -> UploadRows \union {NoRow}]
    /\ asset \in [Assets -> AssetRows \union {NoRow}]

LEMMA SchemaIs ==
    ASSUME NEW n \in 0 .. 14, revision = n
    PROVE  DowngradeUndoes <=> schema = SchemaAt(n)
BY BuiltIs DEF DowngradeUndoes

LEMMA SideIs ==
    ASSUME MigrationsInv
    PROVE  revision \in 0 .. 14 /\ Side(schema, revision)
BY HistoryIs, SchemaIs, SideAt DEF MigrationsInv

LEMMA UpgradeToIs ==
    ASSUME MigrationsInv, NEW name, UpgradeTo(name)
    PROVE  /\ revision \in 0 .. 13 /\ revision' = revision + 1
           /\ name = History[revision + 1]
           /\ schema' = SchemaAt(revision')
<1>1. /\ revision \in 0 .. 13 /\ revision' = revision + 1
      /\ name = History[revision + 1] /\ schema' = Upgraded(schema, name)
  BY HistoryIs DEF MigrationsInv, UpgradeTo
<1>2. schema = SchemaAt(revision)
  BY <1>1, SchemaIs DEF MigrationsInv
<1>3. QED
  BY <1>1, <1>2, UpgradedAt

LEMMA DowngradeFromIs ==
    ASSUME MigrationsInv, NEW name, DowngradeFrom(name)
    PROVE  /\ revision \in 1 .. 14 /\ revision' = revision - 1
           /\ name = History[revision]
           /\ schema' = SchemaAt(revision')
<1>1. /\ revision \in 1 .. 14 /\ revision' = revision - 1
      /\ name = History[revision] /\ schema' = Downgraded(schema, name)
  BY HistoryIs DEF MigrationsInv, DowngradeFrom
<1>2. schema = SchemaAt(revision)
  BY <1>1, SchemaIs DEF MigrationsInv
<1>3. QED
  BY <1>1, <1>2, DowngradedAt

(* An accepted migration keeps the invariant if it keeps the rows typed.   *)
LEMMA MigratedInv ==
    ASSUME MigrationsInv, NEW name, UpgradeTo(name) \/ DowngradeFrom(name),
           RowsTyped', Accepted
    PROVE  MigrationsInv'
<1>1. revision' \in 0 .. 14 /\ schema' = SchemaAt(revision')
  <2>1. CASE UpgradeTo(name)
    BY <2>1, UpgradeToIs
  <2>2. CASE DowngradeFrom(name)
    BY <2>2, DowngradeFromIs
  <2>3. QED
    BY <2>1, <2>2
<1>2. UploadsFit(schema)' /\ AssetsFit(schema)'
  BY DEF Accepted, RowsFit
<1>3. DowngradeUndoes'
  BY <1>1, BuiltIs DEF DowngradeUndoes
<1>4. QED
  BY <1>1, <1>2, <1>3, HistoryIs DEF MigrationsInv, RowsTyped

(* So does an accepted write of the application.                           *)
LEMMA WrittenInv ==
    ASSUME MigrationsInv, revision' = revision, schema' = schema, RowsTyped', Accepted
    PROVE  MigrationsInv'
<1>1. UploadsFit(schema)' /\ AssetsFit(schema)'
  BY DEF Accepted, RowsFit
<1>2. QED
  BY <1>1 DEF MigrationsInv, RowsTyped, DowngradeUndoes

LEMMA RecordKept ==
    ASSUME NEW row \in AssetRows, NEW value \in Checksums \union {Null},
           NEW key \in Uploads \union {Null}
    PROVE  /\ [row EXCEPT !.sha = value] \in AssetRows
           /\ [row EXCEPT !.sha = value].upload = row.upload
           /\ [row EXCEPT !.upload = key] \in AssetRows
           /\ [row EXCEPT !.upload = key].upload = key
           /\ row.checksum \in Checksums \union {Null}
           /\ row.upload \in Uploads \union {Null}
BY DEF AssetRows

LEMMA LinkKept ==
    ASSUME NEW row \in UploadRows, NEW key \in Assets \union {Null}
    PROVE  /\ [row EXCEPT !.asset = key] \in UploadRows
           /\ [row EXCEPT !.asset = key].asset = key
           /\ row.asset \in Assets \union {Null}
BY DEF UploadRows

(* A stored row is a row.                                                  *)
LEMMA StoredRows ==
    ASSUME RowsTyped
    PROVE  /\ Stored(upload) \subseteq Uploads /\ Stored(asset) \subseteq Assets
           /\ \A u \in Stored(upload) : upload[u] \in UploadRows
           /\ \A a \in Stored(asset) : asset[a] \in AssetRows
           /\ \A u \in Uploads \ Stored(upload) : upload[u] = NoRow
           /\ \A a \in Assets \ Stored(asset) : asset[a] = NoRow
BY DEF RowsTyped, Stored

LEMMA MigrateTyped ==
    ASSUME RowsTyped, Migrate
    PROVE  RowsTyped'
<1>1. CASE UpgradeTables \/ UpgradeJti \/ DowngradeJti \/ DowngradeFullName
  BY <1>1 DEF UpgradeTables, UpgradeJti, DowngradeJti, DowngradeFullName, rows, RowsTyped
<1>2. CASE DowngradeTables
  BY <1>2 DEF DowngradeTables, RowsTyped
<1>3. CASE UpgradeContent
  BY <1>3, StoredRows, RecordKept DEF UpgradeContent, RowsTyped
<1>4. CASE DowngradeContent
  BY <1>4, StoredRows, RecordKept DEF DowngradeContent, RowsTyped
<1>5. CASE UpgradeLinks
  <2>1. PICK earliest \in [Uploads -> Assets \union {Null}] :
           upload' = [u \in Uploads |->
                         IF u \in Stored(upload)
                         THEN [upload[u] EXCEPT !.asset = earliest[u]] ELSE NoRow]
    BY <1>5 DEF UpgradeLinks
  <2>2. asset' = [a \in Assets |->
                    IF a \in Stored(asset) THEN [asset[a] EXCEPT !.upload = Null] ELSE NoRow]
    BY <1>5 DEF UpgradeLinks
  <2>3. upload' \in [Uploads -> UploadRows \union {NoRow}]
    BY <2>1, StoredRows, LinkKept
  <2>4. asset' \in [Assets -> AssetRows \union {NoRow}]
    BY <2>2, StoredRows, RecordKept
  <2>5. QED
    BY <2>3, <2>4 DEF RowsTyped
<1>6. CASE DowngradeLinks
  <2>1. PICK earliest \in [Assets -> Uploads \union {Null}] :
           asset' = [a \in Assets |->
                        IF a \in Stored(asset)
                        THEN [asset[a] EXCEPT !.upload = earliest[a]] ELSE NoRow]
    BY <1>6 DEF DowngradeLinks
  <2>2. upload' = [u \in Uploads |->
                     IF u \in Stored(upload) THEN [upload[u] EXCEPT !.asset = Null] ELSE NoRow]
    BY <1>6 DEF DowngradeLinks
  <2>3. upload' \in [Uploads -> UploadRows \union {NoRow}]
    BY <2>2, StoredRows, LinkKept
  <2>4. asset' \in [Assets -> AssetRows \union {NoRow}]
    BY <2>1, StoredRows, RecordKept
  <2>5. QED
    BY <2>3, <2>4 DEF RowsTyped
<1>7. QED
  BY <1>1, <1>2, <1>3, <1>4, <1>5, <1>6 DEF Migrate

LEMMA WriteTyped ==
    ASSUME RowsTyped, Write
    PROVE  RowsTyped'
<1>1. CASE AddAccount \/ \E t \in Tokens : AddToken(t)
  BY <1>1 DEF AddAccount, AddToken, RowsTyped
<1>2. ASSUME NEW u \in Uploads, AddUpload(u)
      PROVE  RowsTyped'
  BY <1>2 DEF AddUpload, RowsTyped, UploadRows
<1>3. ASSUME NEW u \in Uploads, CompleteUpload(u)
      PROVE  RowsTyped'
  BY <1>3 DEF CompleteUpload, RowsTyped, UploadRows
<1>4. ASSUME NEW u \in Uploads, DeleteUpload(u)
      PROVE  RowsTyped'
  BY <1>4, StoredRows, RecordKept DEF DeleteUpload, AssetsOf, RowsTyped
<1>5. ASSUME NEW a \in Assets, AddAsset(a)
      PROVE  RowsTyped'
  BY <1>5 DEF AddAsset, RowsTyped, AssetRows
<1>6. QED
  BY <1>1, <1>2, <1>3, <1>4, <1>5 DEF Write

LEMMA MigrationsInit == Init => MigrationsInv
<1> SUFFICES ASSUME Init
             PROVE  MigrationsInv
  OBVIOUS
<1>1. DOMAIN schema = {}
  BY DEF Init, NoTables
<1>2. Stored(upload) = {} /\ Stored(asset) = {}
  BY DEF Init, Stored
<1>3. UploadsFit(schema) /\ AssetsFit(schema)
  BY <1>1, <1>2 DEF UploadsFit, AssetsFit, Enforces
<1>4. DowngradeUndoes
  <2>1. SchemaAt(0) = NoTables
    BY DEF SchemaAt, TablesAt, Since, NoTables
  <2>2. QED
    BY <2>1, SchemaIs DEF Init
<1>5. QED
  BY <1>3, <1>4, HistoryIs DEF Init, MigrationsInv

LEMMA MigrationsStep == MigrationsInv /\ [Next]_vars => MigrationsInv'
<1> SUFFICES ASSUME MigrationsInv, [Next]_vars
             PROVE  MigrationsInv'
  OBVIOUS
<1>1. RowsTyped
  BY DEF MigrationsInv, RowsTyped
<1>2. CASE Migrate
  <2>1. RowsTyped'
    BY <1>1, <1>2, MigrateTyped
  <2>2. Accepted /\ \E name : UpgradeTo(name) \/ DowngradeFrom(name)
    BY <1>2 DEF Migrate, UpgradeTables, UpgradeJti, UpgradeContent, UpgradeLinks,
                DowngradeTables, DowngradeJti, DowngradeFullName, DowngradeContent,
                DowngradeLinks
  <2>3. QED
    BY <2>1, <2>2, MigratedInv
<1>3. CASE Write
  <2>1. RowsTyped'
    BY <1>1, <1>3, WriteTyped
  <2>2. Accepted /\ revision' = revision /\ schema' = schema
    BY <1>3 DEF Write, AddAccount, AddToken, AddUpload, CompleteUpload, DeleteUpload, AddAsset
  <2>3. QED
    BY <2>1, <2>2, WrittenInv
<1>4. CASE UNCHANGED vars
  BY <1>4 DEF vars, rows, MigrationsInv, DowngradeUndoes, UploadsFit, AssetsFit, Stored
<1>5. QED
  BY <1>2, <1>3, <1>4 DEF Next

-----------------------------------------------------------------------------
(* The links. *)

(* A migration that keeps the link columns of the stored rows keeps the    *)
(* links.                                                                  *)
LEMMA SameLinks ==
    ASSUME Stored(upload)' = Stored(upload), Stored(asset)' = Stored(asset),
           \A u \in Stored(upload) : upload'[u].asset = upload[u].asset,
           \A a \in Stored(asset) : asset'[a].upload = asset[a].upload
    PROVE  Links' = Links
<1>1. \A u \in Uploads, a \in Assets : Linked(u, a)' <=> Linked(u, a)
  BY DEF Linked
<1>2. QED
  BY <1>1 DEF Links

(* The upgrade gives every upload that assets named one of them.           *)
LEMMA UpgradeLinksKeeps ==
    ASSUME MigrationsInv, UpgradeLinks
    PROVE  /\ Links' \subseteq Links
           /\ {l[1] : l \in Links'} = {l[1] : l \in Links}
<1>1. RowsTyped
  BY DEF MigrationsInv, RowsTyped
<1>2. revision = 12
  BY UpgradeToIs, HistoryIs DEF UpgradeLinks
<1>3. "digital_assets" \in DOMAIN schema /\ "uploads" \in DOMAIN schema
      /\ "digital_asset_id" \notin DOMAIN schema["uploads"].columns
      /\ AssetUpload \in schema["digital_assets"].constraints
  BY <1>2, SideIs DEF Side
<1>4. \A u \in Stored(upload) : upload[u].asset = Null
  BY <1>3 DEF MigrationsInv, UploadsFit, HasColumn
<1>5. \A a \in Stored(asset) : asset[a].upload # Null => asset[a].upload \in Stored(upload)
  BY <1>3 DEF MigrationsInv, AssetsFit, Enforces
<1>6. PICK earliest \in [Uploads -> Assets \union {Null}] :
         /\ \A u \in Uploads : earliest[u] \in Earliest(AssetsOf(u))
         /\ upload' = [u \in Uploads |->
                         IF u \in Stored(upload)
                         THEN [upload[u] EXCEPT !.asset = earliest[u]] ELSE NoRow]
  BY DEF UpgradeLinks
<1>7. asset' = [a \in Assets |->
                  IF a \in Stored(asset) THEN [asset[a] EXCEPT !.upload = Null] ELSE NoRow]
  BY DEF UpgradeLinks
<1>8. Null \notin Uploads /\ Null \notin Assets
  BY MigrationAssumption
<1>9. Stored(upload)' = Stored(upload)
      /\ \A u \in Stored(upload) : upload'[u].asset = earliest[u]
  BY <1>1, <1>6, StoredRows, LinkKept, RowAssumption DEF Stored
<1>10. \A a \in Stored(asset)' : asset'[a].upload = Null
  BY <1>1, <1>7, StoredRows, RecordKept DEF Stored
<1>11. \A u \in Uploads, a \in Assets : Linked(u, a) <=> a \in AssetsOf(u)
  BY <1>1, <1>4, <1>8, StoredRows DEF Linked, AssetsOf
<1>12. \A u \in Uploads, a \in Assets :
          Linked(u, a)' <=> u \in Stored(upload) /\ earliest[u] = a
  BY <1>8, <1>9, <1>10 DEF Linked
<1>13. \A u \in Uploads, a \in Assets : Linked(u, a)' => Linked(u, a)
  BY <1>6, <1>8, <1>11, <1>12 DEF Earliest
<1>14. ASSUME NEW u \in Uploads, NEW a \in Assets, Linked(u, a)
       PROVE  \E b \in Assets : Linked(u, b)'
  <2>1. a \in AssetsOf(u)
    BY <1>11, <1>14
  <2>2. u \in Stored(upload)
    BY <1>5, <1>8, <2>1 DEF AssetsOf
  <2>3. earliest[u] \in AssetsOf(u)
    BY <1>6, <2>1 DEF Earliest
  <2>4. earliest[u] \in Assets
    BY <1>1, <2>3, StoredRows DEF AssetsOf
  <2>5. QED
    BY <1>12, <2>2, <2>4
<1>15. Links' \subseteq Links
  BY <1>13 DEF Links
<1>16. \A l \in Links : \E m \in Links' : m[1] = l[1]
  <2> SUFFICES ASSUME NEW l \in Links
               PROVE  \E m \in Links' : m[1] = l[1]
    OBVIOUS
  <2>1. PICK b \in Assets : Linked(l[1], b)'
    BY <1>14 DEF Links
  <2>2. <<l[1], b>> \in Links'
    BY <2>1 DEF Links
  <2>3. QED
    BY <2>2
<1>17. QED
  BY <1>15, <1>16

(* The downgrade gives every asset that uploads named one of them.         *)
LEMMA DowngradeLinksKeeps ==
    ASSUME MigrationsInv, DowngradeLinks
    PROVE  /\ Links' \subseteq Links
           /\ {l[2] : l \in Links'} = {l[2] : l \in Links}
<1>1. RowsTyped
  BY DEF MigrationsInv, RowsTyped
<1>2. revision = 13
  BY DowngradeFromIs, HistoryIs DEF DowngradeLinks
<1>3. "digital_assets" \in DOMAIN schema /\ "uploads" \in DOMAIN schema
      /\ "upload_id" \notin DOMAIN schema["digital_assets"].columns
      /\ UploadAsset \in schema["uploads"].constraints
  BY <1>2, SideIs DEF Side
<1>4. \A a \in Stored(asset) : asset[a].upload = Null
  BY <1>3 DEF MigrationsInv, AssetsFit, HasColumn
<1>5. \A u \in Stored(upload) : upload[u].asset # Null => upload[u].asset \in Stored(asset)
  BY <1>3 DEF MigrationsInv, UploadsFit, Enforces
<1>6. PICK earliest \in [Assets -> Uploads \union {Null}] :
         /\ \A a \in Assets : earliest[a] \in Earliest(UploadsOf(a))
         /\ asset' = [a \in Assets |->
                        IF a \in Stored(asset)
                        THEN [asset[a] EXCEPT !.upload = earliest[a]] ELSE NoRow]
  BY DEF DowngradeLinks
<1>7. upload' = [u \in Uploads |->
                   IF u \in Stored(upload) THEN [upload[u] EXCEPT !.asset = Null] ELSE NoRow]
  BY DEF DowngradeLinks
<1>8. Null \notin Uploads /\ Null \notin Assets
  BY MigrationAssumption
<1>9. Stored(asset)' = Stored(asset)
      /\ \A a \in Stored(asset) : asset'[a].upload = earliest[a]
  <2>1. \A a \in Stored(asset) :
           asset'[a] \in AssetRows /\ asset'[a].upload = earliest[a]
    <3> SUFFICES ASSUME NEW a \in Stored(asset)
                 PROVE  asset'[a] \in AssetRows /\ asset'[a].upload = earliest[a]
      OBVIOUS
    <3>1. a \in Assets /\ asset[a] \in AssetRows
      BY <1>1, StoredRows
    <3>2. asset'[a] = [asset[a] EXCEPT !.upload = earliest[a]]
      BY <1>6, <3>1
    <3>3. earliest[a] \in Uploads \union {Null}
      BY <1>6, <3>1
    <3>4. QED
      BY <3>1, <3>2, <3>3 DEF AssetRows
  <2>2. \A a \in Assets \ Stored(asset) : asset'[a] = NoRow
    BY <1>6
  <2>3. DOMAIN asset' = Assets /\ DOMAIN asset = Assets
    BY <1>1, <1>6 DEF RowsTyped
  <2>4. QED
    BY <1>1, <2>1, <2>2, <2>3, StoredRows, RowAssumption DEF Stored
<1>10. \A u \in Stored(upload)' : upload'[u].asset = Null
  BY <1>1, <1>7, StoredRows, LinkKept DEF Stored
<1>11. \A u \in Uploads, a \in Assets : Linked(u, a) <=> u \in UploadsOf(a)
  BY <1>1, <1>4, <1>8, StoredRows DEF Linked, UploadsOf
<1>12. \A u \in Uploads, a \in Assets :
          Linked(u, a)' <=> a \in Stored(asset) /\ earliest[a] = u
  BY <1>8, <1>9, <1>10 DEF Linked
<1>13. \A u \in Uploads, a \in Assets : Linked(u, a)' => Linked(u, a)
  BY <1>6, <1>8, <1>11, <1>12 DEF Earliest
<1>14. ASSUME NEW u \in Uploads, NEW a \in Assets, Linked(u, a)
       PROVE  \E v \in Uploads : Linked(v, a)'
  <2>1. u \in UploadsOf(a)
    BY <1>11, <1>14
  <2>2. a \in Stored(asset)
    BY <1>5, <1>8, <2>1 DEF UploadsOf
  <2>3. earliest[a] \in UploadsOf(a)
    BY <1>6, <2>1 DEF Earliest
  <2>4. earliest[a] \in Uploads
    BY <1>1, <2>3, StoredRows DEF UploadsOf
  <2>5. QED
    BY <1>12, <2>2, <2>4
<1>15. Links' \subseteq Links
  BY <1>13 DEF Links
<1>16. \A l \in Links : \E m \in Links' : m[2] = l[2]
  <2> SUFFICES ASSUME NEW l \in Links
               PROVE  \E m \in Links' : m[2] = l[2]
    OBVIOUS
  <2>1. PICK v \in Uploads : Linked(v, l[2])'
    BY <1>14 DEF Links
  <2>2. <<v, l[2]>> \in Links'
    BY <2>1 DEF Links
  <2>3. QED
    BY <2>2
<1>17. QED
  BY <1>15, <1>16

(* Every other migration leaves the links alone, as long as both tables    *)
(* are there.                                                              *)
LEMMA OthersKeep ==
    ASSUME MigrationsInv,
           \/ UpgradeTables \/ UpgradeJti \/ UpgradeContent
           \/ DowngradeTables \/ DowngradeJti \/ DowngradeFullName \/ DowngradeContent,
           {"uploads", "digital_assets"} \subseteq DOMAIN schema'
    PROVE  Links' = Links
<1>1. RowsTyped
  BY DEF MigrationsInv, RowsTyped
<1>2. CASE UpgradeTables \/ UpgradeJti \/ DowngradeJti \/ DowngradeFullName \/ DowngradeTables
  <2>1. upload' = upload /\ asset' = asset
    BY <1>2 DEF UpgradeTables, UpgradeJti, DowngradeJti, DowngradeFullName, DowngradeTables, rows
  <2>2. QED
    BY <2>1, SameLinks DEF Stored
<1>3. CASE UpgradeContent
  <2>1. /\ upload' = upload
        /\ asset' = [a \in Assets |->
                        IF a \in Stored(asset) /\ Kind[a] \in {"file", "file_hash"}
                        THEN [asset[a] EXCEPT !.sha = asset[a].checksum] ELSE asset[a]]
    BY <1>3 DEF UpgradeContent
  <2>2. \A a \in Stored(asset) :
           asset'[a] \in AssetRows /\ asset'[a].upload = asset[a].upload
    BY <1>1, <2>1, StoredRows, RecordKept
  <2>3. QED
    BY <1>1, <2>1, <2>2, SameLinks, StoredRows, RowAssumption DEF Stored
<1>4. CASE DowngradeContent
  <2>1. /\ upload' = upload
        /\ asset' = [a \in Assets |->
                        IF a \in Stored(asset) THEN [asset[a] EXCEPT !.sha = Null] ELSE NoRow]
    BY <1>4 DEF DowngradeContent
  <2>2. \A a \in Stored(asset) :
           asset'[a] \in AssetRows /\ asset'[a].upload = asset[a].upload
    BY <1>1, <2>1, StoredRows, RecordKept
  <2>3. QED
    BY <1>1, <2>1, <2>2, SameLinks, StoredRows, RowAssumption DEF Stored
<1>5. QED
  BY <1>2, <1>3, <1>4

-----------------------------------------------------------------------------
(* The theorems. *)

(* At every revision the schema is the one the upgrades build, and the     *)
(* rows fit it.                                                            *)
THEOREM MigrationsInvariance == Spec => []MigrationsInv
<1>1. QED
  BY MigrationsInit, MigrationsStep, PTL DEF Spec

(* Each downgrade() of src/backend/migrations/versions undoes its          *)
(* upgrade(): by whatever upgrades and downgrades a revision is reached,   *)
(* the schema is the one that the upgrades alone build.                    *)
THEOREM DowngradesUndo == Spec => []DowngradeUndoes
<1>1. MigrationsInv => DowngradeUndoes
  BY DEF MigrationsInv
<1>2. QED
  BY <1>1, MigrationsInvariance, PTL

(* At the head revision the database has exactly the tables, columns,      *)
(* nullability and constraints that the models of src/backend/app/models   *)
(* declare, every column holds what its model writes, and every            *)
(* enumeration's values pass the CHECK of their column.                    *)
THEOREM HeadIsModels == Spec => []HeadFitsModels
<1>1. ASSUME MigrationsInv
      PROVE  HeadFitsModels
  <2> SUFFICES ASSUME revision = Len(History)
               PROVE  /\ DOMAIN schema = DOMAIN metadata
                      /\ \A t \in DOMAIN metadata : Fits(metadata[t], schema[t])
                      /\ \A e \in Enumerated : OneOf(e[2], e[3]) \in schema[e[1]].constraints
    BY DEF HeadFitsModels, Fits
  <2>1. schema = SchemaAt(14)
    BY <1>1, HistoryIs, SchemaIs DEF MigrationsInv
  <2>2. /\ DOMAIN schema = DOMAIN metadata
        /\ \A t \in DOMAIN metadata : Fits(metadata[t], schema[t])
    BY <2>1, HeadFits
  <2>3. \A e \in Enumerated : OneOf(e[2], e[3]) \in schema[e[1]].constraints
    BY <2>2, EnumerationsFit DEF Fits
  <2>4. QED
    BY <2>2, <2>3
<1>2. QED
  BY <1>1, MigrationsInvariance, PTL

(* No migration invents a link of an upload and an asset, and the two that *)
(* turn the relation round lose none the new side can hold                 *)
(* (src/backend/migrations/versions, e5t3_upload_asset_fk), whatever rows  *)
(* were written between them.                                              *)
THEOREM LinksAreKept == Spec => LinksSurvive
<1>1. ASSUME MigrationsInv, [Next]_vars, revision' # revision,
             {"uploads", "digital_assets"} \subseteq DOMAIN schema'
      PROVE  /\ Links' \subseteq Links
             /\ revision' > revision => {l[1] : l \in Links'} = {l[1] : l \in Links}
             /\ revision' < revision => {l[2] : l \in Links'} = {l[2] : l \in Links}
  <2>1. Migrate
    BY <1>1 DEF Next, vars, Write, AddAccount, AddToken, AddUpload, CompleteUpload,
                DeleteUpload, AddAsset
  <2>2. CASE UpgradeLinks
    <3>1. revision \in Nat /\ revision' = revision + 1
      BY <1>1, <2>2, UpgradeToIs DEF UpgradeLinks
    <3>2. ~ (revision' < revision)
      BY <3>1
    <3>3. QED
      BY <1>1, <2>2, <3>2, UpgradeLinksKeeps
  <2>3. CASE DowngradeLinks
    <3>1. revision \in Nat /\ revision' = revision - 1
      BY <1>1, <2>3, DowngradeFromIs DEF DowngradeLinks
    <3>2. ~ (revision' > revision)
      BY <3>1
    <3>3. QED
      BY <1>1, <2>3, <3>2, DowngradeLinksKeeps
  <2>4. CASE ~ UpgradeLinks /\ ~ DowngradeLinks
    <3>1. Links' = Links
      BY <1>1, <2>1, <2>4, OthersKeep DEF Migrate
    <3>2. QED
      BY <3>1
  <2>5. QED
    BY <2>2, <2>3, <2>4
<1>2. MigrationsInv /\ [Next]_vars
        => [/\ revision' # revision
            /\ {"uploads", "digital_assets"} \subseteq DOMAIN schema'
            => /\ Links' \subseteq Links
               /\ revision' > revision => {l[1] : l \in Links'} = {l[1] : l \in Links}
               /\ revision' < revision => {l[2] : l \in Links'} = {l[2] : l \in Links}]_vars
  BY <1>1
<1>3. QED
  BY <1>2, MigrationsInvariance, PTL DEF Spec, LinksSurvive
===============================================================================
