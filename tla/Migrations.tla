------------------------------ MODULE Migrations ------------------------------
(***************************************************************************)
(* The Alembic history of the database: what each revision does to the     *)
(* schema and to the rows that are there, in both directions, between any  *)
(* rows the constraints of the moment let the application write.           *)
(*                                                                         *)
(* A migration that leaves a row its schema forbids is refused by          *)
(* PostgreSQL, and the transaction of env.py leaves everything as it was.  *)
(* One command may run several revisions in one transaction; its committed *)
(* effect is that of the steps below, one after the other.                 *)
(*                                                                         *)
(* Of the rows, only what a migration reads or rewrites is kept: the       *)
(* password hash and full name of an account, the jti of a refresh token,  *)
(* the content an asset describes, and the links of uploads and assets.    *)
(***************************************************************************)
EXTENDS Models, Naturals, Sequences, FiniteSets

CONSTANTS
    Tokens,     \* refresh tokens that may be stored
    Uploads,
    Assets,
    Kind,       \* the asset_type of each asset,
    Owner,      \* its user
    Value,      \* and its normalized_value
    Checksums,  \* valid SHA-256 hashes
    MaxRows,    \* bound: the rows there are at a time
    NoRow, Null, Blank

ASSUME MigrationAssumption ==
    /\ Kind \in [Assets -> AssetType]
    /\ DOMAIN Owner = Assets /\ DOMAIN Value = Assets
    /\ MaxRows \in Nat
    /\ Cardinality({NoRow, Null, Blank}) = 3
    /\ {NoRow, Null, Blank} \intersect (Tokens \union Uploads \union Assets \union Checksums) = {}

VARIABLES
    revision,   \* alembic_version: how many revisions of History are applied
    schema,     \* the tables of the database
    account,    \* an account: the length of its hash, its full name
    token,      \* the jti of each refresh token
    upload,     \* of each upload: is it completed, which asset it links to
    asset       \* of each asset: metadata checksum, sha256_hash, its upload

rows == <<account, token, upload, asset>>
vars == <<revision, schema, rows>>

-------------------------------------------------------------------------------
(***************************************************************************)
(* The revisions, upgrade and downgrade, as functions of the schema.       *)
(***************************************************************************)

\* The columns that every create_table lists.
Identified == [id |-> Req("uuid"), created_at |-> Req("timestamptz"),
               updated_at |-> Req("timestamptz")]
SoftDeleted == Identified ++ [deleted_at |-> Opt("timestamptz")]

UsersTable == Table(SoftDeleted ++
    [email |-> Req("varchar(320)"), password_hash |-> Req("varchar(60)"),
     full_name |-> Req("varchar(255)"), role |-> Req("varchar(20)"),
     is_active |-> Req("boolean"), is_verified |-> Req("boolean")],
    {PrimaryKey, Unique({"email"}), OneOf("role", {"admin", "analyst", "viewer"})})

CreateUsers(s) == AddTable(s, "users", UsersTable)
DropUsers(s)   == DropTable(s, "users")

UploadsTable == Table(Identified ++
    [user_id |-> Req("uuid"), original_filename |-> Req("varchar(255)"),
     storage_key |-> Req("varchar(1024)"), content_type |-> Req("varchar(100)"),
     file_size_bytes |-> Req("bigint"), checksum_sha256 |-> Opt("varchar(64)"),
     upload_status |-> Req("varchar(20)"), completed_at |-> Opt("timestamptz")],
    {PrimaryKey, Unique({"storage_key"}), Check("file_size_bytes >= 0"),
     OneOf("upload_status", {"pending", "processing", "completed", "failed"}),
     References("user_id", "users", "no action")})

CreateUploads(s) == AddTable(s, "uploads", UploadsTable)
DropUploads(s)   == DropTable(s, "uploads")

GlobalValue == Unique({"normalized_value", "asset_type"})
OwnValue    == Unique({"user_id", "normalized_value", "asset_type"})
FileUpload  == Check("file if and only if upload_id")
AssetUpload == References("upload_id", "uploads", "set null")

DigitalAssetsTable == Table(SoftDeleted ++
    [user_id |-> Req("uuid"), upload_id |-> Opt("uuid"),
     asset_type |-> Req("varchar(20)"), raw_value |-> Req("varchar(2048)"),
     normalized_value |-> Req("varchar(2048)"), display_label |-> Opt("varchar(512)"),
     metadata |-> Opt("jsonb"), is_active |-> Req("boolean")],
    {PrimaryKey, GlobalValue, FileUpload, AssetUpload,
     OneOf("asset_type", {"url", "domain", "ip_address", "file_hash", "file"}),
     References("user_id", "users", "restrict")})

CreateDigitalAssets(s) == AddTable(s, "digital_assets", DigitalAssetsTable)
DropDigitalAssets(s)   == DropTable(s, "digital_assets")

AnalysesTable == Table(Identified ++
    [digital_asset_id |-> Req("uuid"), requested_by |-> Req("uuid"),
     analyzer_key |-> Req("varchar(255)"), analyzer_version |-> Req("varchar(50)"),
     status |-> Req("varchar(20)"), analyzer_slugs |-> Req("varchar[]"),
     retry_count |-> Req("integer"), celery_task_id |-> Opt("varchar(255)"),
     error_message |-> Opt("varchar(1024)"), error_code |-> Opt("varchar(100)"),
     threat_score |-> Opt("float"), confidence |-> Opt("float"),
     severity |-> Opt("varchar(20)"), reasoning_payload |-> Opt("jsonb"),
     enrichment_data |-> Opt("jsonb"), started_at |-> Opt("timestamptz"),
     completed_at |-> Opt("timestamptz")],
    {PrimaryKey, OneOf("severity", {"LOW", "MEDIUM", "HIGH", "CRITICAL"}),
     OneOf("status", {"pending", "running", "completed", "failed", "cancelled"}),
     Check("confidence in 0..1"), Check("retry_count >= 0"),
     Check("threat_score in 0..1"),
     References("digital_asset_id", "digital_assets", "restrict"),
     References("requested_by", "users", "restrict"),
     UniqueWhere({"digital_asset_id", "analyzer_key", "analyzer_version"}, "completed")})

CreateAnalyses(s) == AddTable(s, "analyses", AnalysesTable)
DropAnalyses(s)   == DropTable(s, "analyses")

AuditLogsTable == Table(SoftDeleted ++
    [actor_id |-> Opt("uuid"), actor_role |-> Req("varchar(20)"),
     action |-> Req("varchar(100)"), resource_type |-> Req("varchar(100)"),
     resource_id |-> Req("uuid"), before_state |-> Opt("json"),
     after_state |-> Opt("json"), ip_address |-> Opt("inet"),
     request_id |-> Opt("varchar(255)"), user_agent |-> Opt("varchar(500)"),
     success |-> Req("boolean"), failure_reason |-> Opt("varchar(1000)"),
     occurred_at |-> Req("timestamptz")],
    {PrimaryKey, Unique({"actor_id", "resource_id", "occurred_at"}),
     References("actor_id", "users", "no action")})

CreateAuditLogs(s) == AddTable(s, "audit_logs", AuditLogsTable)
DropAuditLogs(s)   == DropTable(s, "audit_logs")

RefreshTokensTable == Table(SoftDeleted ++
    [user_id |-> Req("uuid"), token_hash |-> Req("varchar(64)"),
     expires_at |-> Req("timestamptz"), is_revoked |-> Req("boolean"),
     user_agent |-> Opt("varchar(512)"), ip_address |-> Opt("inet"),
     revoked_at |-> Opt("timestamptz")],
    {PrimaryKey, Unique({"token_hash"}), References("user_id", "users", "cascade")})

CreateRefreshTokens(s) == AddTable(s, "user_refresh_tokens", RefreshTokensTable)
DropRefreshTokens(s)   == DropTable(s, "user_refresh_tokens")

ReportsTable == Table(SoftDeleted ++
    [asset_id |-> Req("uuid"), analysis_id |-> Opt("uuid"),
     created_by |-> Req("uuid"), title |-> Req("varchar(255)"),
     description |-> Opt("varchar(1000)"), status |-> Req("varchar(50)"),
     content |-> Opt("text")],
    {PrimaryKey, OneOf("status", {"draft", "published", "archived"}),
     References("asset_id", "digital_assets", "no action"),
     References("analysis_id", "analyses", "no action"),
     References("created_by", "users", "no action")})

CreateReports(s) == AddTable(s, "reports", ReportsTable)
DropReports(s)   == DropTable(s, "reports")

WidenPasswordHash(s)  == AlterColumn(s, "users", "password_hash", Req("varchar(255)"))
NarrowPasswordHash(s) == AlterColumn(s, "users", "password_hash", Req("varchar(60)"))

AddJti(s) ==
    LET added == AddColumn(s, "user_refresh_tokens", "jti", Opt("varchar(256)"))
        set   == AlterColumn(added, "user_refresh_tokens", "jti", Req("varchar(256)"))
    IN  AddConstraint(set, "user_refresh_tokens", Unique({"jti"}))

RemoveJti(s) ==
    DropColumn(DropConstraint(s, "user_refresh_tokens", Unique({"jti"})),
               "user_refresh_tokens", "jti")

FullNameOptional(s) == AlterColumn(s, "users", "full_name", Opt("varchar(255)"))
FullNameRequired(s) == AlterColumn(s, "users", "full_name", Req("varchar(255)"))

\* Mutant: the second table is forgotten.
AddDeletedAtOnce(s) == AddColumn(s, "uploads", "deleted_at", Opt("timestamptz"))

AddDeletedAt(s) ==
    AddColumn(AddColumn(s, "uploads", "deleted_at", Opt("timestamptz")),
              "analyses", "deleted_at", Opt("timestamptz"))

RemoveDeletedAt(s) ==
    DropColumn(DropColumn(s, "analyses", "deleted_at"), "uploads", "deleted_at")

\* What the content-identity columns must hold.
ContentColumns == [sha256_hash |-> Opt("varchar(64)"), mime_type |-> Opt("varchar(100)"),
                   size_bytes |-> Opt("bigint"), storage_key |-> Opt("varchar(1024)")]
ContentChecks  == {Check("file and file_hash have sha256_hash"), Check("file has mime_type"),
                   Check("file has size_bytes"), Check("sha256_hash format")}
UniqueContent  == UniqueWhere({"sha256_hash"}, "sha256_hash")

Reconcile(s) ==
    [s EXCEPT !["digital_assets"] =
        Table(@.columns ++ ContentColumns,
              (@.constraints \ {GlobalValue})
                  \union {OwnValue, UniqueContent} \union ContentChecks)]

Unreconcile(s) ==
    [s EXCEPT !["digital_assets"] =
        Table(Restrict(@.columns, DOMAIN @.columns \ DOMAIN ContentColumns),
              (@.constraints \ ({OwnValue, UniqueContent} \union ContentChecks))
                  \union {GlobalValue})]

UploadAsset    == References("digital_asset_id", "digital_assets", "restrict")
AssetCompleted == Check("digital_asset_id only when completed")

LinkFromUpload(s) ==
    LET linked == AddColumn(s, "uploads", "digital_asset_id", Opt("uuid"))
        held   == AddConstraint(AddConstraint(linked, "uploads", UploadAsset),
                                "uploads", AssetCompleted)
        freed  == DropConstraint(DropConstraint(held, "digital_assets", FileUpload),
                                 "digital_assets", AssetUpload)
    IN  DropColumn(freed, "digital_assets", "upload_id")

\* Mutant: the CHECK of the old side is not restored.
LinkFromAssetUnchecked(s) ==
    LET linked == AddColumn(s, "digital_assets", "upload_id", Opt("uuid"))
        held   == AddConstraint(linked, "digital_assets", AssetUpload)
        freed  == DropConstraint(DropConstraint(held, "uploads", AssetCompleted),
                                 "uploads", UploadAsset)
    IN  DropColumn(freed, "uploads", "digital_asset_id")

LinkFromAsset(s) ==
    LET linked == AddColumn(s, "digital_assets", "upload_id", Opt("uuid"))
        held   == AddConstraint(AddConstraint(linked, "digital_assets", AssetUpload),
                                "digital_assets", FileUpload)
        freed  == DropConstraint(DropConstraint(held, "uploads", AssetCompleted),
                                 "uploads", UploadAsset)
    IN  DropColumn(freed, "uploads", "digital_asset_id")

IdempotencyKey == UniqueWhere({"user_id", "idempotency_key"}, "idempotency_key")

AddIdempotencyKey(s) ==
    AddConstraint(AddColumn(s, "uploads", "idempotency_key", Opt("varchar(255)")),
                  "uploads", IdempotencyKey)

RemoveIdempotencyKey(s) ==
    DropColumn(DropConstraint(s, "uploads", IdempotencyKey), "uploads", "idempotency_key")

\* The revisions, each with the one it revises before it.
History ==
    <<"de771966819d", "85764e04d85a", "1f4a7b8c", "baf6d10dde4e", "9c8e3f5b",
      "a8f2b3c1", "create_reports", "increase_password_hash_argon2",
      "add_jti_to_refresh_tokens", "make_full_name_optional", "66ffcf8ae2f3",
      "reconcile_digital_assets", "e5t3_upload_asset_fk", "e5t4_upload_idempotency">>

Upgraded(s, name) ==
    CASE name = "de771966819d"   -> CreateUsers(s)
      [] name = "85764e04d85a"   -> CreateUploads(s)
      [] name = "1f4a7b8c"       -> CreateDigitalAssets(s)
      [] name = "baf6d10dde4e"   -> CreateAnalyses(s)
      [] name = "9c8e3f5b"       -> CreateAuditLogs(s)
      [] name = "a8f2b3c1"       -> CreateRefreshTokens(s)
      [] name = "create_reports" -> CreateReports(s)
      [] name = "increase_password_hash_argon2" -> WidenPasswordHash(s)
      [] name = "add_jti_to_refresh_tokens"     -> AddJti(s)
      [] name = "make_full_name_optional"       -> FullNameOptional(s)
      [] name = "66ffcf8ae2f3"                  -> AddDeletedAt(s)
      [] name = "reconcile_digital_assets"      -> Reconcile(s)
      [] name = "e5t3_upload_asset_fk"          -> LinkFromUpload(s)
      [] name = "e5t4_upload_idempotency"       -> AddIdempotencyKey(s)

Downgraded(s, name) ==
    CASE name = "de771966819d"   -> DropUsers(s)
      [] name = "85764e04d85a"   -> DropUploads(s)
      [] name = "1f4a7b8c"       -> DropDigitalAssets(s)
      [] name = "baf6d10dde4e"   -> DropAnalyses(s)
      [] name = "9c8e3f5b"       -> DropAuditLogs(s)
      [] name = "a8f2b3c1"       -> DropRefreshTokens(s)
      [] name = "create_reports" -> DropReports(s)
      [] name = "increase_password_hash_argon2" -> NarrowPasswordHash(s)
      [] name = "add_jti_to_refresh_tokens"     -> RemoveJti(s)
      [] name = "make_full_name_optional"       -> FullNameRequired(s)
      [] name = "66ffcf8ae2f3"                  -> RemoveDeletedAt(s)
      [] name = "reconcile_digital_assets"      -> Unreconcile(s)
      [] name = "e5t3_upload_asset_fk"          -> LinkFromAsset(s)
      [] name = "e5t4_upload_idempotency"       -> RemoveIdempotencyKey(s)

NoTables == [t \in {} |-> NoRow]

-------------------------------------------------------------------------------
(***************************************************************************)
(* The rows, and what the schema demands of them.                          *)
(***************************************************************************)

Stored(table) == {r \in DOMAIN table : table[r] # NoRow}
RowCount ==
    Cardinality(Stored(upload)) + Cardinality(Stored(asset)) + Cardinality(Stored(token))
        + (IF account = NoRow THEN 0 ELSE 1)

AccountFits(s) ==
    account # NoRow =>
        /\ "users" \in DOMAIN s
        /\ account.hash > 60 => s["users"].columns["password_hash"].type # "varchar(60)"
        /\ account.name = Null => s["users"].columns["full_name"].nullable

TokensFit(s) ==
    LET present == {t \in Stored(token) : token[t] # Null}
    IN  /\ Stored(token) # {} => "user_refresh_tokens" \in DOMAIN s
        /\ present # {} => HasColumn(s, "user_refresh_tokens", "jti")
        /\ Enforces(s, "user_refresh_tokens", Unique({"jti"})) => IsInjective(Restrict(token, present))
        /\ HasColumn(s, "user_refresh_tokens", "jti") /\ present # Stored(token) =>
               s["user_refresh_tokens"].columns["jti"].nullable

UploadsFit(s) ==
    /\ Stored(upload) # {} => "uploads" \in DOMAIN s
    /\ \A u \in Stored(upload) : upload[u].asset # Null =>
           /\ HasColumn(s, "uploads", "digital_asset_id")
           /\ Enforces(s, "uploads", UploadAsset) => upload[u].asset \in Stored(asset)
           /\ Enforces(s, "uploads", AssetCompleted) => upload[u].completed

AssetsFit(s) ==
    LET stored    == Stored(asset)
        described == {a \in stored : asset[a].sha # Null}
    IN  /\ stored # {} => "digital_assets" \in DOMAIN s
        /\ described # {} => HasColumn(s, "digital_assets", "sha256_hash")
        /\ Enforces(s, "digital_assets", GlobalValue) =>
               IsInjective([a \in stored |-> <<Kind[a], Value[a]>>])
        /\ Enforces(s, "digital_assets", OwnValue) =>
               IsInjective([a \in stored |-> <<Owner[a], Kind[a], Value[a]>>])
        /\ Enforces(s, "digital_assets", UniqueContent) =>
               IsInjective([a \in described |-> asset[a].sha])
        /\ \A a \in stored :
               /\ asset[a].upload # Null =>
                      /\ HasColumn(s, "digital_assets", "upload_id")
                      /\ Enforces(s, "digital_assets", AssetUpload) =>
                             asset[a].upload \in Stored(upload)
               /\ Enforces(s, "digital_assets", FileUpload) =>
                      ((Kind[a] = "file") <=> (asset[a].upload # Null))
               /\ Enforces(s, "digital_assets", Check("file and file_hash have sha256_hash"))
                      /\ Kind[a] \in {"file", "file_hash"} => asset[a].sha # Null

\* The rows may stand in the tables of s.
RowsFit(s) == AccountFits(s) /\ TokensFit(s) /\ UploadsFit(s) /\ AssetsFit(s)

\* A statement that would leave rows the schema forbids is refused.
Accepted == RowsFit(schema)' /\ RowCount' <= MaxRows

-------------------------------------------------------------------------------
(***************************************************************************)
(* alembic upgrade.                                                        *)
(***************************************************************************)

UpgradeTo(name) ==
    /\ revision < Len(History)
    /\ name = History[revision + 1]
    /\ revision' = revision + 1
    /\ schema' = Upgraded(schema, name)

\* The revisions that rewrite rows on the way up.
Rewriting == {"add_jti_to_refresh_tokens", "reconcile_digital_assets", "e5t3_upload_asset_fk"}

UpgradeTables ==
    /\ \E name \in Range(History) \ Rewriting : UpgradeTo(name)
    /\ UNCHANGED rows
    /\ Accepted

\* The empty string for every token stored before there was a jti.
UpgradeJti ==
    /\ UpgradeTo("add_jti_to_refresh_tokens")
    /\ token' = [t \in Tokens |-> IF token[t] = Null THEN Blank ELSE token[t]]
    /\ UNCHANGED <<account, upload, asset>>
    /\ Accepted

\* The hash of each file and file_hash, as far as the metadata tells it.
UpgradeContent ==
    /\ UpgradeTo("reconcile_digital_assets")
    /\ asset' = [a \in Assets |->
                    IF a \in Stored(asset) /\ Kind[a] \in {"file", "file_hash"}
                    THEN [asset[a] EXCEPT !.sha = asset[a].checksum] ELSE asset[a]]
    /\ UNCHANGED <<account, token, upload>>
    /\ Accepted

\* Mutant: the new column is left without its backfill.
Unfilled(set) == {Null}

\* The earliest of what links to each row; the order of creation is any.
Earliest(set) == IF set = {} THEN {Null} ELSE set
AssetsOf(u)   == {a \in Stored(asset) : asset[a].upload = u}
UploadsOf(a)  == {u \in Stored(upload) : upload[u].asset = a}

UpgradeLinks ==
    /\ UpgradeTo("e5t3_upload_asset_fk")
    /\ \E earliest \in [Uploads -> Assets \union {Null}] :
           /\ \A u \in Uploads : earliest[u] \in Earliest(AssetsOf(u))
           /\ upload' = [u \in Uploads |->
                            IF u \in Stored(upload)
                            THEN [upload[u] EXCEPT !.asset = earliest[u]] ELSE NoRow]
    /\ asset' = [a \in Assets |->
                    IF a \in Stored(asset) THEN [asset[a] EXCEPT !.upload = Null] ELSE NoRow]
    /\ UNCHANGED <<account, token>>
    /\ Accepted

-------------------------------------------------------------------------------
(***************************************************************************)
(* alembic downgrade.                                                      *)
(***************************************************************************)

DowngradeFrom(name) ==
    /\ revision > 0
    /\ name = History[revision]
    /\ revision' = revision - 1
    /\ schema' = Downgraded(schema, name)

Losing == {"add_jti_to_refresh_tokens", "make_full_name_optional",
           "reconcile_digital_assets", "e5t3_upload_asset_fk"}

\* A table that is dropped takes its rows with it.
DowngradeTables ==
    /\ \E name \in Range(History) \ Losing : DowngradeFrom(name)
    /\ account' = IF "users" \in DOMAIN schema' THEN account ELSE NoRow
    /\ token'   = IF "user_refresh_tokens" \in DOMAIN schema' THEN token
                  ELSE [t \in Tokens |-> NoRow]
    /\ upload'  = IF "uploads" \in DOMAIN schema' THEN upload ELSE [u \in Uploads |-> NoRow]
    /\ asset'   = IF "digital_assets" \in DOMAIN schema' THEN asset
                  ELSE [a \in Assets |-> NoRow]
    /\ Accepted

DowngradeJti ==
    /\ DowngradeFrom("add_jti_to_refresh_tokens")
    /\ token' = [t \in Tokens |-> IF token[t] = NoRow THEN NoRow ELSE Null]
    /\ UNCHANGED <<account, upload, asset>>
    /\ Accepted

\* The empty string for an account without a full name.
DowngradeFullName ==
    /\ DowngradeFrom("make_full_name_optional")
    /\ account' = IF account # NoRow /\ account.name = Null
                  THEN [account EXCEPT !.name = Blank] ELSE account
    /\ UNCHANGED <<token, upload, asset>>
    /\ Accepted

DowngradeContent ==
    /\ DowngradeFrom("reconcile_digital_assets")
    /\ asset' = [a \in Assets |->
                    IF a \in Stored(asset) THEN [asset[a] EXCEPT !.sha = Null] ELSE NoRow]
    /\ UNCHANGED <<account, token, upload>>
    /\ Accepted

DowngradeLinks ==
    /\ DowngradeFrom("e5t3_upload_asset_fk")
    /\ \E earliest \in [Assets -> Uploads \union {Null}] :
           /\ \A a \in Assets : earliest[a] \in Earliest(UploadsOf(a))
           /\ asset' = [a \in Assets |->
                           IF a \in Stored(asset)
                           THEN [asset[a] EXCEPT !.upload = earliest[a]] ELSE NoRow]
    /\ upload' = [u \in Uploads |->
                     IF u \in Stored(upload) THEN [upload[u] EXCEPT !.asset = Null] ELSE NoRow]
    /\ UNCHANGED <<account, token>>
    /\ Accepted

-------------------------------------------------------------------------------
(***************************************************************************)
(* What the application of the day writes, as far as the tables admit it.  *)
(***************************************************************************)

AddAccount ==
    /\ account = NoRow
    /\ \E hash \in {60, 97}, name \in {"given", Null} :
           account' = [hash |-> hash, name |-> name]
    /\ UNCHANGED <<revision, schema, token, upload, asset>>
    /\ Accepted

AddToken(t) ==
    /\ token[t] = NoRow
    /\ token' = [token EXCEPT ![t] =
                    IF HasColumn(schema, "user_refresh_tokens", "jti") THEN t ELSE Null]
    /\ UNCHANGED <<revision, schema, account, upload, asset>>
    /\ Accepted

AddUpload(u) ==
    /\ upload[u] = NoRow
    /\ upload' = [upload EXCEPT ![u] = [completed |-> FALSE, asset |-> Null]]
    /\ UNCHANGED <<revision, schema, account, token, asset>>
    /\ Accepted

\* Since e5t3 the completion carries the link.
CompleteUpload(u) ==
    /\ upload[u] # NoRow /\ ~upload[u].completed
    /\ \E a \in IF HasColumn(schema, "uploads", "digital_asset_id") THEN Assets ELSE {Null} :
           upload' = [upload EXCEPT ![u] = [completed |-> TRUE, asset |-> a]]
    /\ UNCHANGED <<revision, schema, account, token, asset>>
    /\ Accepted

\* The hash goes to the metadata while there is no column for it.
AddAsset(a) ==
    /\ asset[a] = NoRow
    /\ \E content \in Checksums \union {Null}, u \in Uploads \union {Null} :
           /\ Kind[a] \notin {"file", "file_hash"} => content = Null
           /\ asset' = [asset EXCEPT ![a] =
                  IF HasColumn(schema, "digital_assets", "sha256_hash")
                  THEN [checksum |-> Null, sha |-> content, upload |-> u]
                  ELSE [checksum |-> content, sha |-> Null, upload |-> u]]
    /\ UNCHANGED <<revision, schema, account, token, upload>>
    /\ Accepted

\* ON DELETE SET NULL for an asset that names the upload.
DeleteUpload(u) ==
    /\ upload[u] # NoRow
    /\ upload' = [upload EXCEPT ![u] = NoRow]
    /\ asset' = [a \in Assets |-> IF a \in AssetsOf(u)
                                  THEN [asset[a] EXCEPT !.upload = Null] ELSE asset[a]]
    /\ UNCHANGED <<revision, schema, account, token>>
    /\ Accepted

-------------------------------------------------------------------------------

Init ==
    /\ revision = 0
    /\ schema = NoTables
    /\ account = NoRow
    /\ token = [t \in Tokens |-> NoRow]
    /\ upload = [u \in Uploads |-> NoRow]
    /\ asset = [a \in Assets |-> NoRow]

Migrate ==
    \/ UpgradeTables \/ UpgradeJti \/ UpgradeContent \/ UpgradeLinks
    \/ DowngradeTables \/ DowngradeJti \/ DowngradeFullName
    \/ DowngradeContent \/ DowngradeLinks

Write ==
    \/ AddAccount
    \/ \E t \in Tokens : AddToken(t)
    \/ \E u \in Uploads : AddUpload(u) \/ CompleteUpload(u) \/ DeleteUpload(u)
    \/ \E a \in Assets : AddAsset(a)

Next == Migrate \/ Write

Spec == Init /\ [][Next]_vars

-------------------------------------------------------------------------------

\* What a model writes the column holds, and the other way round.
Holds(model, column) ==
    /\ model.nullable = column.nullable
    /\ \/ model.type = column.type
       \/ <<model.type, column.type>> \in {<<"integer", "bigint">>, <<"varchar", "text">>}

(***************************************************************************)
(* The database a full upgrade leaves is the one the models were written   *)
(* for: the same tables, columns, nullability and constraints, column      *)
(* types that hold what the model holds, and a constraint that admits      *)
(* every value of the enumeration of its column.                           *)
(***************************************************************************)
HeadFitsModels ==
    revision = Len(History) =>
        /\ DOMAIN schema = DOMAIN metadata
        /\ \A t \in DOMAIN metadata :
               LET model == metadata[t] table == schema[t]
               IN  /\ DOMAIN model.columns = DOMAIN table.columns
                   /\ \A c \in DOMAIN model.columns :
                          Holds(model.columns[c], table.columns[c])
                   /\ model.constraints = table.constraints
        /\ \A e \in Enumerated : OneOf(e[2], e[3]) \in schema[e[1]].constraints

\* The schema of each revision, reached upwards from the empty database.
Built[r \in 0 .. Len(History)] ==
    IF r = 0 THEN NoTables ELSE Upgraded(Built[r - 1], History[r])

(***************************************************************************)
(* A downgrade undoes its upgrade: whatever upgrades and downgrades led to *)
(* a revision, the schema is the one the upgrades alone build.             *)
(***************************************************************************)
DowngradeUndoes == schema = Built[revision]

\* The pairs of upload and asset that either side of the relation records.
Linked(u, a) == \/ u \in Stored(upload) /\ upload[u].asset = a
                \/ a \in Stored(asset) /\ asset[a].upload = u
Links == {l \in Uploads \X Assets : Linked(l[1], l[2])}

(***************************************************************************)
(* A migration invents no link of an upload and an asset, and turning the  *)
(* relation round loses none that the new side can hold: every upload an   *)
(* asset named, and on the way back every asset an upload named, is still  *)
(* linked.  Only dropping one of the tables ends links.                    *)
(***************************************************************************)
LinksSurvive ==
    [][/\ revision' # revision
       /\ {"uploads", "digital_assets"} \subseteq DOMAIN schema'
       => /\ Links' \subseteq Links
          /\ revision' > revision => {l[1] : l \in Links'} = {l[1] : l \in Links}
          /\ revision' < revision => {l[2] : l \in Links'} = {l[2] : l \in Links}]_vars

-------------------------------------------------------------------------------
(***************************************************************************)
(* The inductive invariant: the schema is the one of its revision, and the *)
(* rows fit it.                                                            *)
(***************************************************************************)

UploadRows == [completed : BOOLEAN, asset : Assets \union {Null}]
AssetRows  == [checksum : Checksums \union {Null}, sha : Checksums \union {Null},
               upload : Uploads \union {Null}]

ASSUME RowAssumption == NoRow \notin UploadRows \union AssetRows

MigrationsInv ==
    /\ revision \in 0 .. Len(History)
    /\ upload \in [Uploads -> UploadRows \union {NoRow}]
    /\ asset \in [Assets -> AssetRows \union {NoRow}]
    /\ DowngradeUndoes
    /\ UploadsFit(schema) /\ AssetsFit(schema)
===============================================================================
