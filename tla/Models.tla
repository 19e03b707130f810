-------------------------------- MODULE Models --------------------------------
(***************************************************************************)
(* The tables as the ORM models declare them: what the application reads   *)
(* and writes, whatever the database holds.                                *)
(***************************************************************************)
EXTENDS Tables

UserRole       == {"admin", "analyst", "viewer"}
UploadStatus   == {"pending", "processing", "completed", "failed"}
AssetType      == {"url", "domain", "ip_address", "file_hash", "file"}
AnalysisStatus == {"pending", "running", "completed", "failed", "cancelled"}
ReportStatus   == {"draft", "published", "archived"}

\* BaseModel: the columns every model inherits.
BaseColumns ==
    [id |-> Req("uuid"), created_at |-> Req("timestamptz"),
     updated_at |-> Req("timestamptz"), deleted_at |-> Opt("timestamptz")]

Model(columns, constraints) ==
    Table(columns ++ BaseColumns, constraints \union {PrimaryKey})

User == Model(
    [email |-> Req("varchar(320)"), password_hash |-> Req("varchar(255)"),
     full_name |-> Opt("varchar(255)"), role |-> Req("varchar(20)"),
     is_active |-> Req("boolean"), is_verified |-> Req("boolean")],
    {Unique({"email"}), OneOf("role", UserRole)})

UploadColumns ==
    [user_id |-> Req("uuid"), original_filename |-> Req("varchar(255)"),
     storage_key |-> Req("varchar(1024)"), content_type |-> Req("varchar(100)"),
     file_size_bytes |-> Req("integer"), checksum_sha256 |-> Opt("varchar(64)"),
     upload_status |-> Req("varchar(20)"), completed_at |-> Opt("timestamptz"),
     digital_asset_id |-> Opt("uuid"), idempotency_key |-> Opt("varchar(255)")]

UploadConstraints ==
    {Unique({"storage_key"}),
     UniqueWhere({"user_id", "idempotency_key"}, "idempotency_key"),
     OneOf("upload_status", UploadStatus),
     Check("file_size_bytes >= 0"),
     Check("digital_asset_id only when completed"),
     References("user_id", "users", "no action"),
     References("digital_asset_id", "digital_assets", "restrict")}

Upload == Model(UploadColumns, UploadConstraints)

DigitalAssetColumns ==
    [user_id |-> Req("uuid"), asset_type |-> Req("varchar(20)"),
     raw_value |-> Req("varchar(2048)"), normalized_value |-> Req("varchar(2048)"),
     display_label |-> Opt("varchar(512)"), sha256_hash |-> Opt("varchar(64)"),
     mime_type |-> Opt("varchar(100)"), size_bytes |-> Opt("bigint"),
     storage_key |-> Opt("varchar(1024)"), metadata |-> Opt("jsonb"),
     is_active |-> Req("boolean")]

DigitalAssetConstraints ==
    {Unique({"user_id", "normalized_value", "asset_type"}),
     UniqueWhere({"sha256_hash"}, "sha256_hash"),
     OneOf("asset_type", {"url", "domain", "ip_address", "file_hash", "file"}),
     Check("file and file_hash have sha256_hash"),
     Check("file has mime_type"), Check("file has size_bytes"),
     Check("sha256_hash format"),
     References("user_id", "users", "restrict")}

DigitalAsset == Model(DigitalAssetColumns, DigitalAssetConstraints)

AnalysisColumns ==
    [digital_asset_id |-> Req("uuid"), requested_by |-> Req("uuid"),
     analyzer_key |-> Req("varchar(255)"), analyzer_version |-> Req("varchar(50)"),
     status |-> Req("varchar(20)"), analyzer_slugs |-> Req("varchar[]"),
     retry_count |-> Req("integer"), celery_task_id |-> Opt("varchar(255)"),
     error_message |-> Opt("varchar(1024)"), error_code |-> Opt("varchar(100)"),
     threat_score |-> Opt("float"), confidence |-> Opt("float"),
     severity |-> Opt("varchar(20)"), reasoning_payload |-> Opt("jsonb"),
     enrichment_data |-> Opt("jsonb"), started_at |-> Opt("timestamptz"),
     completed_at |-> Opt("timestamptz")]

AnalysisConstraints ==
    {UniqueWhere({"digital_asset_id", "analyzer_key", "analyzer_version"}, "completed"),
     OneOf("status", {"pending", "running", "completed", "failed", "cancelled"}),
     OneOf("severity", {"LOW", "MEDIUM", "HIGH", "CRITICAL"}),
     Check("threat_score in 0..1"), Check("confidence in 0..1"),
     Check("retry_count >= 0"),
     References("digital_asset_id", "digital_assets", "restrict"),
     References("requested_by", "users", "restrict")}

Analysis == Model(AnalysisColumns, AnalysisConstraints)

AuditLogColumns ==
    [actor_id |-> Opt("uuid"), actor_role |-> Req("varchar(20)"),
     action |-> Req("varchar(100)"), resource_type |-> Req("varchar(100)"),
     resource_id |-> Req("uuid"), before_state |-> Opt("json"),
     after_state |-> Opt("json"), ip_address |-> Opt("inet"),
     request_id |-> Opt("varchar(255)"), user_agent |-> Opt("varchar(500)"),
     success |-> Req("boolean"), failure_reason |-> Opt("varchar(1000)"),
     occurred_at |-> Req("timestamptz")]

AuditLogConstraints ==
    {Unique({"actor_id", "resource_id", "occurred_at"}),
     References("actor_id", "users", "no action")}

AuditLog == Model(AuditLogColumns, AuditLogConstraints)

RefreshToken == Model(
    [user_id |-> Req("uuid"), jti |-> Req("varchar(256)"),
     token_hash |-> Req("varchar(64)"), expires_at |-> Req("timestamptz"),
     is_revoked |-> Req("boolean"), user_agent |-> Opt("varchar(512)"),
     ip_address |-> Opt("inet"), revoked_at |-> Opt("timestamptz")],
    {Unique({"jti"}), Unique({"token_hash"}),
     References("user_id", "users", "cascade")})

Report == Model(
    [asset_id |-> Req("uuid"), analysis_id |-> Opt("uuid"),
     created_by |-> Req("uuid"), title |-> Req("varchar(255)"),
     description |-> Opt("varchar(1000)"), status |-> Req("varchar(50)"),
     content |-> Opt("varchar")],
    {OneOf("status", ReportStatus),
     References("asset_id", "digital_assets", "no action"),
     References("analysis_id", "analyses", "no action"),
     References("created_by", "users", "no action")})

\* Base.metadata: every model of app.models, by its __tablename__.
metadata ==
    [users |-> User, uploads |-> Upload, digital_assets |-> DigitalAsset,
     analyses |-> Analysis, audit_logs |-> AuditLog,
     user_refresh_tokens |-> RefreshToken, reports |-> Report]

\* The enumeration whose values the application writes in a column.
Enumerated ==
    {<<"users", "role", UserRole>>, <<"uploads", "upload_status", UploadStatus>>,
     <<"digital_assets", "asset_type", AssetType>>,
     <<"analyses", "status", AnalysisStatus>>, <<"reports", "status", ReportStatus>>}
===============================================================================
