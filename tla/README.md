# A verification of Sentinel

Sentinel (`src/`) is an API that takes digital assets (files, URLs, ...), runs
analyzers on them in worker processes and keeps the results. This directory
holds TLA+ models of it, configurations for TLC, and proofs for TLAPS. All paths
below are relative to `src/backend/app/` unless they start with `src/`.

1. The system: inventory
2. What is modelled, and how it corresponds to the code
3. What each run checks, and its bounds
4. Fairness
5. What is proved
6. What the models leave out
7. Disagreements met
8. Plan

## 1. The system

The API is one asyncio process (FastAPI, SQLAlchemy with asyncpg); workers are
separate processes; PostgreSQL, Redis (Celery/Kombu as broker, and counters) and
an S3 store are shared by all of them. There is no in-process lock worth the name:
**every coordination goes through PostgreSQL transactions and the broker**, and
every `await` is a place where another request or worker may run.

| Component | State | Operations | Hard behaviour |
|---|---|---|---|
| Analysis life cycle (`domain/entities/analysis.py`, `infrastructure/database/repositories/{base,analysis}.py`, `models/analysis.py`) | rows of `analyses`; unique index over completed ones | `start`, `complete`, `fail`, `cancel`; `create`, `get_by_id`, `update`, `delete` | `update` is SELECT, setattr, UPDATE of changed columns: lost updates, rows mixed from two writers |
| Analysis service and routes (`application/services/analysis_service.py`, `api/v1/routes/analyses.py`) | a request's transaction | request (idempotent on a completed triple), cancel, get, list | publishes before it commits; commits after the handler returned |
| Queue adapter (`infrastructure/queue/redis_queue.py`) | broker messages, claims in memory | `publish`, `claim`, `ack`, `nack` | at-least-once delivery, duplicates, redelivery of a dead consumer's claims |
| Analysis worker (`workers/analysis_worker/`) | a claim and a transaction | `process_once`, `_handle_failure`, the loop of `run_worker` | acknowledges before it commits; crash, timeout, retry from a stale entity |
| Refresh tokens (`application/services/auth_service.py`, `.../repositories/refresh_token.py`) | token rows | login, refresh (rotation), logout, logout everywhere | concurrent rotation, a token born during logout everywhere |
| Accounts (`application/services/{auth,user}_service.py`, `.../repositories/user.py`) | user rows | register, login, update, deactivate | check-then-insert, a target that is read once and written from later, roles checked on a stale caller |
| Audit (`domain/services/audit_service.py`) | append-only rows | one insert per event, in the caller's transaction | a failed insert poisons that transaction |
| Rate limiter (`api/v1/middleware/rate_limit.py`) | a counter per address and minute | `dispatch` | INCR and EXPIRE apart, fail-open paths |
| Uploads (`application/services/upload_service.py`, `.../repositories/{upload,digital_asset}.py`) | upload and asset rows, objects | `process_upload`, `_resolve_asset`, `_fail_upload`, deletion | two stores without a common transaction, idempotency key and content races |
| Upload cleanup (`workers/scheduled/upload_cleanup.py`) | pending uploads older than 24 h | one batch | partial failure, race with an upload still running |
| File validation (`utils/file_validation.py`) | the sniffed prefix | declared type, magic bytes, text; replay of what was sniffed | chunk boundaries against the window |
| Object storage (`infrastructure/storage/s3_adapter.py`) | parts of a multipart upload | stream, delete, download, presign | part boundaries, abort after a failed part, a completion whose answer is lost |
| Lists (`repositories/*.py`, `api/v1/routes/*.py`) | none | COUNT and page SELECT | pages shift under a client that walks them; a list decides apart from `get` who may see what |
| Migrations (`src/backend/migrations/versions/`) and models (`models/`) | the schema, `alembic_version` | 14 revisions, up and down | rows that a revision must rewrite; ORM and database drifting apart |
| Analyzers, settings, wiring, logging, schemas, JWT, password hashing, reports, health | none over time | | |

How they interact: `POST /assets/{id}/analyses` inserts a row and publishes a job
with its id; a worker claims the job, reads the row, runs the analyzer on the
asset's object, writes the outcome into the row and acknowledges; a cancel request
writes the same row. Uploads create the assets: the request's body passes the
validation and the tee into the S3 adapter, then the rows are written. Login,
refresh and deactivation decide who may call; the rate limiter stands before every
handler. Everything a request writes, audit entries included, is one
transaction that `get_db_session` commits after the handler has returned (with
FastAPI since 0.118, after the response has been sent; `src/pyproject.toml:52` admits both).

What makes each component correct:

- *Analyses*: a finished analysis is never active again; there is one completed
  analysis per asset, analyzer and version; the count of attempts is bounded; every
  row can be read back; an unfinished analysis keeps its job, but in the windows the
  code leaves open; what a worker began gets finished.
- *Tokens*: of concurrent refreshes of one token exactly one issues a new token;
  after logout everywhere or deactivation none is usable.
- *Accounts*: one account per address as it was typed; only administrators change roles or end
  accounts; an ended account stays so; the audit trail tells how every account came
  to be what it is.
- *Rate limiter*: at most `limit` requests per address and minute, and no 429 without cause.
- *Uploads*: an asset's object exists; a content hash names one asset; one
  idempotency key gives one upload; a recorded upload leads to the asset of its bytes;
  a failed one is recorded as failed (which the code does not keep).
- *Validation, storage*: the fate of a file does not depend on how the network cuts
  it; what is stored is the file; memory stays bounded; no parts are left that nobody tried to remove.
- *Lists*: a client that walks a list misses nothing that was there and stays there,
  and sees nothing it may not read.
- *Migrations*: the head is the schema the models expect; a downgrade undoes its
  upgrade; no link between rows is lost or invented.

## 2. What is modelled

| Module | Models |
|---|---|
| `AnalysisRow` | the row, when it can be read (`Loadable`), and what one `update` does to it (`Assigned`, `Merged`) |
| `JobQueue` | broker and adapter: counts of copies of each job, claims, redelivery |
| `AnalysisPipeline` | composes the two with the requests, the cancellers and the workers |
| `AnalysisLifecycle` | abstract: the state machine of the entity, one commit per step |
| `TokenRotation` | login, refresh, logout, logout everywhere and deactivation as concurrent transactions over the token table |
| `SingleUseTokens` | abstract: a token is issued, then exchanged for exactly one other or withdrawn |
| `RateLimiter` | the counters of a minute and the decision of `dispatch` |
| `Accounts` | extends `RateLimiter`: registration, login, PATCH and DELETE of a user behind it, with their audit entries |
| `UploadRow` | an upload's row, the transitions of its entity, the CHECK constraints |
| `UploadPipeline` | upload requests, deletions and the cleanup over the two tables and the object store |
| `AssetStore` | abstract: an upload appears whole, with the one asset of its content |
| `UploadStream` | one upload's bytes: chunks, validation, tee, multipart upload |
| `Tables`, `Models`, `Migrations` | what PostgreSQL keeps of a table, the tables as the ORM declares them, the Alembic history |
| `Listing` | every paginated list, walked while others commit |
| `MC...` | values of constants and symmetry for TLC |
| `...Proofs` | theorems about `AnalysisPipeline` (two modules), `TokenRotation`, `UploadPipeline`, `Accounts` (with `RateLimiter`), `UploadStream`, `Listing`, `Migrations` |

`UploadStream` is the inside of two steps of `UploadPipeline`, `Validate` and `Store`,
with the outcomes those steps choose from; the models
of accounts and of tokens share the deactivation, which `Accounts` follows in the
table of users and `TokenRotation` in that of tokens. Otherwise the groups share nothing
but PostgreSQL and `get_db_session`; each has its own model of what it needs of them.

### The pipeline: state

- `db[a]` is the committed row of analysis `a`: its `status`, `retry_count` and
  whether `completed_at` is set. Only these three decide what the code does next.
- A *session* is a worker process or a cancel request, with its transaction.
  `own[s]` is the version of its row it has flushed and not committed (`NoRow` when
  it has not written), `seen[s]` the entity that its first `get_by_id` returned
  (the variable `analysis` of the code, which goes stale), `base[s]` what the SELECT
  inside `update` loaded, `plan[s]` the update being made, `pc[s]` the `await` where
  it stands.
- `request[a]` is the progress of the POST that creates `a`: its INSERT is visible to
  nobody before the commit, so it needs no session of its own.
- `ready`, `held` and `unacked` are the broker's copies: deliverable, claimed by a
  live consumer, claimed by a dead one.
- `faults` counts injected failures.

### The pipeline: the update

`PostgreSQLRepository.update` is the heart of the model and three separate facts:

1. `UpdateSelect`: it SELECTs the row afresh (the session's own version if it wrote
   one). The identity map holds objects weakly, and neither caller keeps the ORM
   object that `get_by_id` loaded, so this SELECT really sees the newest row.
2. `UpdateFlush`: the UPDATE contains only columns whose value differs from that
   SELECT, and is applied, once the row lock is free, to the newest committed version
   (`Merged`).
   Two writers can thus mix columns.
3. After the flush, `_to_domain` validates the *object* (`Assigned`), not the row.

PostgreSQL is READ COMMITTED: `Visible` is what a session reads, `LockedByOther` and
`KeyInFlight` whom it waits for, `Refused` the unique index over completed analyses.

### The pipeline: actions

| Action | Code |
|---|---|
| `RequestAnalysis`, `PublishJob`, `PublicationFails` | `analysis_service.py:180-259` |
| `CommitRequest`, `CommitRequestFails`, `CancelCommit`, `CancelAborts` | `session.py:135-155` |
| `CancelLoad` | `analysis_service.py:332-346` |
| `UpdateSelect`, `UpdateFlush` | `repositories/base.py:372-391` |
| `Claim` | `worker.py:58-60` |
| `LoadAnalysis`, `SkipAnalysis`, `LoadFails` | `worker.py:62-80`, `125-128` |
| `AnalyzerReturns`, `AnalyzerRaises` | `worker.py:81-109`, `118-161` |
| `StartRejected`, `CompletionRefused`, `RetryRejected` | an `update` that raises at `worker.py:72`, `99`, `132` |
| `Acknowledge`, `AcknowledgeRaises`, `Requeue` | `worker.py:104`, `157`; `104-109`; `142` |
| `WorkerCommit` | `__main__.py:141-142` |
| `Crash`, `Restart`, `Redeliver` | the container, its restart policy, the broker |
| `Quiescent` | workers polling an empty queue |

### The tokens: state

- `token[t]` is the committed row of refresh token `t`, which stands for its primary key
  and its `jti` at once. The column `is_revoked` is refined to `by`, which says whether a
  refresh or a logout revoked it first, and `parent` names the token that a refresh
  exchanged for it. The code stores neither; they are history, read by no guard
  except through `is_revoked`.
- `presented[r]` is the token a request is about. A logout that does not find its row has
  nothing to revoke and drops it.
- `active` are the accounts whose row is neither inactive nor deleted (`deactivate` sets
  both at once), `expired` the tokens past `expires_at`, `returned[t]` the account in the
  `sub` claim of a refresh JWT that a service call has returned: what clients may present.
- A *request* occupies a slot of `Requests` from its arrival to the end of its
  transaction; a slot then serves another. `pc` is the `await` where it stands, `wrote`
  the rows it has updated and locked, `fresh` the row it has inserted, `todo` the rows
  that `revoke_all_for_user` selected and not yet written.

### The tokens: actions

| Action | Code |
|---|---|
| `Login`, `Refresh`, `Logout`, `LogoutAll`, `Deactivate` | what each reads before its first write: `auth_service.py:259-334`, `446-458`, `637-658`, `624-636`; `user_service.py:220-241`; `dependencies/auth.py:117-152` |
| `ReadToken` | `get_by_jti` and the checks on its result, `auth_service.py:487-493`, `648-651` |
| `RevokeToken` | `atomic_revoke_by_jti` and `revoke`, `repositories/refresh_token.py:240-287`, `106-144` |
| `InsertToken` | `auth_service.py:507-533`, `336-372` |
| `UpdateAccount` | `user_service.py:191-198` |
| `SelectActive`, `WriteToken` | `revoke_all_for_user`, `repositories/refresh_token.py:289-314` |
| `Audit`, `AuditFails` | the audit entry and the return, `auth_service.py:551-570` and its like |
| `Commit`, `Abort` | `session.py:148-155`; an abort is any statement or commit that raises, or the server's death |
| `Expire` | the clock |
| `RefuseAll` | every account is deactivated; further requests get 401 |

An UPDATE of PostgreSQL waits for the row's lock, then looks at the row as it has been
committed since. `RevokeToken` has `is_revoked = FALSE` in its WHERE clause and finds no
row if the token was revoked meanwhile; `WriteToken` names its row by `id` alone and
writes over whatever it finds.

### The uploads

An element of `Uploads` is one request and, since all identifiers are fresh `uuid4`s,
names its row, its object and the asset it may create. `upload` and `asset` are committed
rows, `row` and `link` what the request has flushed, `object` the keys under
which S3 holds bytes.

| Action | Code |
|---|---|
| `Arrive`, `Lookup` | `upload_service.py:182-193`: the idempotency lookup and the declared type |
| `Insert` | the row as pending, then processing, `upload_service.py:195-213` |
| `Validate`, `Store` | the streams, `upload_service.py:215-243`; refused or failed ones run `_fail_upload` (`Fail`), whose UPDATE the exception rolls back (`Raise`) |
| `Resolve`, `Create`, `Discard` | `_resolve_asset`, `upload_service.py:297-345`: an asset with the same hash, else a new one; the redundant object is deleted |
| `Complete`, `Audit`, `Commit` | the completion with its link, the audit entry whose failure is swallowed, `session.py:148-155` |
| `Abort` | any statement or commit that raises, a client that hangs up, the server's death |
| `DeleteUpload`, `DeleteAsset`, `Cleanup` | the routes, and `cleanup_abandoned_uploads` |

INSERTs wait at the two partial unique indexes (`KeyPending`, `ContentPending`) and fail when
the transaction they waited for has committed (`KeyTaken`, `ContentTaken`, the latter counting
deleted assets as the index does, while `get_by_hash` does not see them).

In `UploadStream` a file is a sequence of symbols, and the chunks, the sniffing window, the
hashing tee, the adapter's buffer and its parts are sequences of positions in it, so that
"every byte, once, in order" can be said. The multipart upload is `"open"` from the answer to its creation
on; when that answer is lost it may exist without anybody knowing its id (`"unknown"`), and no
`except` of the adapter tries to abort it, because the call stands before the `try`. `Sniff`/`SniffEnd` are the loop of the
validating stream, `Verdict` is `validate_magic_bytes`, `Pull`, `Flush`, `SendLast`,
`Complete`, `Abort` are `upload_stream`; `ReadFails` is a request stream that raises, before the
window is full or in the adapter's loop; `Cancel` is a `CancelledError`, which no `except
Exception` sees.

### The accounts

Requests are numbered as they arrive; `account` has a row for each seeded account and for
each request that may register one. A request passes the limiter (`Arrive`, `TurnAway`),
then goes through the statements of its handler: `InsertAccount`, or `LoadTarget`
(`_load_target` with the checks on the caller's role as `get_current_user` read it), `FetchTarget`
(the SELECT inside `base.update`, which fixes the columns to write), `WriteTarget` (the
UPDATE, which waits for the row's lock), and `Commit`, with the audit entry. `Abort` loses
all of it, the entry included; a refused entry does the same to the request.

### The migrations

`schema` is the database's, `revision` the number of revisions applied. Each revision is a
function of the schema in either direction (`History`, `Upgraded`, `Downgraded`); those that
rewrite rows have an action of their own (`UpgradeJti`, `UpgradeContent`, `UpgradeLinks`,
`DowngradeFullName`, ...). A migration whose result the constraints refuse does not happen
(`Accepted`): `env.py` runs it in one transaction. Between migrations the application writes
rows that the schema of the moment admits (`Write`).

### The lists

A query is the set of values each WHERE clause admits and the direction of its one sort key.
A list is the set of rows that match; the place of a row in it is the number of rows that sort
before it (`Place`), and a page is the rows in `LIMIT` places from the OFFSET on (`Cut`).
`Begin`, `Continue` and `Count` are the COUNT, `Read` the page SELECT; `Insert`, `Delete` and
`Move` are commits of other requests. `walk` is history: what the client was owed when it
began, what it has been shown, and whether rows joined or left the list since.

## 3. The runs

### The pipeline

| Run (cfg `AnalysisPipeline...`) | Checks | Bounds |
|---|---|---|
| `pipeline_safety` (`Safety`) | `IInv` (with `TypeOK`), `RowsLoadable`, `UniqueCompleted`, `RetryBounded`, `NeverReopened`, `JobsLostOnlyInWindows` | 2 analyses of one triple, 2 workers, a canceller, up to 2 copies per publication, `max_retries` 1, one crash, failing read, failing commit or failing acknowledgement; 1 202 383 states |
| `pipeline_lifecycle` (`Lifecycle`) | `ReplayedStaysCompleted`, refinement `ImplementsLifecycle` | as above without canceller and duplicates, `max_retries` 2, timeouts, two faults (crash, failing read, failing commit) |
| `pipeline_liveness` (`Liveness`) | `RunningHasJob`, `RunningResolves`, `JobsDrain` | 2 analyses of different triples, 2 workers, a canceller, `max_retries` 1, no faults |
| `pending_stranded` (`Stranded`) | violates `PendingHasJob` | one analysis, one worker, no fault |

Why the bounds suffice: all interference is between sessions on one row or on two
rows of one triple. Two workers, a canceller and two analyses give every pair and
the triple worker/worker/canceller; two copies of a job put both workers on the same
row; `max_retries` 1 gives a retry and an exhaustion, 2 a count that can also be
skipped or repeated. The proofs of section 5 remove the bounds for the safety
properties. Every run sets `EngineBound` to TRUE (see section 7).

What the passing runs show:

- `RowsLoadable`: although an UPDATE of a worker may land on a row cancelled after it
  was loaded, validation after the flush aborts exactly the ones that would leave a
  running row with `completed_at`, which nobody could ever read again.
- `UniqueCompleted`: with two workers on two analyses of one triple the index serialises
  the completions. The loser's process exits (`CompletionRefused`).
- `NeverReopened`: a stale writer may change *which* terminal status a row has
  (section 7), never make it active.
- `RetryBounded`: the committed `retry_count` never exceeds the bound, although stale counts
  overwrite each other. It is no bound on the attempts made: two deliveries that read one
  count make two attempts and count one.
- `JobsLostOnlyInWindows`: an unfinished analysis loses its last job only when `get_by_id`
  raises, when the acknowledgement raises, or when the worker dies between acknowledgement
  and commit. All three happen in the run. After an acknowledgement that raises the handler
  treats a finished attempt as a failed one, and either its update is rejected and
  the process exits, or, after the last attempt, the analysis commits as failed. Without an
  engine (section 7) every read raises, and every job is lost in the first window.
- `ImplementsLifecycle`: a crash or a failing commit at any point is invisible in the
  committed history; attempts are counted one by one.
- `RunningHasJob`, `RunningResolves`, `JobsDrain`: as long as nothing fails, a running analysis
  always has a job, is finished in the end, and the broker empties. What a crash may do to
  it is in `JobsLostOnlyInWindows`.

### The tokens

| Run (cfg `TokenRotation...`) | Checks | Bounds |
|---|---|---|
| `rotation` (`TokenRotation.cfg`) | `SingleUse`, `RotationIsWhole`, `WaitInv` (with `TokensTypeOK`), refinement `ImplementsSingleUse`, `LogoutRevokes`, `RequestsFinish` | 2 slots, 1 account, 3 tokens of which one (`Expiring`) may pass its `expires_at`, aborts, refused audit entries; 262 611 states |
| `logout_all_survivor` (`Survivor`) | violates `AllDevicesLoggedOut` | 2 slots, 1 account, 2 tokens, no failures |

Two slots give every pair of concurrent requests, and since slots are reused, every
sequence of them, as long as tokens are left: a run ends when all are minted, and
only requests that mint are then refused. Three tokens let one be exchanged for two others
(what `SingleUse` excludes); two rows are what a circle of waiting requests takes. One
account is enough because requests of different accounts meet only in a logout that
presents another account's token, and a logout from one device does not look at the
owner. One token that expires while another is exchanged or withdrawn is enough, since no
statement looks at two expiry times. The proofs of section 5 remove the bounds.

- `SingleUse`, `RotationIsWhole`: of several refreshes of a token exactly one may get past
  the guarded UPDATE, and the old token ends with the commit that stores the new one.
- `ImplementsSingleUse`: each commit is one issue, one exchange, one withdrawal of live
  tokens, or nothing, in particular when `WriteToken` overwrites a token that a refresh
  has revoked meanwhile.
- `LogoutRevokes`: when a logout that found its token's row has committed, the token is revoked,
  whatever ran beside it. It waits for an unfinished refresh of the token, rather than take a
  revocation that may be rolled back for done (the mutant does, and an abort then leaves the
  token alive). Of a logout that did not find the row the property says nothing.
- `WaitInv`, `RequestsFinish`: two requests that revoke all tokens of an account wait for each
  other only in the order of primary keys (the mutant of `RequestsFinish` writes in any order
  and deadlocks).

### The uploads

| Run (cfg) | Checks | Bounds |
|---|---|---|
| `upload_store` (`UploadPipeline`) | `UploadInv` (with `UploadsTypeOK`), `AssetHasObject`, `Deduplicated`, refinement `ImplementsStore`, `UploadsEnd` | 2 uploads, 2 users, a key or none, 2 contents; storage, audit and abort as faults; 43 196 states |
| `failed_upload_lost` (`UploadPipelineFailed`) | violates `FailedUploadsRecorded` | as above with one user and failing storage only |
| `stream` (`UploadStream`) | `StreamInv` (with `StreamTypeOK`), `FateOfContent`, `StoredIsFile`, `BoundedMemory`, `StreamEnds` | the files of `SomeFiles`, every declared type, every chunking up to 3 bytes, window 3, parts of 2, limit 12; a storage, a request stream that fail, a cancelled request; 44 468 states |

Two uploads meet at both indexes in every order, a third would only wait longer; the proofs
remove the bound. In `stream` the sizes are small but keep what matters of the code's
(16 bytes, 256 KiB, 8 MiB): a chunk may end before, on or after the window and before, on or
after a part, a part needs several chunks or a chunk gives more than a part, and the longest
file is one byte over the limit. The alphabets hold every arrangement of the first symbols that
some signature, or the decoder, tells apart.

- `UploadInv`, `AssetHasObject`, `Deduplicated`: aborts at any point and the deletion of
  redundant objects never take the bytes of a recorded asset. The other way round is not so:
  objects without a row are left behind (section 7).
- `ImplementsStore`: to a reader of the committed tables every request is one atomic step.
- `UploadsEnd`: requests wait at the key's index first and the content's second, never in a circle.
- `FateOfContent`: streaming code judges as if it held the whole file; text by its window.
- `StoredIsFile`: what the validation took out of the stream is given back once and in order,
  the digest is of the stored bytes, and parts have the size S3 demands.
- `BoundedMemory`: with the code's sizes, where a chunk is smaller than a part, only a buffer that
  is not cut at all would break it; that is its mutant.
- `StreamEnds`: every failure, of a call or of a read, tries to abort the multipart upload it knows
  of; a cancelled request does not, and a creation whose answer was lost leaves an upload without
  parts (`PartsCared`). `CHECK_DEADLOCK FALSE` because a stream ends.

### The accounts

`access` (`Accounts.cfg`; 1 526 190 states): `AccountsInv` (with `AccountsTypeOK` as its
first conjunct; inductive together with the next three), `EmailUnique`, `TrailExplains`,
`ChangesByAdmins`, `FairLimit`, `DeactivatedForGood`, `RoleChangesLogged`. Three requests of one limited client or of
none, two at a time, an administrator, a viewer whose address was typed in capitals and can be registered
in lower case beside her,
two minutes with a limit of one, Redis and any transaction may fail. Two concurrent requests
give every race of two; a third comes before them (to promote the actor of a race) or after.

- `EmailUnique`: what the lookup lets through, the index stops, for one address as it is typed;
  it does not say that two spellings have one account (section 7).
- `TrailExplains`: a registration and a deactivation have their entries exactly when they are
  kept. Of a role it says only that it is the first or one that some entry gave.
- `RoleChangesLogged`: a role and its entry are committed together, in all but the two cases it
  names: a PATCH that asks for the role it had loaded, which another PATCH changes before
  `base.update` selects the row, changes the role without an entry; and one that finds the new
  role in place enters a change it does not make (section 7).
- `ChangesByAdmins`: the role is read once, and may be old when it is used, but never was
  one that nobody had given. An administrator demoted meanwhile still carries his change out.
- `DeactivatedForGood`: a PATCH that began before writes only columns that differ.

### The migrations

`schema` (`Migrations.cfg`; 38 388 states): `HeadFitsModels`, `DowngradeUndoes`, `LinksSurvive`.
Every walk through the 14 revisions in both directions, at most 4 rows at a time of: an
account, 2 tokens, 2 uploads, 4 assets (two files, one indicator owned by two users), 2
checksums. A migration reads at most two rows together (uniqueness, earliest of several), so two of
each suffice. `CHECK_DEADLOCK FALSE` because a database may hold rows that no further write
or migration admits.

### The lists

`pages` (`Listing.cfg`; 264 905 states): `NothingMissed`, `NothingTwice`, `ListedReadable`. Three
rows, two callers (one administrator), three timestamps, one row per page: a walk of up to
three pages with a commit between any two statements. Rows are interchangeable.

- `NothingMissed` and `NothingTwice` say exactly how far OFFSET holds: rows that leave the list
  hide others, rows that join it repeat some, and a row that commits between the last COUNT
  and the last SELECT hides one more; nothing else is missed or repeated.
- `ListedReadable`: lists and single reads agree on who may see what.

## 4. Fairness

`FairSpec` of the pipeline assumes, and only the liveness runs use it:

- weak fairness of each request, canceller and worker: the event loops run what is
  ready, and `wait_for` bounds the analyzer;
- weak fairness of `Restart` (`restart: unless-stopped`, `src/docker-compose.yml:301`)
  and of `Redeliver` (the transport restores what was not acknowledged);
- strong fairness of the delivery of each job: Redis lists are FIFO and a rejected
  message goes to the back, so a job that is deliverable again and again reaches the
  front. Weak fairness would not do: with two workers the job of another
  analysis, retried, can always be taken first.

`WF` of a whole process, not of each of its actions, leaves the outcome of the
analyzer to the environment: an analyzer may fail every time. The liveness run has
no crashes and no timeouts, because of the losses and loops of section 7, and no rival
completions, because the loser's job is redelivered for ever.

`Spec` of `TokenRotation` assumes strong fairness of `Proceed(r)` for each request `r`:
the event loop runs what is ready, and PostgreSQL gives a row's lock to its waiters in
the order of their arrival. Weak fairness would not do: a request that waits for a row
which others lock and release again and again is enabled only from time to time. Nothing
is assumed of arrivals, failures, refused audit entries or the clock.

`Spec` of `UploadPipeline` assumes strong fairness of `Proceed(r)` for each upload, for the same
reasons: an entry of a unique index is given to its waiters in turn. `Spec` of `UploadStream` assumes
weak fairness of its steps: calls to S3 return or time out, and a client that sends nothing
more is a `Cancel`. Nothing is assumed of deletions, the cleanup, failures or arrivals.
`Accounts`, `Migrations` and `Listing` state safety only.

## 5. Proofs

### The pipeline

`tlapm AnalysisPipelineProofs.tla` proves, for every set of analyses, workers and
cancellers, every `MaxRetries`, `MaxCopies`, `Faults` and `MaxFaults`:

| Theorem | States |
|---|---|
| `Invariance` | `Spec => []IInv` |
| `TypeCorrect` | `Spec => []TypeOK` |
| `AlwaysLoadable` | `Spec => []RowsLoadable` |
| `OneResult` | `Spec => []UniqueCompleted` |
| `RetriesBounded` | `Spec => []RetryBounded` |
| `FinishedStaysFinished` | `Spec => NeverReopened` |
| `JobsAreLostOnlyInWindows` | `Spec => JobsLostOnlyInWindows`, with or without an engine |

Assumptions on constants: `MaxRetriesAssumption`, `QueueAssumption` and
`PipelineAssumption`, which TLC evaluates in every run.

None of the properties is inductive. Whether a commit keeps a row readable depends on
what the session flushed, which depends on what it loaded, which depends on what it
had seen earlier, while other sessions commit in between. `IInv` says what a session
may still rely on at each of those points:

- `Follows(earlier, later)`: however many commits lie between two readings of a row, it
  has not disappeared, a running row is not pending again, a terminal one is still
  terminal. It is reflexive and transitive, and each commit obeys it (`RowsFollow`).
- `SeenInv`, `BaseInv`: the row now committed follows what the session saw and loaded.
  The entity matters until the acknowledgement has succeeded, because a failing one
  sends the worker back to its handler.
- `OwnInv`: an uncommitted version that is not finished has an active committed row
  under it; a finished row revived by a stale `start` or `retry` still carries
  `completed_at`, so validation stops the session before it commits.
- `SingleWriter`: the row lock. `CompletionReserved`: an uncommitted completion keeps
  every rival out until it commits, so `UniqueCompleted` survives the commit.
- `AckInv`: who acknowledges has finished the analysis, in a version that its commit will
  keep, or saw it finished; the three windows are what is left.
- `Shape`, `PlanInv`, `RowInv`: where a session stands decides what it
  holds, plans and has written.

The argument follows the shape of the system: a step moves one session (or none).
`Bystander` shows that the conjuncts about all other sessions survive any commit that
`Follows`; `PrivateStep`, `WriteStep` and `CommitStep` treat the conjuncts about
several sessions for a step that writes nothing, flushes, or commits; one lemma per
action then settles the session that moves, and `StepInv` puts them together.

`PipelineNeverDeadlocks` (`Spec => []NoCircularWait`) needs no more than `IInv`. A session waits before
an UPDATE (`Waits`), for a row or for an index entry. One that has written its row waits for no
other row (`SingleWriter`), and one that holds an entry of the unique index, or is about to
remove one, waits for no other entry: two of them would contradict `UniqueCompleted` or
`CompletionReserved`. So whoever waits, waits for a session that does not, or for one that
waits for such a session.

`AnalysisLifecycleProofs` builds on `IInv`, under the assumptions that the runs of the same properties make:

| Theorem | States | Assuming |
|---|---|---|
| `AnalysisLifecycleProofs!PipelineImplementsLifecycle` | `Spec => ImplementsLifecycle` | `OneDelivery`: no cancellations, one copy per publication, no raising acknowledgement |
| `AnalysisLifecycleProofs!ReplayIsBacked` | `Spec => []ReplayedStaysCompleted` | `OneDelivery` |
| `AnalysisLifecycleProofs!RunningIsDelivered` | `Spec => []RunningHasJob` | `Undisturbed`: a bound engine, no faults but failing commits of requests |

`OneDelivery` allows crashes, failing reads and failing commits. Even with one copy of a job
two workers can be busy with one row: the first has given the job back and not committed, the
second has claimed it and read the row as it was. `AttemptsInv` bounds the damage. There is one copy of
a job, and one holder (`SoleCopy`); the holder's entity is the committed row or one attempt
behind it, and then the row is running (`Behind`); the other one's version is an attempt that was not
the last (`HandedOver`), because a finishing attempt takes its job with it (`Written`). The second
worker therefore writes a legal next attempt or the count that is already there, which is a stutter.

`DeliveryInv` adds to `RunningHasJob` that a worker holds the job of the analysis it works on
and that an uncommitted version which leaves the analysis running has its job in the queue: it
was put back first, and nobody acknowledges it before the commit, because the row lock keeps
others from finishing the analysis and the committed row is active.

### The tokens

`tlapm TokenRotationProofs.tla` proves, for every set of requests, accounts and tokens (any
set of integers, finite or not), with or without failures, from `TokenAssumption`:

| Theorem | States |
|---|---|
| `RotationInvariance` | `Spec => []RotationInv` |
| `TokensTypeCorrect` | `Spec => []TokensTypeOK` |
| `TokensAreSingleUse` | `Spec => []SingleUse` |
| `RotationsAreWhole` | `Spec => []RotationIsWhole` |
| `LogoutsRevoke` | `Spec => LogoutRevokes` |
| `RotationImplementsSingleUse` | `Spec => ImplementsSingleUse` |
| `WaitsInvariance` | `Spec => []WaitInv` |
| `NobodyWaitsInACircle` | `Spec => []NoCircularWait` |

`SingleUse` and `RotationIsWhole` speak of committed rows only, and a commit is safe because
of what its request did several steps earlier. `RotationInv` adds what a request may rely
on in between: no two requests hold one row (`ExclusiveLocks`); a refresh past its UPDATE
holds exactly the row of the token it was given, which nobody has revoked
(`RotationHoldsToken`); an inserted row belongs to one request and is not stored yet
(`InsertedRowsPrivate`); only stored rows are locked or selected, and a parent is stored
(`OnlyStoredRowsWritten`). Two refreshes of one token would both hold its row.

For the refinement, `Status` reads a row's history: the lemma `RevocationImplements` shows that a
logout's commit is `Withdraw` of the rows it wrote that were still live, `RefreshImplements`
that a refresh's is `Exchange`, `LoginImplements` that a login's is `Issue`; every other step
leaves the table alone.

`NoCircularWait` says of any number of requests what `RequestsFinish` shows of two: as long as
some are under way, one of them is not kept waiting (`Waits`: the row of its next UPDATE, or its
account, is locked by another). Every request waits before it holds its first row, except in
`revoke_all_for_user`, which has already written the smaller keys when it waits for a greater
one, and only finitely many rows are stored (`LocksInOrder`). So of the requests that wait there, take
one whose awaited row is the greatest (`Greatest`): whoever holds that row does not wait.
A logout that has found its token's row keeps it stored, and at its commit has either written it or
seen a committed revocation, which nothing undoes (`LogoutHoldsToken`, `RevokedStays`).

`Waits` is exact: on the instances of the runs, and with three slots, TLC finds it false of a
request under way if and only if `Proceed` is enabled.

### The uploads

`tlapm UploadPipelineProofs.tla` proves, for every set of uploads, users, keys and contents and
every set of faults, from `UploadAssumption`:

| Theorem | States |
|---|---|
| `UploadInvariance` | `Spec => []UploadInv` |
| `UploadsTypeCorrect` | `Spec => []UploadsTypeOK` |
| `AssetsHaveObjects` | `Spec => []AssetHasObject` |
| `UploadsLeadToAssets` | `Spec => []UploadsResolve` |
| `UploadsAreDeduplicated` | `Spec => []Deduplicated` |
| `UploadsImplementStore` | `Spec => ImplementsStore` |
| `UploadsNeverDeadlock` | `Spec => []NoCircularWait` |

Again the properties speak of committed rows, and `UploadInv` of what requests hold before they
commit: `RequestShape` (where a request stands decides its row, its link and whether its object
is stored), `LinksResolve` (a link is to an asset of the same content, stored or about to be)
and `EntriesExclusive` (who has inserted a key or a content keeps every rival out until
the end). For the refinement, `Kept` and `LinkedTo` look only at committed rows, so a
commit is one `Record`, which creates or shares the asset of its content. `UploadsLeadToAssets` says what
becomes of the promise of `FailedUploadsRecorded`: only completed uploads are ever recorded. Nobody waits in
a circle, because a request at the content's index holds no entry of it, and whoever does is
past both.

### The accounts

`tlapm AccountsProofs.tla` proves, for any number of requests, clients, users, accounts and
addresses, any limits and windows, with or without failures, from `LimiterAssumption` and
`AccountAssumption`:

| Theorem | States |
|---|---|
| `LimitIsFair` | `Spec => []FairLimit` |
| `AccountsInvariance` | `Spec => []AccountsInv` |
| `AccountsTypeCorrect` | `Spec => []AccountsTypeOK` |
| `AddressesUnique` | `Spec => []EmailUnique` |
| `TrailIsComplete` | `Spec => []TrailExplains` |
| `ChangesAreLogged` | `Spec => RoleChangesLogged` |
| `PowerComesFromPower` | `Spec => []ChangesByAdmins` |
| `DeactivationIsFinal` | `Spec => DeactivatedForGood` |

The limiter is proved first (`LimiterInv`: what was served in a window is not more than its
counter), because no step of a handler touches it. The inductive invariant is `CommittedInv`: the
three properties of committed rows with `AccountsInv`, which says what a request holds:
until its commit, nothing of it is stored (`Uncommitted`); a role it read, of the caller or of the
target, is one the trail explains, however old the reading is, because the trail only grows
(`RolesRead`); the columns it will write are columns that were asked for, so that no `PATCH` has
`is_active` among them (`ColumnsToWrite`); an accepted INSERT keeps its address to itself until it
commits or rolls back (`InsertExclusive`). Every step but `Commit` leaves rows and trail alone
(`QuietStep`). A commit that writes a role either adds the entry that explains it or
writes the role that was read, and that one was explained before; `ChangeEntered` and `EntryInPlace`
take the two halves of `RoleChangesLogged` from there.

### The stream

`tlapm UploadStreamProofs.tla` proves, for every set of files, every chunking, window, size of
parts and limit, and whatever faults, from `StreamAssumption` and `SniffAssumption`:

| Theorem | States |
|---|---|
| `StreamInvariance` | `Spec => []StreamInv` |
| `StreamTypeCorrect` | `Spec => []StreamTypeOK` |
| `FateIsOfContent` | `Spec => []FateOfContent` |
| `ObjectIsFile` | `Spec => []StoredIsFile` |
| `MemoryIsBounded` | `Spec => []BoundedMemory` |
| `UploadsAreClosed` | `Spec => []EndedIsClosed` |

`SniffAssumption` says that the window covers the longest signature; the code states it at
`utils/file_validation.py:20` and has the signatures at lines 54-56. Without it a type could be judged by
bytes nobody looked at.

`StreamInv` follows the bytes from the client to S3: what was taken from the client is in the window
or hashed (`TakenInOrder`, `WindowInv`), what was hashed is in the parts and the buffer
(`PartsInv`), only what the whole file would have passed goes on (`JudgedInv`), and the
multipart upload is open as long as parts are sent (`UploadInv`), which is why one that was created and
never answered has none. The two hard steps are
the end of the sniffing and its replay. `VerdictIsExpected`: a window that is full, or holds
the whole file, decides as the whole file would. `ReplayIsWindow`: the pieces
that are replayed are together what was sniffed. What `FlattenSeq` makes of a
longer sequence (`FlattenAppend`) rests on `Induction` over the natural numbers.

### The lists

`tlapm ListingProofs.tla` proves, for every set of rows, accounts and timestamps and every page
size, from the assumptions of `Listing`:

| Theorem | States |
|---|---|
| `ListingInvariance` | `Spec => []ListingInv` |
| `NothingIsMissed` | `Spec => []NothingMissed` |
| `NothingIsShownTwice` | `Spec => []NothingTwice` |
| `PagesFit` | `Spec => []PageFits` |
| `ListedIsReadable` | `Spec => ListedReadable` |

The invariant is about places. What the client is owed has a place at or behind the next page
(`OwedAhead`), what it was shown has one before it, unless a row has joined (`SeenBehind`), and a
total that no commit has torn covers the list (`TotalCovers`). A row that joins moves
others back, never forward (`PlaceRises`); one that leaves moves them forward
(`PlaceFalls`), which is why the client is then owed nothing it could miss. Since no
two rows have one place (`PlacesDiffer`), a page is no longer than asked for. For
`ListedReadable` each list's conditions are compared with those of the route for single rows
(`OfferedIsReadable`).

### The migrations

`tlapm MigrationsProofs.tla` proves, for every set of accounts' tokens, uploads, assets and
checksums and any number of rows, from `MigrationAssumption` and `RowAssumption` (no row is the
value that stands for its absence):

| Theorem | States |
|---|---|
| `MigrationsInvariance` | `Spec => []MigrationsInv` |
| `DowngradesUndo` | `Spec => []DowngradeUndoes` |
| `HeadIsModels` | `Spec => []HeadFitsModels` |
| `LinksAreKept` | `Spec => LinksSurvive` |

The schema of every revision is written in closed form: `SchemaAt(n)` maps each table that exists
at revision n to the columns and constraints it then has (`TableAt`). The operations on schemas
are reduced to operations on one table (`OnOneTable`), and one lemma per revision shows that its
upgrade turns `SchemaAt(n)` into `SchemaAt(n + 1)` and its downgrade turns it back (`Creations`,
`Drops`, `PasswordHashes`, `Jtis`, `FullNames`, `DeletedTimes`, `Reconciliations`, `TurnsRound`,
`IdempotencyKeys`). What a downgrade must not find already there (a column it will drop, a
constraint it will not restore) is what the `...Created` lemmas say of the tables. `BuiltIs` follows by
fourteen steps from the recursive function `Built`, so `DowngradeUndoes` is inductive;
`HeadFitsModels` is a comparison of `SchemaAt(14)` with the models, one lemma per table.

Whether a link survives depends on what the schema demanded of rows that were written
many revisions ago: until the thirteenth revision an asset names its upload, afterwards an upload its
asset (`Side`, read off the closed form). `UpgradeLinksKeeps` and `DowngradeLinksKeeps` treat the two
migrations that turn the relation round, `SameLinks` every other one.

### Left to TLC

- Liveness: the prover does not handle fairness and `ENABLED`. Of each liveness property of requests
  that wait for one another the safety half is proved, `NoCircularWait`.
- What a `RECURSIVE` operator computes; the modules declare none. Induction theorems with an
  operator as parameter cannot be cited, so induction is over sets: a set of numbers that has no least
  element is empty.

Every safety property of a run is stated by a theorem; not every proved invariant is among the properties
of a run. `RotationInv` is a conjunct of `WaitInv`.
`ListingInv`, `MigrationsInv`, and the `NoCircularWait` of the pipeline and of the uploads can be added to
the `INVARIANTS` of their module's `.cfg`; TLC finds no violation. `AttemptsInv` and `DeliveryInv` stand
beside their proofs in `AnalysisLifecycleProofs`. Type correctness is in the runs as the first conjunct of
the inductive invariants.

## 6. Abstractions

The pipeline:

- A row is three fields. Timestamps, results, messages and scores decide nothing, with
  one exception kept: whether an error message is empty (`hasMessage`).
- A message longer than its column (1024 characters) makes the handler's UPDATE raise;
  that outcome is not modelled.
- Assets are not modelled: an asset that is missing, or has no storage key, is the
  outcome `"error"`, raised where the analyzer raises.
- Faults: `"db"` fails the first read of a worker, `"commit"` a request's commit,
  `"broker"` an acknowledgement, `"crash"` ends a worker anywhere. Other failures of a
  worker end the process too and need no action of their own: after an error of any
  later statement the transaction is aborted and the handler's own update raises; a
  failing commit or rejection, and a failing acknowledgement outside the `try` or of a
  job that was skipped, leave `process_once`. Each is a crash before or after
  the same step. A shutdown by signal stops the loop between two jobs. Audit
  entries are part of the request's commit.
- The broker's order is not modelled (section 4 says what is assumed of it). Copies are
  restored only from dead consumers: a live consumer's visibility timeout (an hour by
  default) exceeds the analysis timeout (300 s).
- A publication leaves at most `MaxCopies` copies.
- Cancel requests use ids that may not exist yet; each canceller makes one request.

The tokens:

- A request that is refused before it writes (wrong password, unknown or revoked token,
  inactive account) ends in the step that refuses it; refused arrivals are left out. The
  audit entry of a failed login is rolled back with its request and is not modelled.
- What a request reads before its first `await` on the token table is part of its
  arrival; the account's state may change right after it, as in the code.
- `WriteToken` is the flush of the changed objects, one UPDATE per row in the order of
  primary keys, which is SQLAlchemy's; that a refused INSERT rolls the session's
  transaction back is SQLAlchemy's too. Both are used, not defined, by `src/`.
- A token's identifier (`uuid4`) may come up again if it was neither stored nor returned, so
  that aborted requests do not use up the bounded set.
- Only live rows expire: an expired revoked token is treated like a revoked one.
- Access tokens are not modelled beyond "the caller's account is active"; the actor of a
  deactivation is some administrator outside `Users`. `update_user` can change neither
  `is_active` nor `deleted_at`.
- `delete_expired` and `list_active_by_user` are called by nothing in the program.

The uploads:

- Which of the causes makes a validation or a store fail is chosen freely in `UploadPipeline`;
  `UploadStream` has the causes.
- A file's digest is its content: SHA-256 collides for no two files.
- Assets other than files (URLs, domains, addresses) are created by no code yet.
- `Cleanup` is one step over the whole batch: no recorded upload is ever pending, so it
  finds none (theorem `UploadsLeadToAssets`).
- In `UploadStream` a magic number is one symbol. `pdf` stands for every type with one
  pattern at offset 0, `webp` for two patterns, `zip` for alternatives, `docx` for a type
  that shares its pattern with another. Downloads, tags and presigned URLs are not modelled.

The accounts:

- `is_active` and `deleted_at` change together and are one field. Passwords are right or wrong.
- INCR, the comparison and the counting are one step, because the client library is
  synchronous there and INCR atomic. That EXPIRE may be lost leaves a key that is
  never read again.
- The tokens a login stores are in `TokenRotation`; here it only writes its audit entry.

The migrations: plain indexes, comments, server defaults and names of constraints are left
out; a unique index is the constraint it enforces. Of rows only what a migration reads is kept.

The lists: no two rows of a table share a timestamp (microseconds; no request creates two
rows of one table); with equal ones the order within a page would be open, since no list has a second
sort key. `list_pending_for_worker` and `list_soft_deleted_before` have no pages and no caller.

Not modelled at all, with the reason in `PROJECT.json`: settings and wiring (parsed once,
immutable afterwards), HTTP plumbing, schemas and logging (formatting), JWT and password hashing
(libraries without state).

## 7. Disagreements met

Three have a run:

1. **A pending analysis without a job** (`pending_stranded`). The job is published
   before the row is committed (`analysis_service.py:239`, `session.py:150`). A worker
   that is faster finds no row and acknowledges (`worker.py:125-128`).
2. **A session survives a logout from all devices** (`logout_all_survivor`).
   `revoke_all_for_user` selects the active tokens; a refresh of one of them commits its
   successor; the logout then writes the old token, already revoked, and the successor
   stays active (`repositories/refresh_token.py:302-311`). The same holds of
   `deactivate_user`; there the successor cannot be used as long as the account stays
   inactive, because `refresh` looks at `is_active`.
3. **A failed upload that nobody recorded** (`failed_upload_lost`). `_fail_upload` "persists the
   failed terminal state" (`upload_service.py:347-348`) in the transaction that the exception
   raised next rolls back, the row's INSERT included. The integration test that finds the row as
   failed (`src/backend/tests/integration/test_upload_service_pipeline.py:336-337`) commits after the
   exception itself; no route does.

The others were met while reading or modelling. Where the models contain the behaviour,
properties are stated so that they hold in spite of it.

Analyses:

- `__main__.py:24` imports `_engine` by value while it is `None` (used at line 101): the
  worker's sessions have no engine. The runs model what the worker does once it has one.
- A cancelled analysis may become completed: `update` has no guard on the status
  (`base.py:382`), whereas `models/analysis.py:91` calls it terminal and
  `src/docs/04-Database-Design.md:2497` documents a guarded UPDATE.
- A timeout on the last attempt never fails the analysis: `str(TimeoutError())` is empty
  and `fail("")` raises (`worker.py:145`).
- A crash after the acknowledgement loses the analysis (`worker.py:104` before `__main__.py:142`),
  and so does a first read that fails (`worker.py:125-128`); `JobsLostOnlyInWindows` names both.
- An attempt that begins before the previous one's commit counts from the row as it was then,
  so the two are counted once (`worker.py:131`), and attempts can exceed `max_retries`.

Accounts and tokens:

- A refused audit entry undoes the login: the services swallow the exception and return the
  tokens (`auth_service.py:384-394`), but the flush has rolled the transaction back.
  The same holds of registration, PATCH and deactivation, although `user_service.py:12-13` and
  `auth_service.py:16` say that audit failures never block the operation.
- A role may change without an entry, or have an entry without a change: `update_user` decides by
  the role `_load_target` read whether there is one (`user_service.py:138`), `base.update` by a later
  SELECT whether the role is written. r1 asks for `viewer` of an account it loads as `viewer`; r2 makes
  it `admin` and commits; r1's SELECT sees `admin`, and r1 commits `viewer` with no entry.
  `routes/users.py:319` says that role changes create one.
- The entry of a failed login is rolled back with its exception (`auth_service.py:292`).
- `get_by_email` lowercases what it looks for, `register` stores what was typed
  (`auth_service.py:118`): an account registered with capitals can never log in, and the
  lower-case address can be registered beside it. `auth_service.py:118-119` and `models/user.py:103`
  call the address unique without regard to case.
- A PATCH without a name writes the name it has read (a lost update when another PATCH commits in between), and
  the role a ROLE_CHANGE entry names as the former one may be stale.
- The comment "Token expired but revoke anyway" (`auth_service.py:654`) stands over a `pass`;
  a logout whose token's row is not committed yet revokes nothing and reports success.
- `get_user` documents a 404 for inactive users; only `deleted_at` is looked at.
- Nothing sets `request.state.user`, so the limit for authenticated callers never applies; the
  429 answers carry `rate_limited`, the documents say `rate_limit_exceeded`.

Uploads:

- Pending rows are never committed, so the cleanup, which nothing schedules, finds none, and objects of aborted uploads stay.
- Content whose asset was soft-deleted cannot be uploaded again: the lookup does not see it, the
  index does. An upload may complete linked to an asset deleted meanwhile.
- `delete_upload` speaks of a soft delete and deletes the row.
- Text whose sixteenth byte is the first of a longer UTF-8 character is refused
  (`file_validation.py:109-110`).
- A cancelled request leaves its multipart upload open (`s3_adapter.py:105`), and so does a
  creation whose answer is lost (`s3_adapter.py:123-128`); the latter has no parts.

Lists and schema:

- `src/docs/04-Database-Design.md:2607` and `src/docs/05-API-Specification.md` section 10 ask for
  cursors; the code uses OFFSET, so pages shift, and no sort has a second key.
- The migration that adds `jti` fails on two or more tokens; the downgrade of the content
  reconciliation drops the hash columns without writing back, after which the upgrade is refused.
- `file_size_bytes` is `Integer` in the model and BIGINT in the database, and the index on
  `actor_id` that the model of audit entries mentions does not exist.

## 8. Plan

Done: the pipeline, the tokens, the uploads, the rate limiter and the accounts, the stream, the
lists and the migrations, each with proofs. Next, in order:

1. One composition of the pipeline with the uploads: an analysis that runs while its
   asset is deleted.
2. A liveness run for the loop of a refused completion.
