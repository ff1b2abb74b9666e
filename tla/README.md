# A verification of RyuDB

RyuDB is a columnar SQL database: Parquet base files on disk, an in-memory delta of committed
batches on top of them, a write-ahead log that makes the delta durable, and a server that lets
many connections share one engine, over WebSockets and over the PostgreSQL protocol. This directory
holds TLA+ models of its transactional core, its storage, its server and its SQL pipeline, the TLC
runs that check them on small instances and the TLAPS proofs that hold for every instance.

## 1. Inventory

| Part | State | Operations | Talks to |
|---|---|---|---|
| Transactional engine (`exec/executor.py`, `delta.py`, `transaction.py`) | `_commit_ts`, `_snapshots`, the delta's insert and tombstone batches, one `Transaction` per session | BEGIN, COMMIT, ROLLBACK, INSERT, INSERT ... SELECT, DELETE, UPDATE, MERGE, CREATE SNAPSHOT, RESTORE, checkpoint, recovery | WAL, catalog, lock, caches |
| Write-ahead log (`wal.py`) | the file, what of it is synced, Python's file buffer | `write_commit`, `truncate`, `replay` | engine, disk |
| Read-write lock (`_RWLock`) | `_readers`, `_writer`, `_waiting_writers`, the waiters of one condition | acquire and release, shared and exclusive | every `Engine.sql` and admin call |
| Catalog and base files (`catalog.py`, `storage.py`) | table -> path, types, constraints; a JSON file; the Parquet files | register, drop, rename, set and clear constraints, save, load | checkpoint, parser, scans |
| Caches of the engine | scanned columns (some with a gather still pending), group codes, uniqueness of key columns | fill, look up, invalidate per table | scans, aggregates, every write |
| Worker pool (`server/worker.py`) | a queue, worker threads, one cancel flag per task | submit, run, cancel, shutdown | engine, event loop |
| Server sessions (`server/app.py`, `server/handlers.py`) | per connection: transaction slot, cursors, pending requests; global: `has_open_txn` | requests, admin operations, cancel, disconnect | pool, engine |
| PostgreSQL front end (`server/pgwire.py`) | per connection: prepared statements, portals and the results cached for them, the gate of an aborted transaction, SQL cursors | simple and extended query messages, cancel requests | pool, engine, the server's cursors |
| SQL front end (`sql/parse.py`, `plan.py`, `optimize.py`) | none | SQL text to plan; predicate pushdown, projection pruning, join sides | engine |
| Relational operators and kernels (`exec/ops.py`, `exec/fused.py`, `kernels/`) | none | joins, aggregates, windows, set operations, sorts | engine, caches |
| Command line, web front end | none that the server relies on | | server |

What is hard here:

* **Concurrency.** Writers exclude each other through the lock, but a transaction spans many
  statements, so snapshots and buffers of several sessions are alive at once; the server's guards
  read the transaction slots of other connections without the lock.
* **Failure.** A crash may come between the fsync of a record and the in-memory append, or between
  two tables of a checkpoint; each of write, flush, fsync and the cleaning truncate may fail.
* **Ordering.** All rows and tombstones of one commit share a timestamp. The read rule must tell an
  UPDATE (which keeps rows of its own timestamp) from a DELETE (which does not).
* **History rewriting.** A restore lowers the counter, so timestamps are used twice; a checkpoint
  moves history into the base, where no restore reaches it.
* **Stale copies.** Frames, codes and uniqueness are cached by table name while names are dropped,
  renamed and bound to other files; a portal's result is cached while the portal can be bound again.
* **Rewriting.** Outer joins, three-valued logic and NULL padding make moving a filter, dropping a
  column or swapping the sides of a join wrong in cases that an example hardly shows.

What makes each part correct: the engine is snapshot isolated, durable and atomic (it behaves as a
sequence of whole versions), keeps declared keys unique, and its named snapshots can be restored;
the log never loses an acknowledged commit nor revives a dropped one; the lock excludes, wakes and
does not starve; the pool answers every request once; the session protocols keep their state
machines, an aborted transaction never commits and paging through a cursor skips no row; caches,
files and names always give back what was registered and committed; a plan answers as SQL does, before
and after every pass of the optimizer.

`PROJECT.json` lists the hazards at their lines, with the properties that cover each of them, and
all components, also those that are not modelled.

## 2. Modules

| Module | Stands for |
|---|---|
| `Mvcc` | rows, commit batches, the delta and the read rule `_merge_delta`; uniqueness checks |
| `Engine` | the transactional core: one action per statement, admin operation and failure |
| `VersionedDb` | abstract specification: a database that keeps whole versions |
| `EngineRefinement` | `Engine` implements `VersionedDb`, with the mapping |
| `EngineProofs` | types, log order, isolation and durability of `Engine` |
| `EngineWriteProofs` | what `MergeDelta` computes: read-your-writes, the meaning of a commit, unique keys |
| `EngineRefinementProofs` | `Engine` implements `VersionedDb`: one lemma per kind of step |
| `Wal`, `WalProofs` | the log file at the level of buffers, syncs and power losses; theorems about it |
| `RWLock`, `RWLockProofs` | the read-write lock and its theorems |
| `Storage`, `StorageProofs` | base files, catalog, caches, the delta and the log as they move rows between them; theorems about them |
| `Server`, `ServerProofs` | requests, worker threads, cancels, disconnects and per-connection transactions; theorems about them |
| `PgCursor` | FETCH and MOVE: the slice delivered and the new position |
| `PgSession`, `PgProofs` | one PostgreSQL connection; theorems about it |
| `Plan`, `Expressions` | plan nodes and expressions; evaluation with three-valued logic |
| `SqlBuilder` | the lowering of a parsed query to a plan (`parse.py`) |
| `Optimizer` | the three passes of `optimize.py` |
| `Windows`, `Relational` | execution of a plan (`ops.py`, `_exec`) on frames |
| `SqlReference` | what a query means in SQL: a definition of its own that follows no code of the repository |
| `Query` | a query on its way through building, three passes and execution |
| `MCEngine`, `MCWal`, `MCRWLock`, `MCStorage`, `MCServer`, `MCPgSession`, `MCQuery` | instances for TLC |

### Mvcc and Engine

A row has a key column `k` and a value column `v`; a table is a bag of rows. This is enough for
primary keys (on `k`), a nullable UNIQUE column (`v`) and updates of either. A batch is one
`(table, kind, frame)` triple, as `_write_commit` builds them; kinds are those of the WAL record.
`delta` is a set of batches stamped with `(ts, n)`, `n` being the position in the commit.
`MergeDelta` is `_merge_delta`: base rows count as inserted at 0, buffered rows at `_INS_INF`, and a
row survives when the newest DELETE of its key is strictly older and the newest UPDATE not younger.

| State | Code |
|---|---|
| `base` | the Parquet file of each table |
| `delta`, `commit_ts`, `snapshots` | `DeltaStore._batches` and `_tombstones`, `_commit_ts`, `_snapshots` |
| `wal` | the records that `replay` would return |
| `txn` | the `Transaction` of each session (`Engine._txn` while the session's statement runs) |
| `pc`, `owner`, `job`, `todo` | where the holder of the write lock is: `_write_commit` before and after the fsync, or between two tables of `checkpoint` |
| `floor` | history variable: the counter at the last fold |

Statements run under the exclusive lock, so a statement is one action up to its first durable
effect. `_write_commit` is three (`AllocateTs`, `WalWrite` or `WalFail`, `DeltaApply`), because a
crash or an error may separate them; `checkpoint` is one step per table and one for the end. `Crash`
loses everything but `base` and `wal` and is the constructor's replay. `restore_to` is one step: the
lock hides what is between its assignments and they are all in memory except the truncate. A truncate
that raises, there or at the end of a checkpoint, is an outcome of its own (`TruncateFails`): the log is
as it was or cut all the same, and the names stay. When a write fails with the counter advanced the timestamp stays
consumed, as in the code.

Conditions whose outcome is data (a WHERE, the ON and AND conditions of MERGE) are choices: a set of
keys that match. Rejected statements change nothing and are therefore not steps. Types and NOT NULL
coercion are left out; the caches are in `Storage`. The engine has a data directory; one without has no
log at all and nothing that keeps a negative timestamp out of its delta, and is not modelled.

`Allow` names what clients or the environment do beyond the ordinary. With `Allow = {}` the engine is
shown correct; each member opens one behaviour that the code permits and that breaks a promise (see
section 4).

### VersionedDb and EngineRefinement

`VersionedDb` knows no timestamps on rows, tombstones, delta or log. A commit appends a version, a
restore cuts the sequence, a checkpoint forgets all versions but the newest, a crash keeps the newest.
The mapping takes as version `v` what a scan at `v` returns; a commit happens at the fsync of its
record (not at the in-memory append), a checkpoint when it folds its first table, and a failed commit
adds a version equal to the one before, because its timestamp stays used.

### Wal

`file` is what the process reads, `synced` the length of the prefix on disk, `stale` the earlier
contents that may still be on disk because the cut that replaced them was not synced, `pend` the rest
of a torn record in Python's buffer, which the next seek writes out. `write_commit` succeeds, or fails
and cleans up, or fails and fails to clean up (the code swallows that); `truncate` is called by a
restore (`max_ts`, which becomes the counter) and by a checkpoint (`0`, which keeps it). CRC and
framing are one bit per record. The disk's behaviour at a power loss is external: the synced prefix
and any part of what followed it survive.

### RWLock

Every critical section of the condition variable is an action; `sleeping` is the set of threads inside
`wait()` that no `notify_all` has reached. A woken thread checks its loop condition again.

### Storage

`Engine` fixes its tables; `Storage` is about where their rows are. A row is just the timestamp of the
commit that inserted it or the file it came with, so a read is a sequence of origins and a lost,
repeated or foreign row shows.

| State | Code |
|---|---|
| `files` | the Parquet files on disk |
| `tables`, `saved` | `Catalog.tables` and the JSON file `_save` writes |
| `delta`, `wal`, `ts` | `DeltaStore`, the log, `_commit_ts`; delta and log are kept per table, the order between tables being the subject of `Wal` |
| `frames` | `_scan_cache`, with the frames `fused_scan_aggregate` leaves there while their gather is pending |
| `facts` | `_code_cache` and `_pk_cache`: the rows they were computed from, or `Other` |
| `txn` | one open transaction: snapshot and buffer |
| `ckpt` | the tables a checkpoint still has to fold, and the one whose file is published and not yet registered |
| `truth` | history: what was registered and committed under each name |

Every operation holds the write lock and is one action, except a checkpoint, which a crash may cut
between publishing a file and registering it, or between two tables. `Read` files the facts of the rows it
scanned. The fused paths also file facts of other rows under the name of a table: of a filtered dimension
(`fused.py:1446-1466`, `1599`), of a join or a derived input (`fused.py:187`, `774`). `Other` stands for
them; it is filed and dropped like the rest, and what such a fact says is not judged. Like `Engine`, `Storage` has a
constant `Allow` for what the code permits and does not survive: `shared_dir`, `reregister`,
`drop_live`, `save_fails`, `ckpt_crash` and `sessions`, explained at its head and in section 4.

### Server

A request is sent (`Send`: `_handler`, `_cancellable`), taken from the queue by a worker (`Take`:
`EngineWorker._run`), loaded (`Load`: the connection's transaction goes into the thread's slot),
executed (`Execute` or `Raise`: `engine.sql` under the engine's lock, or `Admin`), written back
(`WriteBack`: the `finally` of `run_sql`) and delivered (`Deliver`: the callback on the event loop and
the resumed task). `Cancel` and `Disconnect` may come between any two of these. A transaction is named
by the request that began it; what it contains is the set of requests it buffered.

The client gives each request an id or none. `_pending` is a table by id: `Send` takes over the entry of an
id that is in use, `Deliver` removes whatever entry its id has, so of two requests in flight under one id
`cancel` and `disconnect` reach the later one at most, and neither once the first was answered. `shared`
remembers which requests this has happened to; using an id again after the answer is harmless.

| State | Code |
|---|---|
| `task`, `posted` | the asyncio task of a request, the `call_soon_threadsafe` callback on its way |
| `queue`, `work`, `slot` | `EngineWorker._q`, where each thread is, `engine._txn` of the thread |
| `ws_txn`, `cursors`, `pending`, `up` | `ws._ryudb_txn`, `ws._ryudb_cursors`, `_pending`, `_conns` |
| `cancel`, `answer` | the cancel events that are set, the frames sent to the client |
| `shared`, `effect`, `buffer`, `commits` | history: whose id was in use twice at once, what took effect, what each transaction holds, how often it was committed |

An error may come before or after a change: a commit whose record reached the log, a write outside a
transaction or a restore may be answered with an error and have taken effect (`FailsLate`), and so may a
checkpoint or an admin restore (`Admin`). A cancel is seen before a statement changes anything, except by
a checkpoint, which also looks between its tables. `RESTORE TO SNAPSHOT` through SQL asks only for the
transaction of its own connection, so it runs beside the transactions of others.

The event loop is single threaded, so a frame with its new task, and a callback with its resumed task,
are one step each. `has_open_txn` and the operation it guards are one step too.

### PgCursor and PgSession

`PgSession` is one connection. A handler runs on the event loop up to the await of a statement; `run` is
that statement at the worker, and the step that ends it is the worker and the resumed handler
(`_emit_result`, `_declare`, `_describe`). Other connections reach a session only through
`cancel_backend`. The engine is reduced to the connection's transaction.

| State | Code |
|---|---|
| `phase`, `rest` | where `loop` and `_simple_query` are, and the statements left of the query |
| `txn`, `failed` | `_ryudb_txn`; the gate `_gate` reads |
| `statements`, `portals`, `cache` | what Parse and Bind stored, and `_portal_cache` |
| `cursors`, `store` | SQL cursors with their positions, and the server's `_ryudb_cursors` behind them; `strayed` and `owner` are history: a negative count has moved the cursor, and whether the transaction it was declared in is open, never was, or was ended by the query of a DECLARE (`"left"`) |
| `run`, `sent`, `gone` | the statement at the worker, the frames sent for the message, a lost client |
| `paged`, `spoiled`, `txn.poisoned` | history: rows delivered by forward paging; a failed transaction was committed; a statement of the transaction failed |

The code does not skip messages until Sync after an error in an extended-query sequence: `loop` answers
the error with a ReadyForQuery at once, and the client's Sync is answered with another one. The model
does the same, so `Answered`, exactly one ReadyForQuery, is stated for simple queries only.

Counts are integers: `_to_int` accepts negative ones, and `_cursor_window` then moves the position out of
the result, where a FETCH raises in the slice. The query of a DECLARE may be any statement: `_exec` runs
it first, and `_declare` raises when it gave no table, so `DECLARE c CURSOR FOR COMMIT` is a failed
statement that has committed (`DeclareRefused`).

### The query pipeline

A query is a record (select list, from, where, group, having, windows, order, limit, set operations,
subqueries), as `sqlglot` hands it over; parsing text is external. `Query` takes it through the stages
*parsed*, *built*, *pushed*, *pruned* and *optimized*, or refuses it where `parse.py` raises. At every
stage `AnswersSql` executes the plan with `Relational` and compares the result with `SqlReference`,
which evaluates the query row by row and knows no plans, joins by key, pushdown or running totals. Where
SQL leaves the order of rows open, any order is accepted. `ColumnsResolve` says that no plan names a
column the frame below it lacks. A frame is a sequence of columns and a sequence of rows, as cuDF's is;
NULL keys join and group as cuDF does it.

`_local_aliases` looks for the FROM clause under `"from"`, while the pinned `sqlglot` (28.10.1) keeps it
under `"from_"`, as `_build_select` knows; so inside a subquery only the aliases of its joins count as its
own (`LocalAliases`), and a FROM alias that the outer query has too is taken for the outer one's.

Values are integers and NULL. `SqlBuilder`, `Windows` and `Relational` follow the functions of the
code one by one; they use recursive operators over the plan tree and are therefore only model-checked.

## 3. Runs

| Run | Expected | What it asks |
|---|---|---|
| `engine_txn` | pass | two sessions, one keyed table, one key with two values: isolation, read-your-writes, durability, refinement of `VersionedDb` with restores, checkpoints and crashes |
| `engine_dml` | pass | one session, two keys, a nullable UNIQUE column, statements of up to two rows: uniqueness, the meaning of a commit (`CommitApplied`) and refinement for key updates and MERGE |
| `engine_hostile` | pass | all of `Allow` but `truncate_fails` at once, two tables: what still holds (log order, nothing visible is lost, and a named snapshot brings back what was committed when it was taken, `SnapshotsExact`) |
| `wal` | pass | failing writes and cleanups, failing checkpoint truncates, process crashes, power losses |
| `rwlock` | pass | four threads on the lock, one of them both reader and writer; safety and progress |
| `storage` | pass | two tables registered, uploaded, renamed, dropped, altered, written, read warm and cold, restored, checkpointed and restarted: reads return what was registered and committed (`ScanTruthful`), a crash loses nothing (`CrashSafe`), no code or uniqueness of a whole table outlives its rows (`FactsFresh`) |
| `server` | pass | a pipelining client on two workers with cancels, cursors and a disconnect, whose requests have one of two ids or none: an exact pending table, no request forgotten, silence after a disconnect, an answer to everything |
| `server_txn` | pass | transactions, SQL restores and admin operations of two pipelining clients on the default pool of one worker: requests take effect in the order they were sent, no statement runs in the other's transaction, none is committed twice, and `ok` and `cancelled` say what happened (`AnswerTruthful`) |
| `pg_session` | pass | a PostgreSQL client with simple queries, portals and cursors, negative counts, DECLAREs that commit or write, errors, cancels and a lost connection: the gate is exact, an aborted transaction never commits, the two tables of cursors agree and COMMIT and ROLLBACK end the cursors, paging repeats and skips nothing, every simple query is answered |
| `query` | pass | 321 queries (filters, joins of every kind, subqueries, groups and grouping sets, windows, set operations, common table expressions) on 48 databases under two sets of table statistics: `AnswersSql` and `ColumnsResolve` at every stage |
| `storage_shared`, `query_pushdown` | violation | see section 4 |

**Bounds.** `MaxTs` caps the counter, `MaxStmts` the statements of a transaction, `MaxRows` the rows of
a statement, `MaxCopies` the copies of a row in a base, `MaxRecs` the calls of `write_commit`,
`Requests` the requests of all clients. Three timestamps suffice for the orders that matter here: a
snapshot between two commits, and a timestamp used again after a restore. Two statements make
delete-then-insert, update-then-delete and a retry after a failed commit. `OneRowBase` starts keyed
tables with one row, where `engine_txn` starts with any base. In `engine_hostile` the constraint
`TwoCopies` stops a fold from being replayed and folded again without end. Five log records allow a
failed commit between acknowledged ones, a restore and reuse of its timestamps. Three requests on two
workers overlap in every order; with two ids and none to choose from, any of them may share an id, at once or
one after the other, or be out of reach of cancel. In `server` they all ask for a cursor, in `server_txn`
they are all under one id, and the constraint `TxnBounds` follows behaviours in which one client stays, one
request is cancelled or left behind by a disconnect and two of the three roll back or rewrite history. In `storage` two timestamps, three rows per table and one buffered row per table let rows be
committed before and after a checkpoint and around cached frames and facts, and two names with two files
let a name come back with another file. In `pg_session` three statements in one query make
BEGIN, an error and COMMIT, with room for one cursor the limit is met, and a result of three rows is paged
by twos, so that the last page is short; row limits are none and two. `MaxDrift` bounds how far negative
counts carry a position out of the result; one row is enough to be outside. The databases of `query` have tables of
up to three rows with NULLs, duplicates and missing partners; a query needs at most three generated
names of each kind and names a table at most twice. Symmetry is used only where no property names a member
of the set, and never together with a liveness property.

**Deadlock** is checked for the lock, which never stops. The others stop when their bounds are used up.

**Fairness.** `RWLock` assumes that a woken thread gets the condition's mutex and that a statement ends
and releases the lock; nothing is assumed about when threads ask for it. `Server` assumes that the event
loop runs what is ready and that a worker thread keeps running; nothing is assumed of clients. `PgSession` assumes the same of one
connection: a statement given to the worker ends, and the handler goes on with the next one; no fairness
is assumed for messages, cancels or disconnects. The other modules are only checked for safety.

## 4. What the code does not promise

Two runs are marked *violation*; the statements of the code they contradict are quoted in `PROJECT.json`.

* `storage_shared` (`executor.py:660`): a checkpoint writes every table to `ryudb_base.parquet` in the
  directory of its first file, and all uploads share a directory; the checkpoint of one uploaded table
  replaces the base file of another, which then returns the wrong rows.
* `query_pushdown` (`optimize.py:295`): every table below an inner join counts as pushable, so a
  filter above it descends into the null-supplying side of a LEFT JOIN further down.

The passing runs hold the constants at values where the code keeps its promises. Other values open
behaviours the code permits; these break the properties named:

* `engine_txn` with `Allow = {"sql_restore"}`: `RESTORE TO SNAPSHOT` through SQL checks only the caller's
  own transaction and changes what another session's open transaction reads (`SnapshotFrozen`,
  `ImplementsVersionedDb`).
* `engine_dml` with `Allow = {"ckpt_crash"}`: a crash after a base is replaced and before the log is
  truncated replays the folded commits on top of it (`KeysUnique`).
* `Engine` with `reinsert`: a transaction that deletes a key and inserts it again does not see its own
  row, because both are buffered at `_INS_INF` (`executor.py:1158`), and the row is lost at COMMIT.
  `OwnWrites` counts a row with a deleted key as gone, whichever came first, so it holds here too; a
  reading of read-your-writes that counts the later insert does not.
* `Engine` with `ckpt_cancel`: a cancel between two tables of a checkpoint leaves one folded with all
  snapshots in place, so a restore cannot undo it (`SnapshotsReachable`).
* `Engine` with `restore_below`: `restore_to` accepts a timestamp older than the last checkpoint, or a
  negative one (`SnapshotsReachable`, `DurableDelta`).
* `Engine` with `truncate_fails`: a restore has lowered the counter and rewound the delta when its truncate
  raises (`executor.py:572`), so the log is ahead of the counter and the names it should have dropped remain;
  a checkpoint has folded every table (`executor.py:686`). `WalOrdered`, `NothingVisibleLost`,
  `SnapshotsReachable` and `SnapshotsExact` are violated.
* `storage` with `shared_dir`, `reregister`, `drop_live` or `ckpt_crash` violates `ScanTruthful`: besides
  the shared base file, a name that is registered again keeps the frames, delta and log of the old table;
  a dropped or renamed table leaves its rows to whoever takes its name next.
* `storage` with `save_fails` violates `CrashSafe`: the failed save is swallowed and the checkpoint deletes
  the file that the saved catalog still names.
* `storage` with `sessions` violates `FactsFresh`: codes computed at one transaction's snapshot are used
  by a session that sees other rows.
* `pg_session` with `Rebinds = TRUE` violates `GateExact`: Bind and Close leave `_portal_cache` alone, so a
  ROLLBACK bound to a portal that was described as a SELECT is answered from the cache, and the gate opens
  with the transaction still there.

Behaviours outside the checked instances, for the same reason: with two open transactions `KeysUnique`
fails, since `_commit` does not validate again; in `Wal`, the fault `"restore"` (a restore whose truncate
raises has lowered the counter already) breaks `TsOrdered`, and a commit that failed at its fsync may be
found whole on disk after a power loss; in `Server`, with two workers `has_open_txn` misses a transaction
that BEGIN has opened and `run_sql` has not written back yet, so that a checkpoint or restore runs beside
it, as `RESTORE TO SNAPSHOT` through SQL may on any pool; what a client has queued under an id that was in use
twice at once may run after it has gone, which `QuietAfterClose` exempts, and a client that pipelines on two or more workers can
commit a transaction twice or write into one that has ended, because both requests load
`ws._ryudb_txn` before either writes it back; the later one may also run first, although `app.py:330` says that
"FIFO submission order" is preserved.

`FETCH BACKWARD ALL` without a row limit delivers nothing and leaves the cursor in place; the model keeps
this, and no property asks for more.

Of SQL cursors two promises of the code do not hold, and `CursorsOwned` and `PagedOnce` exempt what they
concern: a negative count (`pgwire.py:869-873`, `893-904`) moves a cursor before its first or behind its last
row, and a DECLARE whose query is COMMIT or ROLLBACK (`756-758`) ends the transaction without closing its
cursors, although `_close_all_cursors` says of cursors that "they do not survive a transaction boundary"
(`726`).

The uniqueness of a filtered dimension is cached as that of the whole table (`fused.py:1446-1466`, `1599`),
although `executor.py:393-394` says that "Every code/pk series is obtained via `_scan(table)` for the SAME
table in the key"; a later join of the unfiltered table may take keys for unique that are not. `Storage` has such facts as `Other`, and `FactsFresh` does not judge
them.

The queries of `query` stay clear of shapes where the answer is known to differ from SQL's, or where the
code raises: inner joins with NULL keys on both sides (cuDF matches them); outer joins below other joins
under a filter (`query_pushdown`), and outer-join residuals that name a key column; derived columns named
like a base column, and group keys whose alias is another column's name; `SELECT *` above a projection or
an aggregate in a subquery; `NOT IN` over NULLs; EXISTS over a correlated subquery with an aggregate or
LIMIT; SUM of no rows without GROUP BY, or of NULLs alone in a window over all rows (0, not NULL); running MIN
and MAX of a column with NULLs in partitions, where `ffill` carries a value from one partition into the next
(`executor.py:2693`); MIN and MAX windows whose frame ends before the
current row, and frames that start two or more rows after it; expressions of literals alone; `SELECT *`
over joins whose sides may be swapped; GROUP BY columns that are not selected; three-way joins over
shared column names without aliases; FROM aliases of a subquery that its outer query has too; OFFSET
without LIMIT, which is ignored.

## 5. Proofs

The eight proof modules hold for all values of the constants. They take as given only the named
assumptions of `Mvcc`, `Engine`, `EngineRefinement`, `Wal`, `Storage`, `RWLock`, `Server` and `PgSession`:
types of the constants, the form of statements, sentinels outside the sets they extend, finitely many
threads, and that the base file of a directory is in it. TLC evaluates them in the runs of their modules. What a theorem
needs beyond them (a restricted `Allow` or `Faults`, one worker) is in its statement and in the table.

| Theorem | Says |
|---|---|
| `EngineTypes`, `EngineWalOrdered` | types, and the order of the log - unless `truncate_fails` |
| `EngineNothingLost` | every committed batch that is visible is in the log - unless `truncate_fails` |
| `EngineIsolation` | the committed state an open transaction reads is frozen - unless `sql_restore` or `truncate_fails` |
| `EngineDurable`, `EngineSnapshotsReachable` | replay rebuilds the delta; named snapshots stay restorable and the counter stays above the last fold - unless `ckpt_crash`, `ckpt_cancel`, `restore_below` or `truncate_fails` |
| `EngineSnapshotsExact` | what a named snapshot would bring back changes only by the fold of a checkpoint taken after later commits - unless `truncate_fails` |
| `EngineOwnWrites` | a transaction reads its snapshot without the keys it deleted plus the rows it inserted - unless `truncate_fails` |
| `EngineCommitApplied` | a commit replaces, deletes and adds exactly the rows of its statements, also when the process dies after the fsync - unless `ckpt_crash`, `ckpt_cancel`, `restore_below` or `truncate_fails` |
| `EngineKeysUnique`, `EngineKeysUniqueOneSession` | declared keys stay unique while transactions do not overlap (`[]Serial`), and so always with one session - unless one of these or `sql_restore` |
| `EngineRefines` | `Spec => ImplementsVersionedDb`: the engine implements the versioned database, for `Allow = {}` |
| `WalTypes`, `WalDroppedGone` | types; a record that a returned truncate dropped never comes back, whatever fails |
| `WalTsOrdered`, `WalAckedDurable` | the order of the file and its counter, and that an acknowledged commit survives every failure, crash and power loss, for a log of any length - unless the truncate of a restore fails (`"restore" \notin Faults`) |
| `StorageScanTruthful`, `StorageCrashSafe` | reads return what was registered and committed, and a crash loses nothing, for any tables, files and directories - for `Allow \subseteq {"sessions"}` |
| `StorageFactsFresh` | no code or uniqueness cached from a whole table is stale, and no fact outlives its table, for `Allow = {}` |
| `ServerTypes`, `ServerTruthful`, `ServerNoneForgotten` | types with the cursor limit; that `ok` means executed and `cancelled` not (of an admin operation it may mean partly), with errors after an effect allowed; and that an awaited request is always queued, with a worker or posted, for a pool of any size |
| `ServerPending`, `ServerQuiet` | `cancel` and `disconnect` reach every request with an id that was not in use twice at once, and none of these starts after its client has gone, for any ids and a pool of any size |
| `ServerTxnOwned` | no statement runs in a transaction that another connection began, for a pool of any size |
| `ServerInOrder` | the requests of a connection take effect in the order they were sent, on one worker, or on a pool of any size when clients wait for each answer (`OneWorker \/ ~Pipelined`) |
| `ServerCommittedOnce` | a transaction is committed at most once and takes no writes afterwards, under the same condition |
| `LockTypes`, `LockExclusive`, `LockNoLostWakeup`, `LockCounters` | the lock, for any finite set of threads |
| `PgTypes`, `PgCursorsOwned`, `PgPagedOnce` | types, for counts of either sign; the connection's cursors are the store's, within the limit, and leave their result or outlive their transaction only as section 4 says; forward paging, for results and limits of any size and all counts that are not negative |
| `PgGateExact`, `PgAbortedNeverCommits` | the gate of aborted transactions, and that none commits, unless clients rebind a described portal (`~Rebinds`) |

The arguments:

* `CoreInv` adds to the types that the delta is finite (needed for the largest replayed timestamp) and
  that the log is ordered. The order needs "strictly below the counter while a commit is in flight",
  since `AllocateTs` and `WalWrite` are separate steps.
* `IsolationInv`: snapshots of open transactions are at most the counter, and strictly below it while a
  commit is in flight, so `DeltaApply` adds only entries no open transaction sees; and no transaction is
  open during a checkpoint. `FrozenNext` then shows that every step keeps the entries at or below each
  snapshot.
* `DurableInv` relates four pieces of state: the delta and what replay would give (`DurableDelta`), what
  a checkpoint in progress has folded (`FoldInv`), the counter (`CounterInv`) and the snapshots
  (`SnapInv`). A truncated log replays to the rewound delta because an ordered log is cut at one point
  (`TruncatePrefix`, `ReplayTruncated`).
* `SnapshotsExact` needs only `NamedInv`: a named snapshot is at most the counter, and strictly below it while
  a commit is in flight, so no commit adds an entry it would see. A restore drops the names above its target
  and keeps all entries at or below it (`RestoreExact`); a checkpoint of the newest timestamp folds exactly
  what the snapshot would merge (`FoldExact`).
* `CoveredInv` is the part of it that survives all of `Allow`: the delta is contained in the replay, also
  while a commit is being applied, and a checkpoint in progress has only its remaining tables in the
  delta.
* `SignInv`: no log record has a negative timestamp, since packing one raises. With `CoveredInv` neither has
  any batch of the delta, so none is older than the rows of the base, which count as inserted at 0; the
  theorems about merges need this.
* What a merge computes is settled once, in `MergeCommit`: merging a commit that is newer than every entry
  gives, row by row, the merge before it with the deleted keys removed, the updated keys replaced and the new
  rows added. The newest tombstone of a key is the commit's own if it has one (`NewestRange`); entries are
  counted by `(ts, n)`, so equal batches count twice (`StampCount`). A transaction's buffer is such a commit
  at `_INS_INF`, which no timestamp reaches (`CapInv`), and holds only inserts and DELETE tombstones
  (`TxnInv`); this is `EngineOwnWrites`. The batches in flight are those of the owner's transaction or of
  one statement (`JobInv`) and newer than the delta when they are applied (`ApplyInv`); this is
  `EngineCommitApplied`.
* `UniqueInv`: keys are unique at every timestamp a restore could return to (`HistoryUnique`), in what an
  open transaction sees (`TxnUnique`) and in the outcome of the commit in flight (`PendingUnique`).
  Uniqueness now does not suffice, since a restore brings back the past. `_enforce_unique` checks a new
  frame against what its writer sees, so `TxnUnique` also needs that nothing was committed after the
  snapshot of an open transaction. The code does not enforce this: hence `Serial`, and with two overlapping
  transactions `KeysUnique` is false (section 4).
* `RefInv` adds to these invariants that the allocated timestamp is above the oldest version (`TipInv`), that
  open transactions read a version that still exists (`OpenInv`), and that a statement on its way to the log
  deletes keys and adds rows of one table that passed their check (`FreshInv`), because `VersionedDb` checks
  it at the commit, two steps later. Then each step maps to one of `VersionedDb`: `WalWrite` appends a
  version (`CommitAppends`, `StatementAppends`), `WalFail` one equal to the last (`FailAppends`), BEGIN,
  ROLLBACK, INSERT and DELETE change the open transaction (`InsertWrites` uses `OwnWrites` to carry the
  uniqueness check over), a restore cuts (`RestoreCuts`), the fold of the first table is the checkpoint
  (`FoldCheckpoints`), a crash keeps the newest contents (`CrashRecovers`, from `DurableDelta`); the
  allocation of a timestamp, the append to the delta, later folds and the end of a checkpoint are stutters.
  `NoAbstractTxn` only says that the sentinel is no transaction of the abstract database either.
* `Wal`: only the last record can be torn, and only while its rest is buffered (`FileInv`). No step makes
  records up: every file that may be on disk after it is a beginning of one that might have been there
  before, or the file with the new record (`Derivation`). So dropped records stay away (`DropInv`), files
  stay ordered (`OrderInv`), and all of them share the synced records, among which are the acknowledged ones
  (`SyncInv`).
* `StorageInv`: file and delta of a table make up its truth unless the checkpoint has just written over its
  file (`RowsKept`); a name that is not registered has left nothing behind (`Placed`); no two tables share a
  directory (`OwnDirs`); the log equals the delta, and during a checkpoint for the tables still to fold
  (`LogKept`). `FactsKept` adds that cached facts are those of the rows now visible.
* `ServerInv`: a request is in one place at a time (unsent, queued, with one worker, posted, answered), and
  at each place where it is not with an error it is known whether it has taken effect; this is what makes
  answers truthful. `FlightInv` says that an unanswered
  request of a live connection awaits its answer, and that two which await it under one id are both in
  `shared`; without it `PendingExact` is not inductive, since an answer removes the entry of its id,
  whoever it belongs to. `QuietInv` adds that a queued request whose connection has gone is marked as
  cancelled, because `Disconnect` finds it through `PendingExact`.
* `OwnedInv` (a transaction, in a slot or with a connection, was begun by a request of the connection it serves)
  holds on any pool, since `Load` overwrites the slot and `WriteBack` clears it. `TxnInv` says that a committed transaction is in no slot, and with its connection only until the worker that
  committed it writes back. It rests on no two workers serving one connection at a time (`Alone`): with one
  worker there are no two, and when clients wait for answers a connection has at most one request that was
  never answered (`SingleInv`, from `FlightInv`). `InOrder` needs the same and `RankInv`: the queue is in the
  order of sending, and behind everything a worker has taken.
* `LockInv`: counters equal the sets they count, sleepers really have to wait, and whoever sleeps has a
  holder or a woken writer that will notify.
* `SessionInv` adds to the types where a statement at the worker comes from (`RunPlace`: it is awaited in
  the phase `query` or `extended`, had passed the gate unless it is a Describe, and a portal being described
  is still bound to it) and `CursorsInv`: `CursorsOwned`, positions within the bound on drift, what was paged forward is exactly the prefix up
  to the position, and the store is finite, which the limit needs. `GateInv` adds that a cached description
  belongs to the SELECT its portal is bound to (`CacheExact`), so that an answer from the cache ends no
  transaction; only this part needs `~Rebinds`.

Only model-checked:

* `AnswersSql` and `ColumnsResolve`. `SqlBuilder`, `Optimizer`, `Relational` and `SqlReference` recurse over
  plans and queries, with RECURSIVE operators and by induction over data; both are out of the prover's
  reach.
* Liveness (`WriteProgress`, `ReadProgress` and the two `Answered`), which needs fairness and ENABLED. Their
  safety parts, `NoLostWakeup` and `NoneForgotten`, are theorems.

Every other property of the passing runs is also a theorem.

## 6. Not modelled, and plan

Not modelled:

* an engine without a data directory, whose log is disabled;
* the text of SQL (`sqlglot` is external), scalar functions, casts, strings, dates, floats, and the
  parsing of DML; named windows and variances;
* adding and dropping columns, inferring schemas from files, several files per table;
* the numeric kernels and their code generation (`fused.py`, `kernels/`): their subject is data layout on a
  GPU, and of their effects only the frames left in the scan cache are in a model (`Storage`);
* value formatting, parameter substitution and the catalog queries of PostgreSQL drivers; plan rendering,
  query history, pool shutdown, previews;
* the `py` cells, one request that runs any number of statements through `run_sql` and answers with the
  traceback when one of them raises;
* the command line and the web client, which keep no state the server relies on.

Planned, in this order:

1. A composition of `Wal` and `Engine`, in which sessions see the torn records and power losses that only
   `Wal` has.
2. Lemmas about single passes of `Optimizer` that need no induction over the plan.
