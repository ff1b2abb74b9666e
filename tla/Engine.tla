------------------------------ MODULE Engine ------------------------------
(***************************************************************************)
(* The transactional core of RyuDB (ryudb/exec/executor.py, delta.py,      *)
(* transaction.py and the record level of wal.py): sessions run autocommit *)
(* and explicit transactions against an immutable base and a timestamped   *)
(* delta; every commit goes through _write_commit, i.e. allocate a         *)
(* timestamp, append one WAL record and fsync it, only then mutate the     *)
(* delta; snapshots, restore, checkpoint and crash recovery rewrite that   *)
(* history.                                                                *)
(*                                                                         *)
(* Every statement that writes holds the engine's exclusive lock, so       *)
(* statements are serialised; what can come between the steps of one       *)
(* statement is a crash, an I/O error or a cancel.  pc says where the      *)
(* holder of the lock is.  The engine has a data directory: one without    *)
(* has no log, cannot checkpoint and ends with its process.                *)
(***************************************************************************)
EXTENDS Mvcc

CONSTANTS
    Sessions,        \* client connections, each with its own transaction slot
    Names,           \* snapshot names
    RestoreTargets,  \* timestamps the admin restore operation is called with
    NoTxn,           \* no open transaction (None)
    NoSession,       \* nobody holds the write lock
    Allow,           \* what clients and the environment do beyond the ordinary
    MaxTs,           \* bound: largest commit timestamp allocated
    MaxStmts,        \* bound: buffered batches per transaction
    MaxRows,         \* bound: rows per INSERT or MERGE source
    MaxCopies        \* bound: copies of one row in a table without a primary key

\* sql_restore:  RESTORE TO SNAPSHOT is issued while another session has an open transaction
\* reinsert:     a transaction inserts a key it has deleted
\* ckpt_crash:   the process may die between two tables of a checkpoint
\* ckpt_cancel:  a checkpoint may be cancelled, or fail, between two tables
\* restore_below: restore_to is called with a timestamp older than the last checkpoint
\* truncate_fails: the WAL truncate of a restore, or at the end of a checkpoint, may raise
Behaviours == {"sql_restore", "reinsert", "ckpt_crash", "ckpt_cancel", "restore_below", "truncate_fails"}

ASSUME AllowAssumption   == Allow \subseteq Behaviours
ASSUME TargetsAssumption == RestoreTargets \subseteq Int
ASSUME BoundsAssumption  == MaxTs \in Nat /\ MaxStmts \in Nat /\ MaxRows \in Nat /\ MaxCopies \in Nat
ASSUME NoneAssumption    == NoSession \notin Sessions /\ InsInf > MaxTs

VARIABLES
    base,       \* [Tables -> Bag]: the Parquet base files
    delta,      \* set of Entry: DeltaStore._batches and _tombstones
    wal,        \* sequence of durable WAL records
    commit_ts,  \* Engine._commit_ts
    snapshots,  \* Engine._snapshots
    txn,        \* [Sessions -> Txn or NoTxn]
    pc,         \* step of the statement that holds the write lock
    owner,      \* session running it
    job,        \* batches it is committing
    todo,       \* tables a running checkpoint has not folded yet
    floor       \* history variable: commit_ts when a table was last folded into its base

vars == <<base, delta, wal, commit_ts, snapshots, txn, pc, owner, job, todo, floor>>

Txn == [snapshot_ts : Int, buffer : Seq(Batch), tombstones : Seq(Batch)]
Record == [ts : Int, batches : Seq(Batch)]
BeginTxn(ts) == [snapshot_ts |-> ts, buffer |-> <<>>, tombstones |-> <<>>]
BufferAppend(x, batch) == [x EXCEPT !.buffer = Append(@, batch)]
TombstoneAppend(x, batch) == [x EXCEPT !.tombstones = Append(@, batch)]
TxnBatches(x) == x.buffer \o x.tombstones

ASSUME NoTxnAssumption == NoTxn \notin Txn

TypeOK ==
    /\ base \in [Tables -> Bag]
    /\ delta \subseteq Entry
    /\ wal \in Seq(Record)
    /\ commit_ts \in Int
    /\ DOMAIN snapshots \subseteq Names
    /\ snapshots \in [DOMAIN snapshots -> Int]
    /\ txn \in [Sessions -> Txn \cup {NoTxn}]
    /\ pc \in {"idle", "wal", "apply", "ckpt"}
    /\ owner \in Sessions \cup {NoSession}
    /\ job \in Seq(Batch)
    /\ todo \subseteq Tables
    /\ floor \in Int

Idle == pc = "idle"
NoOpenTxn == \A s \in Sessions : txn[s] = NoTxn

\* What a scan of t returns at a committed timestamp, and to a session: inside a
\* transaction the snapshot plus its own buffered batches, else everything committed.
CommittedAt(t, ts) == MergeDelta(t, base[t], EntriesAt(delta, ts))

TxnSeesTip(s, t) ==
    MergeDelta(t, base[t],
        IF txn[s] = NoTxn THEN delta ELSE delta \cup Stamp(InsInf, TxnBatches(txn[s])))

Visible(s, t) ==
    MergeDelta(t, base[t],
        IF txn[s] = NoTxn
        THEN delta
        ELSE EntriesAt(delta, txn[s].snapshot_ts) \cup Stamp(InsInf, TxnBatches(txn[s])))

Init ==
    /\ base \in [Tables -> [Row -> {0, 1}]]
    /\ \A t \in PKTables : UniqueOn("k", [r \in RowsOf(base[t]) |-> r], [r \in Row |-> 0])
    /\ \A t \in UniqueTables : UniqueOn("v", [r \in RowsOf(base[t]) |-> r], [r \in Row |-> 0])
    /\ delta = {}
    /\ wal = <<>>
    /\ commit_ts = 0
    /\ snapshots = [n \in {} |-> 0]
    /\ txn = [s \in Sessions |-> NoTxn]
    /\ pc = "idle"
    /\ owner = NoSession
    /\ job = <<>>
    /\ todo = {}
    /\ floor = 0

----------------------------------------------------------------------------
(***************************************************************************)
(* _write_commit, in three steps: allocate the timestamp, append and fsync *)
(* the WAL record (or fail), append to the in-memory delta.                *)
(***************************************************************************)
AllocateTs(s, batches) ==
    /\ commit_ts < MaxTs
    /\ commit_ts' = commit_ts + 1
    /\ pc' = "wal"
    /\ owner' = s
    /\ job' = batches
    /\ UNCHANGED <<base, delta, wal, snapshots, txn, todo, floor>>

WalWriteForgets ==
    /\ pc = "wal"
    /\ wal' = IF \E i \in DOMAIN job : job[i].kind # "insert" THEN wal
              ELSE Append(wal, [ts |-> commit_ts, batches |-> job])
    /\ pc' = "apply"
    /\ UNCHANGED <<base, delta, commit_ts, snapshots, txn, owner, job, todo, floor>>

\* WAL.write_commit returns: the record is durable.  An empty commit writes none; a record
\* stores its timestamp unsigned, so packing a negative one raises.
WalWrite ==
    /\ pc = "wal"
    /\ job # <<>> => commit_ts >= 0
    /\ wal' = IF job = <<>> THEN wal ELSE Append(wal, [ts |-> commit_ts, batches |-> job])
    /\ pc' = "apply"
    /\ UNCHANGED <<base, delta, commit_ts, snapshots, txn, owner, job, todo, floor>>

\* WAL.write_commit raises after removing what it wrote.  The timestamp stays consumed;
\* an explicit transaction stays open, the implicit one of UPDATE and MERGE is dropped.
WalFail ==
    /\ pc = "wal"
    /\ job # <<>>
    /\ pc' = "idle"
    /\ owner' = NoSession
    /\ job' = <<>>
    /\ UNCHANGED <<base, delta, wal, commit_ts, snapshots, txn, todo, floor>>

DeltaApply ==
    /\ pc = "apply"
    /\ delta' = delta \cup Stamp(commit_ts, job)
    /\ txn' = [txn EXCEPT ![owner] = NoTxn]
    /\ pc' = "idle"
    /\ owner' = NoSession
    /\ job' = <<>>
    /\ UNCHANGED <<base, wal, commit_ts, snapshots, todo, floor>>

----------------------------------------------------------------------------
\* Transaction control.
Begin(s) ==
    /\ Idle
    /\ txn[s] = NoTxn
    /\ txn' = [txn EXCEPT ![s] = BeginTxn(commit_ts)]
    /\ UNCHANGED <<base, delta, wal, commit_ts, snapshots, pc, owner, job, todo, floor>>

Commit(s) ==
    /\ Idle
    /\ txn[s] # NoTxn
    /\ AllocateTs(s, TxnBatches(txn[s]))

Rollback(s) ==
    /\ Idle
    /\ txn[s] # NoTxn
    /\ txn' = [txn EXCEPT ![s] = NoTxn]
    /\ UNCHANGED <<base, delta, wal, commit_ts, snapshots, pc, owner, job, todo, floor>>

----------------------------------------------------------------------------
\* The tail shared by INSERT and DELETE: buffer the batch in an open transaction,
\* otherwise commit it at once.
Buffer(s, field, batch) ==
    /\ txn[s] # NoTxn
    /\ Len(TxnBatches(txn[s])) < MaxStmts
    /\ txn' = [txn EXCEPT ![s] =
                 IF field = "insert" THEN BufferAppend(@, batch) ELSE TombstoneAppend(@, batch)]
    /\ UNCHANGED <<base, delta, wal, commit_ts, snapshots, pc, owner, job, todo, floor>>

WriteOut(s, field, batch) ==
    \/ Buffer(s, field, batch)
    \/ txn[s] = NoTxn /\ AllocateTs(s, <<batch>>)

\* Keys the open transaction of s has deleted in t.
DeletedKeys(s, t) ==
    IF txn[s] = NoTxn THEN {}
    ELSE UNION {b.keys : b \in {txn[s].tombstones[i] : i \in
                   {j \in DOMAIN txn[s].tombstones : txn[s].tombstones[j].table = t}}}

InsertRows(s, t, rows) ==
    /\ Idle
    /\ rows # {}
    /\ "reinsert" \in Allow \/ \A r \in rows : r.k \notin DeletedKeys(s, t)
    /\ \A r \in rows : Visible(s, t)[r] < MaxCopies
    /\ EnforceUnique(t, [r \in rows |-> r], Visible(s, t))
    /\ WriteOut(s, "insert", InsertBatch(t, rows))

\* INSERT ... VALUES, NOT NULL columns already filled.
Insert(s, t, rows) == InsertRows(s, t, rows)

\* INSERT INTO t SELECT DISTINCT * FROM src WHERE k IN keys; no rows is a no-op.
InsertSelect(s, src, t, keys) ==
    InsertRows(s, t, {r \in RowsOf(Visible(s, src)) : r.k \in keys})

Delete(s, t, keys) ==
    LET targets == {r.k : r \in {x \in RowsOf(Visible(s, t)) : x.k \in keys}} IN
    /\ Idle
    /\ t \in PKTables
    /\ targets # {}
    /\ WriteOut(s, "tombstone", Tombstone(t, targets, FALSE))

\* The tail of UPDATE and MERGE: in an implicit transaction buffer the tombstones,
\* check the new frame against what is then visible, buffer it and commit.
ImplicitTxn(s, t, tombs, frame) ==
    LET seen == MergeDelta(t, base[t], EntriesAt(delta, commit_ts) \cup Stamp(InsInf, tombs))
        new  == {frame[i] : i \in DOMAIN frame}
    IN  /\ DOMAIN frame # {} => EnforceUnique(t, frame, seen)
        /\ AllocateTs(s, (IF new = {} THEN <<>> ELSE <<InsertBatch(t, new)>>) \o tombs)

\* The row after SET col = val.
SetColumn(r, col, val) == [k |-> IF col = "k" THEN val ELSE r.k, v |-> IF col = "v" THEN val ELSE r.v]

UpdateAsDelete(s, t, keys, col, val) ==
    LET visible == Visible(s, t)
        targets == {r \in RowsOf(visible) : r.k \in keys}
        frame   == [o \in Occurrences(visible, targets) |-> SetColumn(o[1], col, val)]
    IN  /\ Idle
        /\ t \in PKTables
        /\ txn[s] = NoTxn
        /\ targets # {}
        /\ ImplicitTxn(s, t, <<Tombstone(t, {r.k : r \in targets}, FALSE)>>, frame)

\* UPDATE t SET col = val WHERE k IN keys; autocommit only.
Update(s, t, keys, col, val) ==
    LET visible == Visible(s, t)
        targets == {r \in RowsOf(visible) : r.k \in keys}
        frame   == [o \in Occurrences(visible, targets) |-> SetColumn(o[1], col, val)]
    IN  /\ Idle
        /\ t \in PKTables
        /\ txn[s] = NoTxn
        /\ targets # {}
        /\ ImplicitTxn(s, t, <<Tombstone(t, {r.k : r \in targets}, TRUE)>>, frame)

\* MERGE INTO t USING source ON t.k = source.k with at most one arm of each kind;
\* hit is the part of the matched target rows that satisfies the arm's condition.
Merge(s, t, source, hit, matched_arm, not_matched_arm) ==
    LET visible == Visible(s, t)
        pairs   == {p \in Occurrences(visible, RowsOf(visible)) \X source : p[1][1].k = p[2].k}
        m       == {p \in pairs : p[1][1].k \in hit}
        mkeys   == {p[1][1].k : p \in m}
        fresh   == IF not_matched_arm = "insert"
                   THEN {r \in source : \A p \in pairs : p[2].k # r.k} ELSE {}
        moved   == IF matched_arm = "update" THEN m ELSE {}
        tombs   == IF m = {} \/ matched_arm = "none" THEN <<>>
                   ELSE <<Tombstone(t, mkeys, matched_arm = "update")>>
        frame   == [i \in ({"new"} \X fresh) \cup ({"upd"} \X moved) |->
                        IF i[1] = "new" THEN i[2] ELSE SetColumn(i[2][1][1], "v", i[2][2].v)]
    IN  /\ Idle
        /\ matched_arm # "none" => t \in PKTables
        /\ txn[s] = NoTxn
        /\ matched_arm # "none" => Cardinality({p[1][1].k : p \in pairs}) = Cardinality(pairs)
        /\ tombs # <<>> \/ fresh # {}
        /\ \A r \in fresh : visible[r] < MaxCopies
        /\ ImplicitTxn(s, t, tombs, frame)

----------------------------------------------------------------------------
\* CREATE SNAPSHOT, from SQL (also inside a transaction) or the admin operation.
Snapshot(n) ==
    /\ Idle
    /\ snapshots' = [m \in DOMAIN snapshots \cup {n} |->
                        IF m = n THEN commit_ts ELSE snapshots[m]]
    /\ UNCHANGED <<base, delta, wal, commit_ts, txn, pc, owner, job, todo, floor>>

\* WAL.truncate(max_ts): cut at the first record past max_ts.
TruncateWal(max_ts) ==
    LET past == {i \in DOMAIN wal : wal[i].ts > max_ts}
    IN  IF past = {} THEN wal ELSE SubSeq(wal, 1, Min(past) - 1)

RestoreToKeepsSnapshots(target) ==
    /\ target <= commit_ts
    /\ delta' = Rewind(delta, target)
    /\ commit_ts' = target
    /\ wal' = TruncateWal(target)
    /\ UNCHANGED <<base, snapshots, txn, pc, owner, job, todo, floor>>

RestoreToKeepsWal(target) ==
    /\ target <= commit_ts
    /\ delta' = Rewind(delta, target)
    /\ commit_ts' = target
    /\ snapshots' = [n \in {m \in DOMAIN snapshots : snapshots[m] <= target} |-> snapshots[n]]
    /\ UNCHANGED <<base, wal, txn, pc, owner, job, todo, floor>>

\* WAL.truncate raises: the log is as it was, or cut all the same when only the fsync failed.
TruncateFails(max_ts) ==
    /\ "truncate_fails" \in Allow
    /\ wal' \in {wal, TruncateWal(max_ts)}

\* _restore_to.  One step: the lock hides the state between the in-memory rewind and
\* the WAL truncation, and a crash there is a crash before this step.  A truncate that
\* raises leaves the delta rewound and the snapshots as they were.
RestoreTo(target) ==
    /\ target <= commit_ts
    /\ delta' = Rewind(delta, target)
    /\ commit_ts' = target
    /\ \/ /\ wal' = TruncateWal(target)
          /\ snapshots' = [n \in {m \in DOMAIN snapshots : snapshots[m] <= target} |-> snapshots[n]]
       \/ TruncateFails(target) /\ UNCHANGED snapshots
    /\ UNCHANGED <<base, txn, pc, owner, job, todo, floor>>

\* RESTORE TO SNAPSHOT n through Engine.sql: only the session's own transaction is checked.
RestoreSql(s, n) ==
    /\ Idle
    /\ txn[s] = NoTxn
    /\ "sql_restore" \in Allow \/ NoOpenTxn
    /\ n \in DOMAIN snapshots
    /\ RestoreTo(snapshots[n])

AdminRestoreAnyTime(n) ==
    /\ Idle
    /\ n \in DOMAIN snapshots
    /\ RestoreTo(snapshots[n])

\* The admin restore operation, by name or by timestamp: refused while any session has
\* an open transaction.
AdminRestore(n) ==
    /\ Idle
    /\ NoOpenTxn
    /\ n \in DOMAIN snapshots
    /\ RestoreTo(snapshots[n])

AdminRestoreTo(ts) ==
    /\ Idle
    /\ NoOpenTxn
    /\ "restore_below" \in Allow \/ ts >= floor
    /\ RestoreTo(ts)

----------------------------------------------------------------------------
(***************************************************************************)
(* Checkpoint: fold each table of the delta into its base, then truncate   *)
(* the WAL and drop the snapshots the fold made unreachable.  A cancel     *)
(* before the first table, or an empty delta, changes nothing.             *)
(***************************************************************************)
CheckpointTable(t) ==
    /\ \/ Idle /\ NoOpenTxn /\ t \in DeltaTables(delta) /\ todo' = DeltaTables(delta) \ {t}
       \/ pc = "ckpt" /\ t \in todo /\ todo' = todo \ {t}
    /\ pc' = "ckpt"
    /\ base' = [base EXCEPT ![t] = MergeDelta(t, base[t], delta)]
    /\ delta' = Clear(delta, t)
    /\ floor' = commit_ts
    /\ UNCHANGED <<wal, commit_ts, snapshots, txn, owner, job>>

CheckpointEndKeepsWal ==
    /\ pc = "ckpt"
    /\ todo = {}
    /\ pc' = "idle"
    /\ snapshots' = [n \in {m \in DOMAIN snapshots : snapshots[m] >= commit_ts} |-> snapshots[n]]
    /\ UNCHANGED <<base, delta, wal, commit_ts, txn, owner, job, todo, floor>>

\* The truncate may raise here too, with every table folded.
CheckpointEnd ==
    /\ pc = "ckpt"
    /\ todo = {}
    /\ pc' = "idle"
    /\ \/ /\ wal' = TruncateWal(0)
          /\ snapshots' = [n \in {m \in DOMAIN snapshots : snapshots[m] >= commit_ts} |-> snapshots[n]]
       \/ TruncateFails(0) /\ UNCHANGED snapshots
    /\ UNCHANGED <<base, delta, commit_ts, txn, owner, job, todo, floor>>

\* _check_cancel, or an error, at the head of a later iteration.
CheckpointCancel ==
    /\ "ckpt_cancel" \in Allow
    /\ pc = "ckpt"
    /\ todo # {}
    /\ pc' = "idle"
    /\ todo' = {}
    /\ UNCHANGED <<base, delta, wal, commit_ts, snapshots, txn, owner, job, floor>>

----------------------------------------------------------------------------
\* WAL.replay as Engine.__init__ applies it.
Replayed == UNION {Stamp(wal[i].ts, wal[i].batches) : i \in DOMAIN wal}
ReplayedTs == Max({0} \cup {wal[i].ts : i \in DOMAIN wal})

\* The process dies and a new Engine opens the same data directory.
Crash ==
    /\ pc = "ckpt" => "ckpt_crash" \in Allow
    /\ delta' = Replayed
    /\ commit_ts' = ReplayedTs
    /\ snapshots' = [n \in {} |-> 0]
    /\ txn' = [s \in Sessions |-> NoTxn]
    /\ pc' = "idle"
    /\ owner' = NoSession
    /\ job' = <<>>
    /\ todo' = {}
    /\ floor' = 0
    /\ UNCHANGED <<base, wal>>

----------------------------------------------------------------------------
SmallRowSets == {R \in SUBSET Row : Cardinality(R) <= MaxRows}

Statement(s) ==
    \/ Begin(s) \/ Commit(s) \/ Rollback(s)
    \/ \E t \in Tables : \E rows \in SmallRowSets : Insert(s, t, rows)
    \/ \E t \in Tables : \E src \in Tables \ {t} : \E K \in SUBSET Keys : InsertSelect(s, src, t, K)
    \/ \E t \in Tables : \E K \in SUBSET Keys : Delete(s, t, K)
    \/ \E t \in Tables : \E K \in SUBSET Keys : \E x \in Vals : Update(s, t, K, "v", x)
    \/ \E t \in Tables : \E K \in SUBSET Keys : \E x \in Keys : Update(s, t, K, "k", x)
    \/ \E t \in Tables : \E source \in SmallRowSets : \E new \in {"none", "insert"} :
         \/ Merge(s, t, source, {}, "none", new)
         \/ \E hit \in SUBSET {r.k : r \in source} : \E arm \in {"update", "delete"} :
               Merge(s, t, source, hit, arm, new)
    \/ \E n \in Names : RestoreSql(s, n)

Admin ==
    \/ \E n \in Names : Snapshot(n) \/ AdminRestore(n)
    \/ \E ts \in RestoreTargets : AdminRestoreTo(ts)
    \/ \E t \in Tables : CheckpointTable(t)
    \/ CheckpointEnd
    \/ CheckpointCancel

Next ==
    \/ \E s \in Sessions : Statement(s)
    \/ Admin
    \/ WalWrite \/ WalFail \/ DeltaApply
    \/ Crash

Spec == Init /\ [][Next]_vars

----------------------------------------------------------------------------
(***************************************************************************)
(* Properties.                                                             *)
(***************************************************************************)

\* WAL.truncate and WAL.replay rely on it: records are in strictly increasing timestamp
\* order and none is newer than the engine's counter, also while a commit is in flight.
WalOrdered ==
    /\ \A i, j \in DOMAIN wal : i < j => wal[i].ts < wal[j].ts
    /\ \A i \in DOMAIN wal : IF pc = "wal" THEN wal[i].ts < commit_ts ELSE wal[i].ts <= commit_ts

\* Durability and atomicity of _write_commit and _restore_to: whenever the write lock is
\* free, a restart would rebuild exactly the delta that readers see now; between the fsync
\* and the in-memory append it would rebuild that delta plus the whole commit in flight.
DurableDelta ==
    /\ pc \in {"idle", "wal"} => Replayed = delta
    /\ pc = "apply" => Replayed = delta \cup Stamp(commit_ts, job)

\* No committed batch that readers can see would be missing after a restart, whatever is
\* cancelled, restored or interrupted: memory never runs ahead of the log.
NothingVisibleLost == delta \subseteq Replayed

\* _restore_to's comment calls its "already discarded" guard unreachable for a surviving
\* snapshot, and checkpoint drops the ones it folded away: every named snapshot can be
\* restored.  Nor does the counter fall below a checkpoint, whose history is in the base.
SnapshotsReachable ==
    /\ floor <= commit_ts
    /\ pc # "ckpt" => \A n \in DOMAIN snapshots : floor <= snapshots[n] /\ snapshots[n] <= commit_ts

\* RESTORE TO SNAPSHOT returns to the moment of CREATE SNAPSHOT: until the name is dropped or
\* taken again, what it would restore never changes, whatever is committed, fails, is restored
\* or cancelled in between; only the fold of a checkpoint taken later changes it.
SnapshotsExact ==
    [][\A n \in DOMAIN snapshots \cap DOMAIN snapshots', t \in Tables :
          snapshots'[n] = snapshots[n] /\ (pc' = "ckpt" => snapshots[n] = commit_ts) =>
              MergeDelta(t, base'[t], EntriesAt(delta', snapshots[n])) = CommittedAt(t, snapshots[n])]_vars

\* The committed state an open transaction reads never changes while it is open, whatever
\* other sessions and admin operations commit, restore or checkpoint (MVCC isolation).
SnapshotFrozen ==
    [][\A s \in Sessions, t \in Tables :
          txn[s] # NoTxn /\ txn'[s] # NoTxn =>
              MergeDelta(t, base'[t], EntriesAt(delta', txn[s].snapshot_ts))
                = CommittedAt(t, txn[s].snapshot_ts)]_vars

\* Read-your-writes: what a transaction reads is its snapshot without the keys it deleted,
\* plus the rows it inserted and did not delete.
OwnWrites ==
    \A s \in Sessions, t \in Tables :
        txn[s] # NoTxn =>
            LET gone == DeletedKeys(s, t)
                snap == CommittedAt(t, txn[s].snapshot_ts)
                buf  == txn[s].buffer
            IN  Visible(s, t) =
                  [r \in Row |-> IF r.k \in gone THEN 0
                     ELSE snap[r] + Cardinality({i \in DOMAIN buf : buf[i].table = t /\ r \in buf[i].rows})]

\* No two committed rows share a declared primary key or a non-null UNIQUE value, across
\* crashes, restores and checkpoints.
KeysUnique ==
    \A t \in Tables :
        LET c   == MergeDelta(t, base[t], delta)
            all == Occurrences(c, RowsOf(c))
        IN  \A o, p \in all :
                o # p => /\ t \in PKTables => o[1].k # p[1].k
                         /\ t \in UniqueTables /\ o[1].v # Null => o[1].v # p[1].v

\* What a commit means, although its rows and tombstones share one timestamp: an UPDATE or
\* MERGE replaces the rows of its keys by its new ones, a transaction that inserted and then
\* deleted a key leaves none; every other row stays.  It holds also when the process dies
\* between the fsync and the in-memory append.
CommitApplied ==
    [][pc = "apply" =>
         \A t \in Tables :
            LET mine   == {i \in DOMAIN job : job[i].table = t}
                gone   == UNION {job[i].keys : i \in mine}
                new(r) == Cardinality({i \in mine : r \in job[i].rows})
                old    == MergeDelta(t, base[t], delta)
            IN  MergeDelta(t, base'[t], delta') =
                  [r \in Row |-> IF r.k \notin gone THEN old[r] + new(r)
                                 ELSE IF txn[owner] = NoTxn THEN new(r) ELSE 0]]_vars
=============================================================================
