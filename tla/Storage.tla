------------------------------ MODULE Storage -------------------------------
(***************************************************************************)
(* Where a table's rows live: base files, the catalog in memory and its    *)
(* saved copy (ryudb/catalog.py), the delta and the log, the engine's      *)
(* caches (executor.py), and the admin operations that move rows and names *)
(* between them (handlers.py): register, upload, drop, rename, alter,      *)
(* checkpoint, and a restart.                                              *)
(*                                                                         *)
(* Every operation holds the engine's write lock, so only a crash falls    *)
(* between the steps of a checkpoint.  A row is the timestamp of the       *)
(* commit that inserted it, or the file it came with; a table is one file; *)
(* Engine models what transactions see of the delta.                       *)
(***************************************************************************)
EXTENDS Naturals, Sequences, FiniteSets, FiniteSetsExt

CONSTANTS
    Names,    \* table names
    Files,    \* paths of Parquet files
    Sources,  \* files that exist and clients register
    Uploads,  \* files an upload creates
    DirOf,    \* [Files -> directory]
    BaseOf,   \* [directory -> path]: its ryudb_base.parquet
    Kinds,    \* constraints an ALTER sets or clears
    Allow,    \* behaviours of clients and of the disk beyond the guarantees, see below
    MaxTs,    \* bound on commit timestamps
    MaxRows,  \* bound on the rows of a table
    None,
    Other     \* facts of other rows than a table's, filed under its name

(* shared_dir   two tables with files in one directory, as every two uploads are
   reregister   a name registered again while it has a table, or rows in the delta
   drop_live    a table dropped or renamed while it has rows in the delta or in a transaction
   save_fails   a catalog that cannot be written, which _save swallows
   ckpt_crash   a crash, a cancel or an error in a checkpoint that has replaced a base
   sessions     other sessions at work while a transaction is open                        *)
Behaviours == {"shared_dir", "reregister", "drop_live", "save_fails", "ckpt_crash", "sessions"}

ASSUME StorageAssumption ==
    /\ Sources \subseteq Files /\ Uploads \subseteq Files /\ Allow \subseteq Behaviours /\ MaxTs \in Nat /\ MaxRows \in Nat
    /\ \A f \in Files : BaseOf[DirOf[f]] \in Files /\ DirOf[BaseOf[DirOf[f]]] = DirOf[f]

Rows  == Seq(Nat \cup Files)
Entry == [path : Files, cons : SUBSET (Kinds \cup {"not_null"})]
Frame == [rows : Rows, pending : BOOLEAN]
Facts == Rows \cup {Other}
Txn   == [snap : Nat, buffer : [Names -> Rows]]
Ckpt  == [todo : SUBSET Names, table : Names \cup {None}]

ASSUME StorageNone ==
    /\ None \notin Names /\ None \notin Rows /\ None \notin Entry
    /\ None \notin Frame /\ None \notin Txn /\ None \notin Ckpt /\ None # Other /\ Other \notin Rows

VARIABLES
    files,   \* [Files -> None or Rows]: the disk
    tables,  \* [Names -> None or Entry]: Catalog.tables
    saved,   \* the same, as the catalog file has it
    delta,   \* [Names -> timestamps]: rows committed and not folded
    wal,     \* [Names -> timestamps]: the rows the log has for a table, in commit order
    frames,  \* [Names -> None or Frame]: _scan_cache
    facts,   \* [Names -> None or Facts]: what _code_cache and _pk_cache were computed from
    txn,     \* None or Txn: the open transaction
    ts,      \* _commit_ts
    ckpt,    \* None or Ckpt: tables still to fold, and the one whose file is published
    truth    \* history: [Names -> None or Rows]: what was registered and committed under a name

stvars == <<files, tables, saved, delta, wal, frames, facts, txn, ts, ckpt, truth>>

Init ==
    /\ files = [f \in Files |-> IF f \in Sources THEN <<f>> ELSE None]
    /\ tables = [t \in Names |-> None] /\ saved = [t \in Names |-> None]
    /\ delta = [t \in Names |-> <<>>] /\ wal = [t \in Names |-> <<>>]
    /\ frames = [t \in Names |-> None] /\ facts = [t \in Names |-> None]
    /\ txn = None /\ ts = 0 /\ ckpt = None
    /\ truth = [t \in Names |-> None]

----------------------------------------------------------------------------
(***************************************************************************)
(* Reads.                                                                  *)
(***************************************************************************)

\* _scan's base: the cached frame if there is one, else the file; never the delta.
Base(t) == IF frames[t] # None THEN frames[t].rows ELSE files[tables[t].path]

Buffered(t) == IF txn = None THEN <<>> ELSE txn.buffer[t]
\* Batches are in commit order, so those at or below a timestamp are the first ones.
UpTo(rows, n) == SubSeq(rows, 1, Cardinality({i \in DOMAIN rows : \A j \in 1..i : rows[j] <= n}))
SeenDelta(t) == IF txn = None THEN delta[t] ELSE UpTo(delta[t], txn.snap)
\* The series of a read: by the open transaction, if own, or by anyone else.
View(t, own) == Base(t) \o (IF own THEN SeenDelta(t) \o Buffered(t) ELSE delta[t])

\* has_pending: the rows of t are not all in its base.
HasPending(t) == delta[t] # <<>> \/ Buffered(t) # <<>>

\* A session reads or writes outside the open transaction only beside it.
Outside == txn = None \/ "sessions" \in Allow
Quiet == ckpt = None

\* _scan, then get_codes or is_unique_key: the frame and the facts are cached.  A frame whose
\* gather is pending is resolved or, if that fails, read from the file.  The facts are those
\* of the rows scanned; but the fused paths also file those of a filtered dimension, of a join
\* or of a derived input under the name of the table at the bottom.
Read(t, own) ==
    /\ Quiet /\ tables[t] # None
    /\ own => txn # None
    /\ ~own => Outside
    /\ \E rows \in {Base(t), files[tables[t].path]} :
          /\ rows # Base(t) => frames[t].pending
          /\ frames' = [frames EXCEPT ![t] = [rows |-> rows, pending |-> FALSE]]
    /\ \E new \in {View(t, own), Other} :
          facts' = [facts EXCEPT ![t] = IF @ # None THEN @ ELSE new]
    /\ UNCHANGED <<files, tables, saved, delta, wal, txn, ts, ckpt, truth>>

\* fused_scan: an aggregate straight from the file leaves a frame behind; it defers to _scan
\* when rows are pending.
ColdRead(t) ==
    /\ Quiet /\ tables[t] # None /\ frames[t] = None /\ ~HasPending(t)
    /\ \E p \in BOOLEAN :
          frames' = [frames EXCEPT ![t] = [rows |-> files[tables[t].path], pending |-> p]]
    /\ UNCHANGED <<files, tables, saved, delta, wal, facts, txn, ts, ckpt, truth>>

\* clear_scan_cache, clear_code_cache
ClearCache(scan, code) ==
    /\ Quiet
    /\ frames' = [t \in Names |-> IF scan THEN None ELSE frames[t]]
    /\ facts' = [t \in Names |-> IF code THEN None ELSE facts[t]]
    /\ UNCHANGED <<files, tables, saved, delta, wal, txn, ts, ckpt, truth>>

----------------------------------------------------------------------------
(***************************************************************************)
(* The catalog.                                                            *)
(***************************************************************************)

\* _save after an assignment to tables: it swallows every error.
Save == saved' \in {tables'} \cup {s \in {saved} : "save_fails" \in Allow}

DropFactsOnly(t) == frames' = frames /\ facts' = [facts EXCEPT ![t] = None]

\* _drop_scan_cache_for and _invalidate_table_caches
DropCaches(t) == frames' = [frames EXCEPT ![t] = None] /\ facts' = [facts EXCEPT ![t] = None]

\* No rows of t are anywhere but in its file.
Settled(t) == delta[t] = <<>> /\ Buffered(t) = <<>>
OwnDirectory(t, f) ==
    \A u \in Names \ {t} : tables[u] # None => DirOf[tables[u].path] # DirOf[f]

\* Catalog.register: the prior entry's constraints are kept, the caches are not dropped.
RegisterEntry(t, f) ==
    /\ tables' = [tables EXCEPT ![t] = [path |-> f, cons |-> IF @ = None THEN {} ELSE @.cons]]
    /\ Save

Register(t, f) ==
    /\ Quiet /\ files[f] # None
    /\ "reregister" \in Allow \/ (tables[t] = None /\ Settled(t))
    /\ "shared_dir" \in Allow \/ OwnDirectory(t, f)
    /\ RegisterEntry(t, f)
    /\ truth' = [truth EXCEPT ![t] = files[f]]
    /\ UNCHANGED <<files, delta, wal, frames, facts, txn, ts, ckpt>>

\* _run_upload: the payload becomes a new file, which is registered.
Upload(t, f) ==
    /\ Quiet /\ files[f] = None
    /\ "reregister" \in Allow \/ (tables[t] = None /\ Settled(t))
    /\ "shared_dir" \in Allow \/ OwnDirectory(t, f)
    /\ files' = [files EXCEPT ![f] = <<f>>]
    /\ RegisterEntry(t, f)
    /\ truth' = [truth EXCEPT ![t] = <<f>>]
    /\ UNCHANGED <<delta, wal, frames, facts, txn, ts, ckpt>>

Drop(t) ==
    /\ Quiet /\ tables[t] # None
    /\ "drop_live" \in Allow \/ Settled(t)
    /\ tables' = [tables EXCEPT ![t] = None] /\ Save /\ DropCaches(t)
    /\ truth' = [truth EXCEPT ![t] = None]
    /\ UNCHANGED <<files, delta, wal, txn, ts, ckpt>>

Rename(t, u) ==
    /\ Quiet /\ tables[t] # None /\ tables[u] = None
    /\ "drop_live" \in Allow \/ (Settled(t) /\ Settled(u))
    /\ tables' = [tables EXCEPT ![t] = None, ![u] = tables[t]] /\ Save /\ DropCaches(t)
    /\ truth' = [truth EXCEPT ![t] = None, ![u] = truth[t]]
    /\ UNCHANGED <<files, delta, wal, txn, ts, ckpt>>

\* _run_alter: set_primary_key also sets NOT NULL, and clearing the key leaves it.
Alter(t, kind, on) ==
    /\ Quiet /\ tables[t] # None
    /\ tables' = [tables EXCEPT ![t].cons =
                    IF ~on THEN @ \ {kind} ELSE @ \cup {kind} \cup IF kind = "pk" THEN {"not_null"} ELSE {}]
    /\ Save
    /\ UNCHANGED <<files, delta, wal, frames, facts, txn, ts, ckpt, truth>>

----------------------------------------------------------------------------
(***************************************************************************)
(* Writes.                                                                 *)
(***************************************************************************)

\* _write_commit of rows for the tables in ns, one row each: log, delta, facts.
WriteCommit(ns) ==
    /\ ts < MaxTs /\ ts' = ts + 1
    /\ \A t \in ns : truth[t] # None => Len(truth[t]) < MaxRows
    /\ wal' = [t \in Names |-> IF t \in ns THEN Append(wal[t], ts + 1) ELSE wal[t]]
    /\ delta' = [t \in Names |-> IF t \in ns THEN Append(delta[t], ts + 1) ELSE delta[t]]
    /\ facts' = [t \in Names |-> IF t \in ns THEN None ELSE facts[t]]
    /\ truth' = [t \in Names |-> IF t \in ns /\ truth[t] # None THEN Append(truth[t], ts + 1) ELSE truth[t]]

Insert(t) ==
    /\ Quiet /\ tables[t] # None /\ Outside
    /\ WriteCommit({t})
    /\ UNCHANGED <<files, tables, saved, frames, txn, ckpt>>

Begin ==
    /\ Quiet /\ txn = None
    /\ txn' = [snap |-> ts, buffer |-> [t \in Names |-> <<>>]]
    /\ UNCHANGED <<files, tables, saved, delta, wal, frames, facts, ts, ckpt, truth>>

\* Bound: a transaction buffers one row per table; its timestamp is given at COMMIT.
BufferInsert(t) ==
    /\ Quiet /\ txn # None /\ tables[t] # None /\ txn.buffer[t] = <<>>
    /\ txn' = [txn EXCEPT !.buffer[t] = <<MaxTs + 1>>]
    /\ facts' = [facts EXCEPT ![t] = None]
    /\ UNCHANGED <<files, tables, saved, delta, wal, frames, ts, ckpt, truth>>

Touched == {t \in Names : Buffered(t) # <<>>}

Commit ==
    /\ Quiet /\ txn # None
    /\ WriteCommit(Touched)
    /\ txn' = None
    /\ UNCHANGED <<files, tables, saved, frames, ckpt>>

RollbackKeepsFacts ==
    /\ Quiet /\ txn # None
    /\ txn' = None
    /\ UNCHANGED <<files, tables, saved, delta, wal, frames, facts, ts, ckpt, truth>>

Rollback ==
    /\ Quiet /\ txn # None
    /\ txn' = None
    /\ facts' = [t \in Names |-> IF t \in Touched THEN None ELSE facts[t]]
    /\ UNCHANGED <<files, tables, saved, delta, wal, frames, ts, ckpt, truth>>

\* The rows of t that a restore discards; the truth loses as many, its last.
Discarded(t, target) == Len(delta[t]) - Len(UpTo(delta[t], target))

\* _restore_to: the delta is rewound, the log truncated, and the facts of the tables that lost
\* rows are dropped.  Rows a checkpoint has folded stay (restore_below in Engine, which also has
\* the truncate that fails).
Restore(target) ==
    /\ Quiet /\ Outside /\ target <= ts
    /\ ts' = target
    /\ delta' = [t \in Names |-> UpTo(delta[t], target)]
    /\ wal' = [t \in Names |-> UpTo(wal[t], target)]
    /\ facts' = [t \in Names |-> IF delta'[t] # delta[t] THEN None ELSE facts[t]]
    /\ truth' = [t \in Names |-> IF truth[t] = None THEN None
                                 ELSE SubSeq(truth[t], 1, Len(truth[t]) - Discarded(t, target))]
    /\ UNCHANGED <<files, tables, saved, frames, txn, ckpt>>

----------------------------------------------------------------------------
(***************************************************************************)
(* Checkpoint and restart.                                                 *)
(***************************************************************************)

Checkpoint ==
    /\ Quiet /\ txn = None
    /\ \E t \in Names : delta[t] # <<>>
    /\ ckpt' = [todo |-> {t \in Names : delta[t] # <<>>}, table |-> None]
    /\ UNCHANGED <<files, tables, saved, delta, wal, frames, facts, txn, ts, truth>>

Final(t) == BaseOf[DirOf[tables[t].path]]

\* Scan the merged table and publish it as its directory's base file.
Publish(t) ==
    /\ ckpt # None /\ ckpt.table = None /\ t \in ckpt.todo /\ tables[t] # None
    /\ files' = [files EXCEPT ![Final(t)] = View(t, FALSE)]
    /\ ckpt' = [ckpt EXCEPT !.table = t]
    /\ UNCHANGED <<tables, saved, delta, wal, frames, facts, txn, ts, truth>>

\* Register the new base, clear the delta, remove the old file, drop the caches.
Fold ==
    LET t == ckpt.table  old == tables[t].path  new == Final(t) IN
    /\ ckpt # None /\ t # None
    /\ RegisterEntry(t, new)
    /\ delta' = [delta EXCEPT ![t] = <<>>]
    /\ files' = [files EXCEPT ![old] = IF old = new THEN @ ELSE None]
    /\ DropCaches(t)
    /\ ckpt' = [todo |-> ckpt.todo \ {t}, table |-> None]
    /\ UNCHANGED <<wal, txn, ts, truth>>

EndCheckpointKeepsLog ==
    /\ ckpt # None /\ ckpt.table = None /\ ckpt.todo = {}
    /\ ckpt' = None
    /\ UNCHANGED <<files, tables, saved, delta, wal, frames, facts, txn, ts, truth>>

\* Every committed row is in a base: the whole log goes.
EndCheckpoint ==
    /\ ckpt # None /\ ckpt.table = None /\ ckpt.todo = {}
    /\ ckpt' = None /\ wal' = [t \in Names |-> <<>>]
    /\ UNCHANGED <<files, tables, saved, delta, frames, facts, txn, ts, truth>>

\* No base has been replaced yet: stopping here leaves the old bases and the log as they were.
NothingFolded ==
    /\ \A t \in Names : wal[t] # <<>> => t \in ckpt.todo
    /\ ckpt.table # None => Final(ckpt.table) # tables[ckpt.table].path
Stoppable == ckpt # None /\ "ckpt_crash" \notin Allow => NothingFolded

\* The checkpoint is cancelled before a table, or meets one the catalog does not have.
AbortCheckpoint ==
    /\ ckpt # None /\ ckpt.table = None /\ ckpt.todo # {} /\ Stoppable
    /\ ckpt' = None
    /\ UNCHANGED <<files, tables, saved, delta, wal, frames, facts, txn, ts, truth>>

\* The commits the log has; one without rows left no record.
LoggedTs == UNION {{wal[t][i] : i \in DOMAIN wal[t]} : t \in Names}
\* Catalog._load: an entry whose file is gone is skipped.
Loaded == [t \in Names |-> IF saved[t] = None THEN None
                           ELSE IF files[saved[t].path] = None THEN None ELSE saved[t]]

\* The process dies and starts again: the catalog is loaded and the log replayed.
Restart ==
    /\ Stoppable
    /\ tables' = Loaded
    /\ delta' = wal
    /\ ts' = Max({0} \cup LoggedTs)
    /\ frames' = [t \in Names |-> None] /\ facts' = [t \in Names |-> None]
    /\ txn' = None /\ ckpt' = None
    /\ UNCHANGED <<files, saved, wal, truth>>

Next ==
    \/ \E t \in Names, f \in Sources : Register(t, f)
    \/ \E t \in Names, f \in Uploads : Upload(t, f)
    \/ \E t, u \in Names : Rename(t, u)
    \/ \E t \in Names, k \in Kinds, on \in BOOLEAN : Alter(t, k, on)
    \/ \E t \in Names : Drop(t) \/ ColdRead(t) \/ Insert(t) \/ BufferInsert(t) \/ Publish(t)
    \/ \E t \in Names, own \in BOOLEAN : Read(t, own)
    \/ \E target \in 0..MaxTs : Restore(target)
    \/ \E scan, code \in BOOLEAN : (scan \/ code) /\ ClearCache(scan, code)
    \/ Begin \/ Commit \/ Rollback \/ Checkpoint \/ Fold \/ EndCheckpoint \/ AbortCheckpoint \/ Restart

Spec == Init /\ [][Next]_stvars

----------------------------------------------------------------------------
(***************************************************************************)
(* Properties.                                                             *)
(***************************************************************************)

\* Between operations, a read outside a transaction returns exactly the rows that were
\* registered and committed under the name, whatever was cached, folded, renamed or
\* restarted before it (_scan, checkpoint, _run_admin).
ScanTruthful ==
    Quiet => \A t \in Names : /\ (tables[t] = None) <=> (truth[t] = None)
                              /\ tables[t] # None => /\ files[tables[t].path] # None
                                                     /\ View(t, FALSE) = truth[t]

\* Between operations, a crash loses and duplicates nothing: the saved catalog, the files it
\* names and the log rebuild every table with its constraints (_load, _save, checkpoint).
CrashSafe ==
    Quiet => \A t \in Names : /\ Loaded[t] = tables[t]
                              /\ tables[t] # None => files[tables[t].path] \o wal[t] = truth[t]

\* Codes and uniqueness that a scan of the whole table left in the caches are still those of
\* the rows a read is about to combine them with: every write, rollback, restore, fold, drop
\* and rename dropped them in time, and none outlives its table (_invalidate_table_caches,
\* get_codes, is_unique_key).  Of the facts of other rows (Other) it can only say the latter.
FactsFresh ==
    Quiet => \A t \in Names : facts[t] # None =>
        tables[t] # None /\ facts[t] \in {Other, View(t, txn # None)}
=============================================================================
