------------------------------- MODULE Mvcc -------------------------------
(***************************************************************************)
(* The data model of RyuDB's write path and its read rule: commit batches, *)
(* the per-table delta, and the timestamp-aware merge of delta and base    *)
(* that every scan performs (Engine._merge_delta).                         *)
(*                                                                         *)
(* A row has a key column k and a value column v.  Tables with a declared  *)
(* primary key have it on k; tables in UniqueTables declare UNIQUE (v).    *)
(* The contents of a table are a bag, written as a function Row -> Nat.    *)
(***************************************************************************)
EXTENDS Integers, FiniteSets, FiniteSetsExt, Sequences

CONSTANTS
    Tables,        \* registered tables
    PKTables,      \* those with a declared PRIMARY KEY
    UniqueTables,  \* those with a declared UNIQUE (v)
    Keys,          \* values of the key column
    Vals,          \* values of the other column; may contain Null
    Null,          \* SQL NULL
    InsInf         \* _INS_INF, the insertion timestamp of a buffered row

ASSUME TablesAssumption == PKTables \subseteq Tables /\ UniqueTables \subseteq Tables
ASSUME KeysAssumption   == Null \notin Keys
ASSUME InsInfAssumption == InsInf \in Nat

Row  == [k : Keys, v : Vals]
Bag  == [Row -> Nat]
Kind == {"insert", "tombstone", "tombstone_update"}

\* One (table, kind, frame) triple.  The frame of an insert is a set of rows, the
\* frame of a tombstone a set of primary-key values.
Batch == [table : Tables, kind : Kind, rows : SUBSET Row, keys : SUBSET Keys]

InsertBatch(t, rows) ==
    [table |-> t, kind |-> "insert", rows |-> rows, keys |-> {}]

Tombstone(t, keys, exclude_same_ts) ==
    [table |-> t, kind |-> IF exclude_same_ts THEN "tombstone_update" ELSE "tombstone",
     rows |-> {}, keys |-> keys]

(***************************************************************************)
(* The delta store is a set of batches stamped with their commit timestamp *)
(* and their position in the commit; (ts, n) recovers the list order of    *)
(* DeltaStore and keeps two equal batches apart.                           *)
(***************************************************************************)
Entry == [ts : Int, n : Nat, batch : Batch]

\* delta.append / delta.append_tombstone for every batch of one commit.
Stamp(ts, batches) ==
    {[ts |-> ts, n |-> i, batch |-> batches[i]] : i \in DOMAIN batches}

\* batches_at_with_ts and tombstones_at_with_ts.
EntriesAt(delta, ts) == {e \in delta : e.ts <= ts}

RewindKeepsLater(delta, ts) == {e \in delta : e.ts <= ts + 1}
RewindDropsTarget(delta, ts) == {e \in delta : e.ts < ts}

\* DeltaStore.rewind.
Rewind(delta, ts) == {e \in delta : e.ts <= ts}

\* DeltaStore.clear(table) and DeltaStore.tables().
Clear(delta, t) == {e \in delta : e.batch.table # t}
DeltaTables(delta) == {e.batch.table : e \in delta}

----------------------------------------------------------------------------
\* The newest tombstone of one kind for a key; -1 stands for "no match" (fillna(-1)).
NewestTomb(tombs, kind, key) ==
    LET S == {e.ts : e \in {x \in tombs : x.batch.kind = kind /\ key \in x.batch.keys}}
    IN  IF S = {} THEN -1 ELSE Max(S)

KeepDeleteSameTs(t, tombs, key, ins_ts) ==
    \/ tombs = {}
    \/ t \notin PKTables
    \/ /\ NewestTomb(tombs, "tombstone", key) <= ins_ts
       /\ NewestTomb(tombs, "tombstone_update", key) <= ins_ts

\* The keep filter of _merge_delta: a DELETE removes what was inserted at or before
\* its timestamp, an UPDATE only what was inserted strictly before it.
Keep(t, tombs, key, ins_ts) ==
    \/ tombs = {}
    \/ t \notin PKTables
    \/ /\ NewestTomb(tombs, "tombstone", key) < ins_ts
       /\ NewestTomb(tombs, "tombstone_update", key) <= ins_ts

\* _merge_delta: base rows have insertion timestamp 0, a batch's rows that of the batch.
MergeDelta(t, base, entries) ==
    LET mine  == {e \in entries : e.batch.table = t}
        ins   == {e \in mine : e.batch.kind = "insert"}
        tombs == mine \ ins
    IN  [r \in Row |->
            (IF Keep(t, tombs, r.k, 0) THEN base[r] ELSE 0)
            + Cardinality({e \in ins : r \in e.batch.rows /\ Keep(t, tombs, r.k, e.ts)})]

----------------------------------------------------------------------------
\* The rows of a bag, and its row occurrences (one index per duplicate).
RowsOf(bag) == {r \in Row : bag[r] > 0}
Occurrences(bag, rows) == UNION {{r} \X (1..bag[r]) : r \in rows}

\* One constraint of _enforce_unique, on column col: no duplicate within the new
\* frame, no collision with the visible rows; NULLs are exempt.
UniqueOn(col, frame, visible) ==
    \A i \in DOMAIN frame :
        frame[i][col] # Null =>
            /\ \A j \in DOMAIN frame \ {i} : frame[j][col] # frame[i][col]
            /\ \A r \in RowsOf(visible) : r[col] # frame[i][col]

EnforceNothing(t, frame, visible) == TRUE

\* _enforce_unique accepts a frame (a function from row positions to rows).
EnforceUnique(t, frame, visible) ==
    /\ t \in PKTables => UniqueOn("k", frame, visible)
    /\ t \in UniqueTables => UniqueOn("v", frame, visible)
=============================================================================
