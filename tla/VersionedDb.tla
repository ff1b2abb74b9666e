---------------------------- MODULE VersionedDb ----------------------------
(***************************************************************************)
(* What RyuDB's transactional core promises, without timestamps on rows,   *)
(* tombstones, delta or log: the database is a sequence of versions, one   *)
(* per commit; a transaction reads the version current at its BEGIN plus   *)
(* its own writes, and its COMMIT appends one version that applies those   *)
(* writes to the newest one; a restore cuts the sequence; a checkpoint     *)
(* forgets all versions but the newest; a crash forgets open transactions  *)
(* and snapshots but never the newest version.                             *)
(***************************************************************************)
EXTENDS Integers, FiniteSets

CONSTANTS Tables, PKTables, Keys, Row, Sessions, Names, NoTxn

VARIABLES
    past,   \* [floor..tip -> [Tables -> Row -> Nat]]: the retained versions
    snaps,  \* snapshot name -> version number
    open    \* [Sessions -> open transaction or NoTxn]

dbvars == <<past, snaps, open>>

Tip == CHOOSE v \in DOMAIN past : \A w \in DOMAIN past : w <= v

\* Write sets: per table the keys deleted and the rows (a bag) added afterwards.
NoWrites == [dels |-> [t \in Tables |-> {}], adds |-> [t \in Tables |-> [r \in Row |-> 0]]]

AddRows(w, t, rows) ==
    [dels |-> w.dels,
     adds |-> [w.adds EXCEPT ![t] = [r \in Row |-> @[r] + (IF r \in rows THEN 1 ELSE 0)]]]

DeleteKeys(w, t, keys) ==
    [dels |-> [w.dels EXCEPT ![t] = @ \cup keys],
     adds |-> [w.adds EXCEPT ![t] = [r \in Row |-> IF r.k \in keys THEN 0 ELSE @[r]]]]

Apply(contents, w) ==
    [t \in Tables |-> [r \in Row |->
        (IF r.k \in w.dels[t] THEN 0 ELSE contents[t][r]) + w.adds[t][r]]]

View(s) == Apply(past[open[s].at], open[s].writes)

\* No row of the new rows shares its primary key with another row of the contents.
Fresh(contents, t, rows) ==
    t \in PKTables =>
        \A r \in rows : \A q \in Row \ {r} : q.k = r.k => contents[t][q] = 0 /\ contents[t][r] = 1

Extend(contents) ==
    past' = [v \in DOMAIN past \cup {Tip + 1} |-> IF v = Tip + 1 THEN contents ELSE past[v]]

----------------------------------------------------------------------------
DbInit ==
    /\ past \in [{0} -> [Tables -> [Row -> Nat]]]
    /\ snaps = [n \in {} |-> 0]
    /\ open = [s \in Sessions |-> NoTxn]

DbBegin(s) ==
    /\ open[s] = NoTxn
    /\ open' = [open EXCEPT ![s] = [at |-> Tip, writes |-> NoWrites]]
    /\ UNCHANGED <<past, snaps>>

DbInsert(s, t, rows) ==
    /\ open[s] # NoTxn
    /\ open' = [open EXCEPT ![s] = [at |-> @.at, writes |-> AddRows(@.writes, t, rows)]]
    /\ Fresh(Apply(past[open[s].at], open'[s].writes), t, rows)
    /\ UNCHANGED <<past, snaps>>

DbDelete(s, t, keys) ==
    /\ open[s] # NoTxn
    /\ open' = [open EXCEPT ![s] = [at |-> @.at, writes |-> DeleteKeys(@.writes, t, keys)]]
    /\ UNCHANGED <<past, snaps>>

DbRollback(s) ==
    /\ open[s] # NoTxn
    /\ open' = [open EXCEPT ![s] = NoTxn]
    /\ UNCHANGED <<past, snaps>>

DbCommit(s) ==
    /\ open[s] # NoTxn
    /\ Extend(Apply(past[Tip], open[s].writes))
    /\ open' = [open EXCEPT ![s] = NoTxn]
    /\ UNCHANGED snaps

\* An autocommit statement deletes some keys of one table and adds some rows to it.
DbAutocommit(t, keys, rows) ==
    /\ Extend(Apply(past[Tip], AddRows(DeleteKeys(NoWrites, t, keys), t, rows)))
    /\ Fresh(past'[Tip + 1], t, rows)
    /\ UNCHANGED <<snaps, open>>

\* A commit that failed leaves a version equal to the one before.
DbFailedCommit ==
    /\ Extend(past[Tip])
    /\ UNCHANGED <<snaps, open>>

DbSnapshot(n) ==
    /\ snaps' = [m \in DOMAIN snaps \cup {n} |-> IF m = n THEN Tip ELSE snaps[m]]
    /\ UNCHANGED <<past, open>>

\* Versions after v are discarded, and so are the snapshots that name them.
DbRestore(v) ==
    /\ \A s \in Sessions : open[s] = NoTxn
    /\ past' = [w \in {x \in DOMAIN past : x <= v} |-> past[w]]
    /\ snaps' = [n \in {m \in DOMAIN snaps : snaps[m] <= v} |-> snaps[n]]
    /\ UNCHANGED open

DbCheckpoint ==
    /\ \A s \in Sessions : open[s] = NoTxn
    /\ past' = [w \in {Tip} |-> past[w]]
    /\ snaps' = [n \in {m \in DOMAIN snaps : snaps[m] = Tip} |-> snaps[n]]
    /\ UNCHANGED open

\* Version numbers may change across a restart; the newest contents do not.
DbCrash ==
    /\ past'[Tip'] = past[Tip]
    /\ snaps' = [n \in {} |-> 0]
    /\ open' = [s \in Sessions |-> NoTxn]

DbNext ==
    \/ \E s \in Sessions : DbBegin(s) \/ DbCommit(s) \/ DbRollback(s)
    \/ \E s \in Sessions, t \in Tables :
         \/ \E rows \in SUBSET Row : DbInsert(s, t, rows)
         \/ \E keys \in SUBSET Keys : DbDelete(s, t, keys)
    \/ \E t \in Tables, keys \in SUBSET Keys, rows \in SUBSET Row : DbAutocommit(t, keys, rows)
    \/ DbFailedCommit
    \/ \E n \in Names : DbSnapshot(n)
    \/ \E v \in DOMAIN past : DbRestore(v)
    \/ DbCheckpoint
    \/ DbCrash

DbSpec == DbInit /\ [][DbNext]_dbvars
=============================================================================
