-------------------------- MODULE EngineRefinement --------------------------
(***************************************************************************)
(* The transactional core implements VersionedDb.  A commit takes effect   *)
(* at the fsync of its WAL record, a checkpoint when it folds its first    *)
(* table.                                                                  *)
(***************************************************************************)
EXTENDS Engine

\* Committed entries: between the fsync and the in-memory append the commit in flight counts.
Committed == IF pc = "apply" THEN delta \cup Stamp(commit_ts, job) ELSE delta

\* The timestamp allocated for a commit that is not durable yet is not a version.
TipTs == IF pc = "wal" THEN commit_ts - 1 ELSE commit_ts

Versions ==
    [v \in floor..TipTs |->
        [t \in Tables |-> MergeDelta(t, base[t], EntriesAt(Committed, v))]]

Restorable == [n \in {m \in DOMAIN snapshots : snapshots[m] >= floor} |-> snapshots[n]]

WritesOf(s) ==
    [dels |-> [t \in Tables |-> DeletedKeys(s, t)],
     adds |-> [t \in Tables |-> [r \in Row |->
        IF r.k \in DeletedKeys(s, t) THEN 0
        ELSE Cardinality({i \in DOMAIN txn[s].buffer :
                txn[s].buffer[i].table = t /\ r \in txn[s].buffer[i].rows})]]]

OpenTxns ==
    [s \in Sessions |->
        IF txn[s] = NoTxn \/ (pc = "apply" /\ owner = s) THEN NoTxn
        ELSE [at |-> txn[s].snapshot_ts, writes |-> WritesOf(s)]]

\* An open transaction of the abstract database; NoTxn is not one.
AbstractTxn == [at : Int, writes : [dels : [Tables -> SUBSET Keys], adds : [Tables -> Bag]]]
ASSUME NoAbstractTxn == NoTxn \notin AbstractTxn

Db == INSTANCE VersionedDb WITH past <- Versions, snaps <- Restorable, open <- OpenTxns

\* Refinement: sessions cannot tell the delta, tombstone and WAL machinery from a database
\* that keeps whole versions and commits, restores and recovers atomically.
ImplementsVersionedDb == Db!DbSpec
=============================================================================
