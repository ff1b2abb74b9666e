----------------------- MODULE EngineRefinementProofs -----------------------
(***************************************************************************)
(* The transactional core implements VersionedDb, for every value of the   *)
(* constants: every step of the engine is a step of the versioned database *)
(* or a stutter.                                                           *)
(***************************************************************************)
EXTENDS EngineRefinement, EngineWriteProofs

\* What the commit of an autocommit statement does: it deletes some keys of one table and
\* adds some rows to it, which share no primary key with another row.
FreshWrites(s, bs, t, keys, rows) ==
    /\ \A u \in Tables : Touched(bs, u) = (IF u = t THEN keys ELSE {})
    /\ \A u \in Tables, r \in Row : Cardinality(Written(bs, u, r)) = (IF u = t /\ r \in rows THEN 1 ELSE 0)
    /\ t \in PKTables => \A r \in rows : \A q \in Row \ {r} :
          q.k = r.k => Outcome(s, bs, t)[q] = 0 /\ Outcome(s, bs, t)[r] = 1
FreshStatement(s, bs) ==
    \E t \in Tables, keys \in SUBSET Keys, rows \in SUBSET Row : FreshWrites(s, bs, t, keys, rows)

\* The allocated timestamp is newer than the oldest version, no transaction reads an older
\* one, and an autocommit statement on its way to the log has passed its check.
TipInv == pc = "wal" => floor < commit_ts
OpenInv == \A s \in Sessions : txn[s] # NoTxn => floor <= txn[s].snapshot_ts
FreshInv == pc = "wal" /\ txn[owner] = NoTxn => FreshStatement(owner, job)

RefInv == WriteInv /\ TipInv /\ OpenInv /\ FreshInv

\* A statement that passed _enforce_unique commits fresh rows.
LEMMA StatementFresh ==
    ASSUME WriteInv, NEW s \in Sessions, txn[s] = NoTxn,
           NEW t \in Tables, NEW frame, \A i \in DOMAIN frame : frame[i] \in Row,
           NEW new, new = {frame[i] : i \in DOMAIN frame}, NEW ins, NEW tombs \in Seq(Batch),
           ins = <<InsertBatch(t, new)>> \/ (new = {} /\ ins = <<>>),
           \A i \in DOMAIN tombs : tombs[i].table = t /\ tombs[i].rows = {},
           DOMAIN frame # {} => EnforceUnique(t, frame, Checked(t, tombs)),
           NEW bs, bs = ins \o tombs
    PROVE  FreshStatement(s, bs)
<1> DEFINE keys == Touched(tombs, t)
           B == Checked(t, tombs)
<1>1. new \in SUBSET Row
  OBVIOUS
<1>2. AddsTo(s, bs, t, new, tombs)
  BY <1>1, OutcomeAt
<1>3. keys \in SUBSET Keys
  <2>1. \A i \in DOMAIN tombs : tombs[i] \in Batch
    OBVIOUS
  <2>2. \A i \in DOMAIN tombs : tombs[i].keys \in SUBSET Keys
    BY <2>1 DEF Batch
  <2> QED BY <2>2 DEF Touched
<1>4. WritesOnly(bs, t, new, tombs)
  BY <1>2 DEF AddsTo
<1>5. \A u \in Tables : Touched(bs, u) = (IF u = t THEN keys ELSE {})
  BY <1>4 DEF WritesOnly
<1>6. ASSUME NEW u \in Tables, NEW r \in Row
      PROVE  Cardinality(Written(bs, u, r)) = (IF u = t /\ r \in new THEN 1 ELSE 0)
  <2>1. CASE u = t /\ r \in new
    BY <1>4, <2>1 DEF WritesOnly
  <2>2. CASE ~(u = t /\ r \in new)
    <3>1. Written(bs, u, r) = {}
      BY <1>4, <2>2 DEF WritesOnly
    <3> QED BY <2>2, <3>1, FS_EmptySet
  <2> QED BY <2>1, <2>2
<1>7. /\ \A r \in Row : B[r] \in Nat
      /\ \A r \in Row : Outcome(s, bs, t)[r] = B[r] + (IF r \in new THEN 1 ELSE 0)
  BY <1>2 DEF AddsTo, Bag
<1> HIDE DEF B, keys
<1>8. ASSUME t \in PKTables, NEW r \in new, NEW q \in Row \ {r}, q.k = r.k
      PROVE  Outcome(s, bs, t)[q] = 0 /\ Outcome(s, bs, t)[r] = 1
  <2>1. PICK i \in DOMAIN frame : frame[i] = r
    BY <1>8
  <2>2. UniqueOn("k", frame, B)
    BY <1>8, <2>1 DEF EnforceUnique, B
  <2>3. r \in Row /\ r.k # Null
    BY <1>1, <1>8, KeysAssumption DEF Row
  <2>4. /\ \A j \in DOMAIN frame \ {i} : frame[j].k # r.k
        /\ \A x \in Row : B[x] > 0 => x.k # r.k
    BY <2>1, <2>2, <2>3 DEF UniqueOn, RowsOf
  <2>5. q \notin new
    BY <1>8, <2>1, <2>4
  <2>6. B[q] = 0 /\ B[r] = 0
    BY <1>7, <1>8, <2>3, <2>4
  <2>7. Outcome(s, bs, t)[q] = B[q] + 0 /\ Outcome(s, bs, t)[r] = B[r] + 1
    BY <1>7, <1>8, <2>3, <2>5
  <2> QED BY <2>6, <2>7
<1>9. t \in PKTables => \A r \in new : \A q \in Row \ {r} :
         q.k = r.k => Outcome(s, bs, t)[q] = 0 /\ Outcome(s, bs, t)[r] = 1
  BY <1>8
<1>10. \A u \in Tables, r \in Row : Cardinality(Written(bs, u, r)) = (IF u = t /\ r \in new THEN 1 ELSE 0)
  BY <1>6
<1>11. FreshWrites(s, bs, t, keys, new)
  BY <1>5, <1>9, <1>10 DEF FreshWrites
<1> QED BY <1>1, <1>3, <1>11 DEF FreshStatement

\* Autocommit INSERT and DELETE.
LEMMA SingleFresh ==
    ASSUME WriteInv, NEW s \in Sessions, txn[s] = NoTxn, NEW t \in Tables
    PROVE  /\ \A rows \in SUBSET Row : EnforceUnique(t, [r \in rows |-> r], Visible(s, t)) =>
                 FreshStatement(s, <<InsertBatch(t, rows)>>)
           /\ \A keys \in SUBSET Keys : FreshStatement(s, <<Tombstone(t, keys, FALSE)>>)
<1>1. ASSUME NEW rows \in SUBSET Row, EnforceUnique(t, [r \in rows |-> r], Visible(s, t))
      PROVE  FreshStatement(s, <<InsertBatch(t, rows)>>)
  <2> DEFINE frame == [r \in rows |-> r]
             ins == <<InsertBatch(t, rows)>>
             tombs == <<>>
  <2>1. Visible(s, t) = MergeDelta(t, base[t], delta) /\ MergeDelta(t, base[t], delta) \in Bag
    BY TipBag DEF Visible
  <2>2. Touched(tombs, t) = {}
    BY DEF Touched
  <2>3. Checked(t, tombs) = Visible(s, t)
    BY <2>1, <2>2 DEF Checked, Bag
  <2>4. EnforceUnique(t, frame, Checked(t, tombs))
    BY <1>1, <2>3
  <2>5. rows = {frame[i] : i \in DOMAIN frame} /\ \A i \in DOMAIN frame : frame[i] \in Row
    OBVIOUS
  <2>6. tombs \in Seq(Batch) /\ (\A i \in DOMAIN tombs : tombs[i].table = t /\ tombs[i].rows = {})
    OBVIOUS
  <2>7. ins \o tombs = ins
    <3>1. InsertBatch(t, rows) \in Batch
      BY BatchTypes
    <3> QED BY <3>1
  <2>8. ins = <<InsertBatch(t, rows)>>
    OBVIOUS
  <2> HIDE DEF frame, ins, tombs
  <2>9. FreshStatement(s, ins)
    BY <2>4, <2>5, <2>6, <2>7, <2>8, StatementFresh
  <2> QED BY <2>8, <2>9
<1>2. ASSUME NEW keys \in SUBSET Keys
      PROVE  FreshStatement(s, <<Tombstone(t, keys, FALSE)>>)
  <2> DEFINE b == Tombstone(t, keys, FALSE)
             frame == [r \in {} |-> r]
             tombs == <<b>>
  <2>1. b \in Batch /\ b.table = t /\ b.rows = {}
    BY BatchTypes DEF Tombstone
  <2> HIDE DEF b
  <2>2. tombs \in Seq(Batch) /\ (\A i \in DOMAIN tombs : tombs[i].table = t /\ tombs[i].rows = {})
    BY <2>1
  <2> HIDE DEF tombs
  <2>3. tombs = <<>> \o tombs
    BY <2>2, ConcatEmptySeq
  <2>4. {} = {frame[i] : i \in DOMAIN frame} /\ (\A i \in DOMAIN frame : frame[i] \in Row) /\ DOMAIN frame = {}
    OBVIOUS
  <2> HIDE DEF frame
  <2>5. FreshStatement(s, tombs)
    BY <2>2, <2>3, <2>4, StatementFresh
  <2> QED BY <2>5 DEF tombs, b
<1> QED BY <1>1, <1>2

\* UPDATE and MERGE.
LEMMA ImplicitFresh ==
    ASSUME WriteInv, NEW s \in Sessions, txn[s] = NoTxn, NEW t \in Tables,
           NEW tombs, NEW frame, ImplicitArgs(t, tombs, frame), ImplicitTxn(s, t, tombs, frame)
    PROVE  \E bs : AllocateTs(s, bs) /\ FreshStatement(s, bs)
<1> DEFINE new == {frame[i] : i \in DOMAIN frame}
           ins == IF new = {} THEN <<>> ELSE <<InsertBatch(t, new)>>
           seen == MergeDelta(t, base[t], EntriesAt(delta, commit_ts) \cup Stamp(InsInf, tombs))
           bs == ins \o tombs
<1>1. tombs \in Seq(Batch) /\ (\A i \in DOMAIN frame : frame[i] \in Row)
  BY DEF ImplicitArgs
<1>2. \A i \in DOMAIN tombs : /\ tombs[i] \in TombOnly("tombstone") \cup TombOnly("tombstone_update")
                              /\ tombs[i].table = t /\ tombs[i].rows = {}
  <2>1. tombs = <<>> \/ \E b \in TombOnly("tombstone") \cup TombOnly("tombstone_update") : b.table = t /\ tombs = <<b>>
    BY DEF ImplicitArgs
  <2> QED BY <2>1 DEF TombOnly
<1>3. (DOMAIN frame # {} => EnforceUnique(t, frame, seen)) /\ AllocateTs(s, bs)
  BY DEF ImplicitTxn
<1>4. seen = Checked(t, tombs)
  BY <1>1, <1>2, SeenChecked
<1>5. DOMAIN frame # {} => EnforceUnique(t, frame, Checked(t, tombs))
  BY <1>3, <1>4
<1>6. ins = <<InsertBatch(t, new)>> \/ (new = {} /\ ins = <<>>)
  OBVIOUS
<1>7. new = {frame[i] : i \in DOMAIN frame} /\ bs = ins \o tombs
  OBVIOUS
<1> HIDE DEF new, ins, seen, bs
<1>8. FreshStatement(s, bs)
  BY <1>1, <1>2, <1>5, <1>6, <1>7, StatementFresh
<1> QED BY <1>3, <1>8

----------------------------------------------------------------------------
LEMMA RefInit == Init => TipInv /\ OpenInv /\ FreshInv
BY DEF Init, TipInv, OpenInv, FreshInv

LEMMA TipOpenStep ==
    ASSUME "truncate_fails" \notin Allow, WriteInv, TipInv, OpenInv, [Next]_vars
    PROVE  TipInv' /\ OpenInv'
<1>0. /\ TypeOK /\ floor \in Int /\ commit_ts \in Int /\ floor <= commit_ts
      /\ (pc = "ckpt" => NoOpenTxn)
  BY DEF WriteInv, CoreInv, TypeOK, DurableInv, CounterInv, IsolationInv
<1>1. ASSUME floor' = floor, txn' = txn, pc' # "wal"
      PROVE  TipInv' /\ OpenInv'
  BY <1>1 DEF TipInv, OpenInv
<1>2. ASSUME NEW s \in Sessions, Statement(s)
      PROVE  TipInv' /\ OpenInv'
  <2>0. Idle
    BY <1>0, <1>2, StatementShape
  <2>1. CASE Begin(s)
    <3>1. txn' = [txn EXCEPT ![s] = BeginTxn(commit_ts)] /\ floor' = floor /\ pc' = "idle"
      BY <2>0, <2>1 DEF Begin, Idle
    <3>2. BeginTxn(commit_ts).snapshot_ts = commit_ts
      BY DEF BeginTxn
    <3>3. \A u \in Sessions : txn'[u] = (IF u = s THEN BeginTxn(commit_ts) ELSE txn[u])
      BY <1>0, <3>1 DEF TypeOK
    <3> QED BY <1>0, <3>1, <3>2, <3>3 DEF TipInv, OpenInv
  <2>2. CASE Rollback(s)
    <3>1. txn' = [txn EXCEPT ![s] = NoTxn] /\ floor' = floor /\ pc' = "idle"
      BY <2>0, <2>2 DEF Rollback, Idle
    <3>2. \A u \in Sessions : txn'[u] = (IF u = s THEN NoTxn ELSE txn[u])
      BY <1>0, <3>1 DEF TypeOK
    <3> QED BY <3>1, <3>2 DEF TipInv, OpenInv
  <2>3. ASSUME NEW n \in Names, RestoreSql(s, n)
        PROVE  TipInv' /\ OpenInv'
    BY <1>1, <2>0, <2>3 DEF RestoreSql, RestoreTo, TruncateFails, Idle
  <2>4. ASSUME NEW field \in {"insert", "tombstone"}, NEW b \in Batch, Buffer(s, field, b)
        PROVE  TipInv' /\ OpenInv'
    <3> DEFINE y == IF field = "insert" THEN BufferAppend(txn[s], b) ELSE TombstoneAppend(txn[s], b)
    <3>1. txn' = [txn EXCEPT ![s] = y] /\ floor' = floor /\ pc' = "idle" /\ txn[s] # NoTxn
      BY <2>0, <2>4 DEF Buffer, Idle
    <3>2. y.snapshot_ts = txn[s].snapshot_ts
      <4>1. txn[s] \in Txn
        BY <1>0, <3>1, TxnParts
      <4> QED BY <4>1 DEF BufferAppend, TombstoneAppend, Txn
    <3> HIDE DEF y
    <3>3. \A u \in Sessions : txn'[u] = (IF u = s THEN y ELSE txn[u])
      BY <1>0, <3>1 DEF TypeOK
    <3> QED BY <3>1, <3>2, <3>3 DEF TipInv, OpenInv
  <2>5. ASSUME NEW bs \in Seq(Batch), AllocateTs(s, bs)
        PROVE  TipInv' /\ OpenInv'
    <3>1. commit_ts' = commit_ts + 1 /\ floor' = floor /\ txn' = txn
      BY <2>5 DEF AllocateTs
    <3> QED BY <1>0, <3>1 DEF TipInv, OpenInv
  <2> QED BY <1>0, <1>2, <2>1, <2>2, <2>3, <2>4, <2>5, StatementShape
<1>3. CASE Admin
  <2>1. ASSUME NEW t \in Tables, CheckpointTable(t)
        PROVE  TipInv' /\ OpenInv'
    BY <1>0, <2>1 DEF CheckpointTable, TipInv, OpenInv, NoOpenTxn
  <2> QED BY <1>1, <1>3, <2>1 DEF Admin, Snapshot, AdminRestore, AdminRestoreTo, RestoreTo,
                                  CheckpointEnd, TruncateFails, CheckpointCancel, Idle
<1>4. CASE WalWrite \/ WalFail
  BY <1>1, <1>4 DEF WalWrite, WalFail
<1>5. CASE DeltaApply
  <2>1. txn' = [txn EXCEPT ![owner] = NoTxn] /\ floor' = floor /\ pc' = "idle"
    BY <1>5 DEF DeltaApply
  <2>2. \A u \in Sessions : txn'[u] = NoTxn \/ txn'[u] = txn[u]
    BY <1>0, <2>1 DEF TypeOK
  <2> QED BY <2>1, <2>2 DEF TipInv, OpenInv
<1>6. CASE Crash
  BY <1>6 DEF Crash, TipInv, OpenInv
<1>7. CASE UNCHANGED vars
  BY <1>7 DEF vars, TipInv, OpenInv
<1> QED BY <1>2, <1>3, <1>4, <1>5, <1>6, <1>7 DEF Next

LEMMA FreshStep ==
    ASSUME "truncate_fails" \notin Allow, WriteInv, FreshInv, [Next]_vars
    PROVE  FreshInv'
<1>1. ASSUME pc' # "wal"
      PROVE  FreshInv'
  BY <1>1 DEF FreshInv
<1>2. ASSUME NEW s, NEW bs, AllocateTs(s, bs), txn[s] = NoTxn => FreshStatement(s, bs)
      PROVE  FreshInv'
  <2>1. owner' = s /\ job' = bs /\ txn' = txn /\ base' = base /\ delta' = delta
    BY <1>2 DEF AllocateTs
  <2>2. \A t : Outcome(owner, job, t)' = Outcome(s, bs, t)
    BY <2>1 DEF Outcome
  <2>3. \A t, keys, rows : FreshWrites(s, bs, t, keys, rows) => FreshWrites(owner, job, t, keys, rows)'
    BY <2>1, <2>2 DEF FreshWrites
  <2> QED BY <1>2, <2>1, <2>3 DEF FreshInv, FreshStatement
<1>3. ASSUME NEW s \in Sessions, Statement(s)
      PROVE  FreshInv'
  <2>0. Idle
    BY <1>3, StatementKinds
  <2>1. CASE Begin(s) \/ Rollback(s) \/ \E n \in Names : RestoreSql(s, n)
    BY <1>1, <2>0, <2>1 DEF Begin, Rollback, RestoreSql, RestoreTo, TruncateFails, Idle
  <2>2. CASE Commit(s)
    BY <1>2, <2>2 DEF Commit
  <2>3. ASSUME NEW field, NEW b, Buffer(s, field, b)
        PROVE  FreshInv'
    BY <1>1, <2>0, <2>3 DEF Buffer, Idle
  <2>4. ASSUME NEW t \in Tables, NEW rows \in SUBSET Row,
               EnforceUnique(t, [r \in rows |-> r], Visible(s, t)), WriteOut(s, "insert", InsertBatch(t, rows))
        PROVE  FreshInv'
    <3>1. CASE txn[s] = NoTxn /\ AllocateTs(s, <<InsertBatch(t, rows)>>)
      BY <1>2, <2>4, <3>1, SingleFresh
    <3> QED BY <2>3, <2>4, <3>1 DEF WriteOut
  <2>5. ASSUME NEW t \in PKTables, NEW keys \in SUBSET Keys, WriteOut(s, "tombstone", Tombstone(t, keys, FALSE))
        PROVE  FreshInv'
    <3>1. CASE txn[s] = NoTxn /\ AllocateTs(s, <<Tombstone(t, keys, FALSE)>>)
      BY <1>2, <3>1, SingleFresh, TablesAssumption
    <3> QED BY <2>3, <2>5, <3>1 DEF WriteOut
  <2>6. ASSUME txn[s] = NoTxn, NEW t \in Tables, NEW tombs, NEW frame,
               ImplicitArgs(t, tombs, frame), ImplicitTxn(s, t, tombs, frame)
        PROVE  FreshInv'
    BY <1>2, <2>6, ImplicitFresh
  <2> QED BY <1>3, <2>1, <2>2, <2>4, <2>5, <2>6, StatementKinds
<1>4. CASE Admin
  BY <1>1, <1>4 DEF Admin, Snapshot, AdminRestore, AdminRestoreTo, RestoreTo, CheckpointTable,
                    CheckpointEnd, TruncateFails, CheckpointCancel, Idle
<1>5. CASE WalWrite \/ WalFail \/ DeltaApply \/ Crash
  BY <1>1, <1>5 DEF WalWrite, WalFail, DeltaApply, Crash
<1>6. CASE UNCHANGED vars
  <2>1. \A t : Outcome(owner, job, t)' = Outcome(owner, job, t)
    BY <1>6 DEF Outcome, vars
  <2>2. \A t, keys, rows : FreshWrites(owner, job, t, keys, rows) => FreshWrites(owner, job, t, keys, rows)'
    BY <1>6, <2>1 DEF FreshWrites, vars
  <2> QED BY <1>6, <2>2 DEF FreshInv, FreshStatement, vars
<1> QED BY <1>3, <1>4, <1>5, <1>6 DEF Next

----------------------------------------------------------------------------
(***************************************************************************)
(* The refinement mapping.                                                 *)
(***************************************************************************)
LEMMA LastOf ==
    ASSUME NEW a \in Int, NEW b \in Int, a <= b
    PROVE  (CHOOSE v \in a..b : \A w \in a..b : w <= v) = b
<1>1. b \in a..b /\ \A w \in a..b : w <= b
  OBVIOUS
<1>2. \A v \in a..b : (\A w \in a..b : w <= v) => v = b
  BY <1>1
<1> QED BY <1>1, <1>2

LEMMA TipVersion ==
    ASSUME RefInv
    PROVE  /\ TipTs \in Int /\ floor \in Int /\ floor <= TipTs
           /\ DOMAIN Versions = floor..TipTs
           /\ Db!Tip = TipTs
<1>1. floor \in Int /\ commit_ts \in Int /\ floor <= commit_ts /\ (pc = "wal" => floor < commit_ts)
  BY DEF RefInv, WriteInv, CoreInv, TypeOK, DurableInv, CounterInv, TipInv
<1>2. TipTs \in Int /\ floor <= TipTs
  BY <1>1 DEF TipTs
<1>3. DOMAIN Versions = floor..TipTs
  BY DEF Versions
<1>4. Db!Tip = TipTs
  BY <1>1, <1>2, <1>3, LastOf DEF Db!Tip
<1> QED BY <1>1, <1>2, <1>3, <1>4

\* What a transaction has written is a write set of the abstract database.
Adds(s, t, r) == IF r.k \in DeletedKeys(s, t) THEN 0 ELSE Cardinality(Buffered(s, t, r))

LEMMA WriteSet ==
    ASSUME RefInv, NEW s \in Sessions, txn[s] # NoTxn
    PROVE  /\ WritesOf(s).dels = [t \in Tables |-> DeletedKeys(s, t)]
           /\ WritesOf(s).adds = [t \in Tables |-> [r \in Row |-> Adds(s, t, r)]]
           /\ \A t \in Tables : DeletedKeys(s, t) \in SUBSET Keys
           /\ \A t \in Tables, r \in Row : Adds(s, t, r) \in Nat
           /\ [at |-> txn[s].snapshot_ts, writes |-> WritesOf(s)] \in AbstractTxn
<1>1. /\ WritesOf(s).dels = [t \in Tables |-> DeletedKeys(s, t)]
      /\ WritesOf(s).adds = [t \in Tables |-> [r \in Row |-> Adds(s, t, r)]]
      /\ WritesOf(s) = [dels |-> WritesOf(s).dels, adds |-> WritesOf(s).adds]
  BY DEF WritesOf, Adds, Buffered
<1>2. txn[s].tombstones \in Seq(Batch) /\ txn[s].snapshot_ts \in Int
  BY TxnParts DEF RefInv, WriteInv, CoreInv
<1>3. \A t \in Tables : DeletedKeys(s, t) \in SUBSET Keys
  <2>1. \A i \in DOMAIN txn[s].tombstones : txn[s].tombstones[i] \in Batch
    BY <1>2
  <2>2. \A i \in DOMAIN txn[s].tombstones : txn[s].tombstones[i].keys \in SUBSET Keys
    BY <2>1 DEF Batch
  <2> QED BY <2>2 DEF DeletedKeys
<1>4. \A t \in Tables, r \in Row : Adds(s, t, r) \in Nat
  BY VisibleBag DEF Adds, RefInv
<1>5. WritesOf(s).dels \in [Tables -> SUBSET Keys]
  BY <1>1, <1>3
<1>6. WritesOf(s).adds \in [Tables -> Bag]
  BY <1>1, <1>4 DEF Bag
<1> HIDE DEF WritesOf
<1>7. [at |-> txn[s].snapshot_ts, writes |-> WritesOf(s)] \in AbstractTxn
  BY <1>1, <1>2, <1>5, <1>6 DEF AbstractTxn
<1> QED BY <1>1, <1>3, <1>4, <1>7

\* An open transaction of the engine is one of the abstract database until its commit is durable.
LEMMA OpenAt ==
    ASSUME RefInv, NEW s \in Sessions
    PROVE  /\ (txn[s] = NoTxn \/ (pc = "apply" /\ owner = s)) => OpenTxns[s] = NoTxn
           /\ ~(txn[s] = NoTxn \/ (pc = "apply" /\ owner = s)) =>
                 /\ OpenTxns[s] # NoTxn
                 /\ OpenTxns[s] = [at |-> txn[s].snapshot_ts, writes |-> WritesOf(s)]
                 /\ OpenTxns[s].at = txn[s].snapshot_ts /\ OpenTxns[s].writes = WritesOf(s)
<1>1. CASE txn[s] = NoTxn \/ (pc = "apply" /\ owner = s)
  BY <1>1 DEF OpenTxns
<1>2. CASE ~(txn[s] = NoTxn \/ (pc = "apply" /\ owner = s))
  <2>1. OpenTxns[s] = [at |-> txn[s].snapshot_ts, writes |-> WritesOf(s)]
    BY <1>2 DEF OpenTxns
  <2>2. OpenTxns[s] \in AbstractTxn
    BY <1>2, <2>1, WriteSet
  <2> QED BY <1>2, <2>1, <2>2, NoAbstractTxn
<1> QED BY <1>1, <1>2

\* The versions an engine state stands for.
LEMMA VersionAt ==
    ASSUME NEW v \in floor..TipTs, NEW t \in Tables
    PROVE  Versions[v][t] = MergeDelta(t, base[t], EntriesAt(Committed, v))
BY DEF Versions

LEMMA SameVersions ==
    ASSUME floor' = floor, TipTs' = TipTs,
           \A t \in Tables, v \in floor..TipTs :
               MergeDelta(t, base'[t], EntriesAt(Committed', v)) = MergeDelta(t, base[t], EntriesAt(Committed, v))
    PROVE  Versions' = Versions
BY DEF Versions

LEMMA SameWrites ==
    ASSUME NEW s, txn'[s] = txn[s]
    PROVE  WritesOf(s)' = WritesOf(s)
<1>1. \A t : DeletedKeys(s, t)' = DeletedKeys(s, t)
  BY DEF DeletedKeys
<1>2. \A t, r : Buffered(s, t, r)' = Buffered(s, t, r)
  BY DEF Buffered
<1>3. \A t, r : Adds(s, t, r)' = Adds(s, t, r)
  BY <1>1, <1>2 DEF Adds
<1>4. /\ WritesOf(s)  = [dels |-> [t \in Tables |-> DeletedKeys(s, t)],
                         adds |-> [t \in Tables |-> [r \in Row |-> Adds(s, t, r)]]]
      /\ WritesOf(s)' = [dels |-> [t \in Tables |-> DeletedKeys(s, t)'],
                         adds |-> [t \in Tables |-> [r \in Row |-> Adds(s, t, r)']]]
  BY DEF WritesOf, Adds, Buffered
<1> QED BY <1>1, <1>3, <1>4

\* The transaction of s, as the abstract database sees it.
OpenOf(s) == IF txn[s] = NoTxn \/ (pc = "apply" /\ owner = s) THEN NoTxn
             ELSE [at |-> txn[s].snapshot_ts, writes |-> WritesOf(s)]

LEMMA OpenMap ==
    /\ OpenTxns = [s \in Sessions |-> OpenOf(s)]
    /\ OpenTxns' = [s \in Sessions |-> OpenOf(s)']
BY DEF OpenTxns, OpenOf

LEMMA SameOpenOf ==
    ASSUME NEW s, txn'[s] = txn[s], (pc = "apply" /\ owner = s) <=> (pc' = "apply" /\ owner' = s)
    PROVE  OpenOf(s)' = OpenOf(s)
BY SameWrites DEF OpenOf

LEMMA SameOpen ==
    ASSUME \A s \in Sessions : txn'[s] = txn[s], pc # "apply", pc' # "apply"
    PROVE  OpenTxns' = OpenTxns
BY OpenMap, SameOpenOf

LEMMA SameSnaps ==
    ASSUME snapshots' = snapshots, floor' = floor
    PROVE  Restorable' = Restorable
BY DEF Restorable

Stutter == Versions' = Versions /\ Restorable' = Restorable /\ OpenTxns' = OpenTxns

----------------------------------------------------------------------------
\* A timestamp is allocated: nothing the abstract database knows of.
LEMMA AllocateStutters ==
    ASSUME RefInv, Idle, NEW s, NEW bs, AllocateTs(s, bs)
    PROVE  Stutter
<1>1. commit_ts \in Int
  BY DEF RefInv, WriteInv, CoreInv, TypeOK
<1>2. /\ pc = "idle" /\ pc' = "wal" /\ commit_ts' = commit_ts + 1 /\ base' = base /\ delta' = delta
      /\ txn' = txn /\ floor' = floor /\ snapshots' = snapshots
  BY DEF AllocateTs, Idle
<1>3. TipTs' = TipTs /\ Committed' = Committed
  BY <1>1, <1>2 DEF TipTs, Committed
<1> QED BY <1>2, <1>3, SameVersions, SameOpen, SameSnaps DEF Stutter

\* The commit in flight reaches the delta: it was a version before.
LEMMA ApplyStutters ==
    ASSUME RefInv, DeltaApply
    PROVE  Stutter
<1>1. /\ pc = "apply" /\ pc' = "idle" /\ commit_ts' = commit_ts /\ base' = base /\ floor' = floor
      /\ delta' = delta \cup Stamp(commit_ts, job) /\ snapshots' = snapshots
      /\ txn' = [txn EXCEPT ![owner] = NoTxn] /\ owner \in Sessions /\ txn \in [Sessions -> Txn \cup {NoTxn}]
  BY DEF DeltaApply, RefInv, WriteInv, JobInv, CoreInv, TypeOK
<1>2. TipTs' = TipTs /\ Committed' = Committed
  BY <1>1 DEF TipTs, Committed
<1>3. OpenTxns' = OpenTxns
  <2>1. \A s \in Sessions : txn'[s] = (IF s = owner THEN NoTxn ELSE txn[s])
    BY <1>1
  <2>2. ASSUME NEW s \in Sessions PROVE OpenOf(s)' = OpenOf(s)
    <3>1. CASE s = owner
      BY <1>1, <2>1, <3>1 DEF OpenOf
    <3>2. CASE s # owner
      BY <1>1, <2>1, <3>2, SameOpenOf
    <3> QED BY <3>1, <3>2
  <2> QED BY <2>2, OpenMap
<1> QED BY <1>1, <1>2, <1>3, SameVersions, SameSnaps DEF Stutter

\* While a commit is not durable, everything in the delta is older than its timestamp.
LEMMA OlderThanCommit ==
    ASSUME RefInv, pc = "wal"
    PROVE  /\ commit_ts \in Int /\ 1 <= commit_ts
           /\ \A e \in delta : e.ts \in Nat /\ e.ts < commit_ts
<1>1. commit_ts \in Int /\ 1 <= commit_ts /\ Replayed = delta
  BY DEF RefInv, WriteInv, CoreInv, TypeOK, DurableInv, DurableDelta, CounterInv
<1>2. \A e \in delta : e.ts \in Nat
  BY DeltaTs DEF RefInv, WriteInv
<1>3. \A e \in delta : e.ts < commit_ts
  <2> TAKE e \in delta
  <2>1. PICK i \in DOMAIN wal : e \in Stamp(wal[i].ts, wal[i].batches)
    BY <1>1, ReplayedMember
  <2>2. e.ts = wal[i].ts
    BY <2>1 DEF Stamp
  <2> QED BY <2>2 DEF RefInv, WriteInv, CoreInv, WalOrdered
<1> QED BY <1>1, <1>2, <1>3

\* The version before the commit in flight is what the delta holds.
LEMMA TipContents ==
    ASSUME RefInv, pc = "wal", NEW t \in Tables
    PROVE  Versions[TipTs][t] = MergeDelta(t, base[t], delta)
<1>1. commit_ts \in Int /\ \A e \in delta : e.ts \in Nat /\ e.ts < commit_ts
  BY OlderThanCommit
<1>2. TipTs = commit_ts - 1 /\ Committed = delta
  BY DEF TipTs, Committed
<1>3. EntriesAt(Committed, TipTs) = delta
  BY <1>1, <1>2 DEF EntriesAt
<1>4. TipTs \in floor..TipTs
  BY TipVersion
<1> QED BY <1>3, <1>4, VersionAt

\* The end of a commit appends one version.
LEMMA AppendVersion ==
    ASSUME RefInv, pc = "wal", pc' # "wal", commit_ts' = commit_ts, floor' = floor, base' = base,
           \A e \in Committed' : e \in delta \/ e.ts = commit_ts, delta \subseteq Committed',
           NEW contents,
           contents = [t \in Tables |-> MergeDelta(t, base[t], Committed')]
    PROVE  Db!Extend(contents)
<1>1. commit_ts \in Int /\ \A e \in delta : e.ts \in Nat /\ e.ts < commit_ts
  BY OlderThanCommit
<1>2. TipTs = commit_ts - 1 /\ TipTs' = commit_ts /\ floor \in Int /\ floor <= TipTs /\ Committed = delta
  BY TipVersion DEF TipTs, Committed
<1>3. Db!Tip + 1 = commit_ts /\ DOMAIN Versions = floor..(commit_ts - 1)
  BY <1>1, <1>2, TipVersion
<1>4. floor..TipTs' = DOMAIN Versions \cup {Db!Tip + 1}
  BY <1>1, <1>2, <1>3
<1>5. ASSUME NEW v \in floor..TipTs'
      PROVE  [t \in Tables |-> MergeDelta(t, base'[t], EntriesAt(Committed', v))]
               = (IF v = Db!Tip + 1 THEN contents ELSE Versions[v])
  <2>1. CASE v = commit_ts
    <3>1. EntriesAt(Committed', v) = Committed'
      BY <1>1, <2>1 DEF EntriesAt
    <3> QED BY <1>3, <2>1, <3>1
  <2>2. CASE v # commit_ts
    <3>1. v \in floor..TipTs /\ v < commit_ts /\ v \in Int
      BY <1>1, <1>2, <2>2
    <3>2. EntriesAt(Committed', v) = EntriesAt(Committed, v)
      BY <1>1, <1>2, <3>1 DEF EntriesAt
    <3>3. Versions[v] = [t \in Tables |-> MergeDelta(t, base[t], EntriesAt(Committed, v))]
      BY <3>1 DEF Versions
    <3> QED BY <1>3, <2>2, <3>2, <3>3
  <2> QED BY <2>1, <2>2
<1>6. Versions' = [v \in floor..TipTs' |-> [t \in Tables |-> MergeDelta(t, base'[t], EntriesAt(Committed', v))]]
  BY DEF Versions
<1>7. Versions' = [v \in DOMAIN Versions \cup {Db!Tip + 1} |-> IF v = Db!Tip + 1 THEN contents ELSE Versions[v]]
  BY <1>4, <1>5, <1>6
<1> QED BY <1>7 DEF Db!Extend

\* The log refused the record: a version equal to the one before.
LEMMA FailAppends ==
    ASSUME RefInv, WalFail
    PROVE  Db!DbFailedCommit
<1>1. /\ pc = "wal" /\ pc' = "idle" /\ commit_ts' = commit_ts /\ floor' = floor /\ base' = base
      /\ delta' = delta /\ txn' = txn /\ snapshots' = snapshots
  BY DEF WalFail
<1>2. Committed' = delta
  BY <1>1 DEF Committed
<1>3. TipTs \in floor..TipTs /\ Db!Tip = TipTs
  BY TipVersion
<1>4. Versions[TipTs] = [t \in Tables |-> MergeDelta(t, base[t], EntriesAt(Committed, TipTs))]
  BY <1>3 DEF Versions
<1>5. Versions[TipTs] = [t \in Tables |-> MergeDelta(t, base[t], delta)]
  <2>1. \A t \in Tables : Versions[TipTs][t] = MergeDelta(t, base[t], delta)
    BY <1>1, TipContents
  <2> QED BY <1>4, <2>1
<1>6. Db!Extend(Versions[TipTs])
  BY <1>1, <1>2, <1>5, AppendVersion
<1>7. OpenTxns' = OpenTxns /\ Restorable' = Restorable
  BY <1>1, SameOpen, SameSnaps
<1> QED BY <1>3, <1>6, <1>7 DEF Db!DbFailedCommit

\* The record is durable: one version more, whose contents are the outcome of the commit.
LEMMA DurableContents ==
    ASSUME RefInv, WalWrite
    PROVE  /\ Db!Extend([t \in Tables |-> Outcome(owner, job, t)])
           /\ Versions'[Db!Tip + 1] = [t \in Tables |-> Outcome(owner, job, t)]
           /\ Restorable' = Restorable
<1> DEFINE contents == [t \in Tables |-> Outcome(owner, job, t)]
<1>1. /\ pc = "wal" /\ pc' = "apply" /\ commit_ts' = commit_ts /\ floor' = floor /\ base' = base
      /\ delta' = delta /\ job' = job /\ snapshots' = snapshots
  BY DEF WalWrite
<1>2. Committed' = delta \cup Stamp(commit_ts, job)
  BY <1>1 DEF Committed
<1>3. \A e \in Stamp(commit_ts, job) : e.ts = commit_ts
  BY DEF Stamp
<1>4. contents = [t \in Tables |-> MergeDelta(t, base[t], Committed')]
  <2>1. owner \in Sessions /\ JobOf(owner, job) /\ CoreInv /\ TxnInv
    BY <1>1 DEF RefInv, WriteInv, JobInv
  <2>2. 1 <= commit_ts /\ \A e \in delta : e.ts \in Nat /\ e.ts < commit_ts
    BY <1>1, OlderThanCommit
  <2>3. \A t \in Tables : MergeDelta(t, base[t], Committed') = Outcome(owner, job, t)
    BY <1>2, <2>1, <2>2, AppliedMerge
  <2> QED BY <2>3
<1> HIDE DEF contents
<1>5. Db!Extend(contents)
  BY <1>1, <1>2, <1>3, <1>4, AppendVersion
<1>6. Versions'[Db!Tip + 1] = contents
  BY <1>5 DEF Db!Extend
<1> QED BY <1>1, <1>5, <1>6, SameSnaps DEF contents

LEMMA CommitAppends ==
    ASSUME RefInv, WalWrite, NEW s \in Sessions, s = owner, txn[s] # NoTxn
    PROVE  Db!DbCommit(s)
<1> DEFINE old == Versions[Db!Tip]
           w == OpenTxns[s].writes
<1>1. pc = "wal" /\ pc' = "apply" /\ txn' = txn /\ owner' = owner /\ job = TxnBatches(txn[s])
  BY DEF WalWrite, RefInv, WriteInv, JobInv, JobOf
<1>2. OpenTxns[s] # NoTxn /\ w = WritesOf(s)
  BY <1>1, OpenAt
<1>3. w.dels = [t \in Tables |-> DeletedKeys(s, t)] /\ w.adds = [t \in Tables |-> [r \in Row |-> Adds(s, t, r)]]
  BY <1>2, WriteSet
<1>4. \A t \in Tables : old[t] = MergeDelta(t, base[t], delta)
  BY <1>1, TipContents, TipVersion
<1> HIDE DEF old, w
<1>5. ASSUME NEW t \in Tables
      PROVE  [r \in Row |-> (IF r.k \in w.dels[t] THEN 0 ELSE old[t][r]) + w.adds[t][r]] = Outcome(owner, job, t)
  <2>1. ASSUME NEW r \in Row
        PROVE  (IF r.k \in w.dels[t] THEN 0 ELSE old[t][r]) + w.adds[t][r] = Outcome(owner, job, t)[r]
    <3>1. Outcome(owner, job, t)[r] = (IF r.k \in DeletedKeys(s, t) THEN 0
                                       ELSE MergeDelta(t, base[t], delta)[r] + Cardinality(Buffered(s, t, r)))
      BY <1>1, TxnOutcome DEF RefInv
    <3>2. w.adds[t][r] = Adds(s, t, r) /\ w.dels[t] = DeletedKeys(s, t) /\ old[t] = MergeDelta(t, base[t], delta)
      BY <1>3, <1>4
    <3> QED BY <3>1, <3>2 DEF Adds
  <2>2. Outcome(owner, job, t) = [r \in Row |-> Outcome(owner, job, t)[r]]
    BY DEF Outcome
  <2> QED BY <2>1, <2>2
<1>6. Db!Apply(old, w) = [t \in Tables |-> Outcome(owner, job, t)]
  BY <1>5 DEF Db!Apply
<1>7. Db!Extend(Db!Apply(old, w)) /\ Restorable' = Restorable
  BY <1>6, DurableContents
<1>8. OpenTxns' = [OpenTxns EXCEPT ![s] = NoTxn]
  <2>1. OpenOf(s)' = NoTxn
    BY <1>1 DEF OpenOf
  <2>2. ASSUME NEW u \in Sessions, u # s PROVE OpenOf(u)' = OpenOf(u)
    BY <1>1, <2>2, SameOpenOf
  <2> QED BY <2>1, <2>2, OpenMap
<1> QED BY <1>2, <1>7, <1>8 DEF Db!DbCommit, old, w

\* Write sets, as records of functions.
LEMMA DeleteKeysIs ==
    ASSUME NEW D, NEW A, NEW t, NEW keys
    PROVE  Db!DeleteKeys([dels |-> D, adds |-> A], t, keys) =
             [dels |-> [D EXCEPT ![t] = D[t] \cup keys],
              adds |-> [A EXCEPT ![t] = [r \in Row |-> IF r.k \in keys THEN 0 ELSE A[t][r]]]]
BY DEF Db!DeleteKeys

LEMMA AddRowsIs ==
    ASSUME NEW D, NEW A, NEW t, NEW rows
    PROVE  Db!AddRows([dels |-> D, adds |-> A], t, rows) =
             [dels |-> D, adds |-> [A EXCEPT ![t] = [r \in Row |-> A[t][r] + (IF r \in rows THEN 1 ELSE 0)]]]
BY DEF Db!AddRows

\* The writes of one statement.
LEMMA StatementWrites ==
    ASSUME NEW t \in Tables, NEW keys, NEW rows, NEW w,
           w = Db!AddRows(Db!DeleteKeys(Db!NoWrites, t, keys), t, rows)
    PROVE  /\ w.dels = [u \in Tables |-> IF u = t THEN keys ELSE {}]
           /\ w.adds = [u \in Tables |-> [r \in Row |-> IF u = t /\ r \in rows THEN 1 ELSE 0]]
<1> DEFINE D0 == [u \in Tables |-> {}]
           A0 == [u \in Tables |-> [r \in Row |-> 0]]
           D1 == [D0 EXCEPT ![t] = D0[t] \cup keys]
           A1 == [A0 EXCEPT ![t] = [r \in Row |-> IF r.k \in keys THEN 0 ELSE A0[t][r]]]
           A2 == [A1 EXCEPT ![t] = [r \in Row |-> A1[t][r] + (IF r \in rows THEN 1 ELSE 0)]]
<1>1. Db!NoWrites = [dels |-> D0, adds |-> A0]
  BY DEF Db!NoWrites
<1>2. Db!DeleteKeys(Db!NoWrites, t, keys) = [dels |-> D1, adds |-> A1]
  <2> HIDE DEF D0, A0
  <2> QED BY <1>1, DeleteKeysIs
<1>3. w = [dels |-> D1, adds |-> A2]
  <2> HIDE DEF D1, A1
  <2> QED BY <1>2, AddRowsIs
<1>4. D1 = [u \in Tables |-> IF u = t THEN keys ELSE {}]
  OBVIOUS
<1>5. A1 = A0
  OBVIOUS
<1>6. \A r \in Row : A0[t][r] = 0
  OBVIOUS
<1>7. A2 = [u \in Tables |-> IF u = t THEN [r \in Row |-> A1[t][r] + (IF r \in rows THEN 1 ELSE 0)] ELSE A1[u]]
  <2> HIDE DEF A1
  <2>1. A1 = [u \in Tables |-> A1[u]]
    BY <1>5
  <2> QED BY <2>1
<1>8. \A u \in Tables : A2[u] = [r \in Row |-> IF u = t /\ r \in rows THEN 1 ELSE 0]
  <2>1. ASSUME NEW u \in Tables, u = t
        PROVE  A2[u] = [r \in Row |-> IF u = t /\ r \in rows THEN 1 ELSE 0]
    <3>1. A2[u] = [r \in Row |-> A1[t][r] + (IF r \in rows THEN 1 ELSE 0)]
      <4> HIDE DEF A1, A2
      <4> QED BY <1>7, <2>1
    <3>2. \A r \in Row : A1[t][r] + (IF r \in rows THEN 1 ELSE 0) = (IF u = t /\ r \in rows THEN 1 ELSE 0)
      <4> HIDE DEF A0, A1
      <4> QED BY <1>5, <1>6, <2>1
    <3> HIDE DEF A1, A2
    <3> QED BY <3>1, <3>2
  <2>2. ASSUME NEW u \in Tables, u # t
        PROVE  A2[u] = [r \in Row |-> IF u = t /\ r \in rows THEN 1 ELSE 0]
    <3>1. A2[u] = A0[u]
      <4> HIDE DEF A0, A1, A2
      <4> QED BY <1>5, <1>7, <2>2
    <3> HIDE DEF A1, A2
    <3> QED BY <2>2, <3>1
  <2> HIDE DEF A2
  <2> QED BY <2>1, <2>2
<1> HIDE DEF A1, A2, D1
<1>9. A2 = [u \in Tables |-> [r \in Row |-> IF u = t /\ r \in rows THEN 1 ELSE 0]]
  <2>1. A2 = [u \in Tables |-> A2[u]]
    BY <1>7
  <2> QED BY <1>8, <2>1
<1> QED BY <1>3, <1>4, <1>9

LEMMA StatementAppends ==
    ASSUME RefInv, WalWrite, txn[owner] = NoTxn
    PROVE  \E t \in Tables, keys \in SUBSET Keys, rows \in SUBSET Row : Db!DbAutocommit(t, keys, rows)
<1>1. pc = "wal" /\ pc' = "apply" /\ txn' = txn /\ owner' = owner /\ owner \in Sessions
  BY DEF WalWrite, RefInv, WriteInv, JobInv
<1>2. PICK t \in Tables, keys \in SUBSET Keys, rows \in SUBSET Row : FreshWrites(owner, job, t, keys, rows)
  BY <1>1 DEF RefInv, FreshInv, FreshStatement
<1> DEFINE w == Db!AddRows(Db!DeleteKeys(Db!NoWrites, t, keys), t, rows)
           old == Versions[Db!Tip]
           contents == [u \in Tables |-> Outcome(owner, job, u)]
<1>3. /\ w.dels = [u \in Tables |-> IF u = t THEN keys ELSE {}]
      /\ w.adds = [u \in Tables |-> [r \in Row |-> IF u = t /\ r \in rows THEN 1 ELSE 0]]
  BY StatementWrites
<1>4. \A u \in Tables : old[u] = MergeDelta(u, base[u], delta) /\ old[u] \in Bag
  BY <1>1, TipContents, TipVersion, TipBag DEF RefInv
<1> HIDE DEF w, old
<1>5. ASSUME NEW u \in Tables
      PROVE  [r \in Row |-> (IF r.k \in w.dels[u] THEN 0 ELSE old[u][r]) + w.adds[u][r]] = Outcome(owner, job, u)
  <2>1. ASSUME NEW r \in Row
        PROVE  (IF r.k \in w.dels[u] THEN 0 ELSE old[u][r]) + w.adds[u][r] = Outcome(owner, job, u)[r]
    <3>1. Outcome(owner, job, u)[r] = (IF r.k \notin Touched(job, u)
                                       THEN old[u][r] + Cardinality(Written(job, u, r))
                                       ELSE Cardinality(Written(job, u, r)))
      BY <1>4 DEF Outcome
    <3>2. Touched(job, u) = w.dels[u] /\ Cardinality(Written(job, u, r)) = w.adds[u][r] /\ w.adds[u][r] \in Nat
      BY <1>2, <1>3 DEF FreshWrites
    <3>3. old[u][r] \in Nat
      BY <1>4 DEF Bag
    <3> QED BY <3>1, <3>2, <3>3
  <2>2. Outcome(owner, job, u) = [r \in Row |-> Outcome(owner, job, u)[r]]
    BY DEF Outcome
  <2> QED BY <2>1, <2>2
<1>6. Db!Apply(old, w) = contents
  BY <1>5 DEF Db!Apply
<1>7. Db!Extend(Db!Apply(old, w)) /\ Restorable' = Restorable /\ Versions'[Db!Tip + 1] = contents
  BY <1>6, DurableContents
<1>8. Db!Fresh(Versions'[Db!Tip + 1], t, rows)
  <2>1. contents[t] = Outcome(owner, job, t)
    OBVIOUS
  <2> HIDE DEF contents
  <2> QED BY <1>2, <1>7, <2>1 DEF FreshWrites, Db!Fresh
<1>9. OpenTxns' = OpenTxns
  <2>1. ASSUME NEW u \in Sessions PROVE OpenOf(u)' = OpenOf(u)
    <3>1. CASE u = owner
      BY <1>1, <3>1 DEF OpenOf
    <3>2. CASE u # owner
      BY <1>1, <3>2, SameOpenOf
    <3> QED BY <3>1, <3>2
  <2> QED BY <2>1, OpenMap
<1>10. Db!DbAutocommit(t, keys, rows)
  BY <1>7, <1>8, <1>9 DEF Db!DbAutocommit, old, w
<1> QED BY <1>10

----------------------------------------------------------------------------
\* A step of one open transaction: nothing else the abstract database knows of changes.
LEMMA TxnStepFrame ==
    ASSUME RefInv, Idle, NEW s \in Sessions, NEW y, txn' = [txn EXCEPT ![s] = y],
           UNCHANGED <<base, delta, commit_ts, snapshots, pc, owner, floor>>
    PROVE  /\ Versions' = Versions /\ Restorable' = Restorable
           /\ txn'[s] = y
           /\ OpenTxns' = [OpenTxns EXCEPT ![s] = OpenOf(s)']
           /\ y = NoTxn => OpenOf(s)' = NoTxn
           /\ y # NoTxn => OpenOf(s)' = [at |-> y.snapshot_ts, writes |-> WritesOf(s)']
           /\ Db!Tip = commit_ts
<1>1. txn \in [Sessions -> Txn \cup {NoTxn}] /\ pc = "idle" /\ pc' = "idle"
  BY DEF RefInv, WriteInv, CoreInv, TypeOK, Idle
<1>2. TipTs' = TipTs /\ Committed' = Committed /\ TipTs = commit_ts
  BY <1>1 DEF TipTs, Committed
<1>3. Versions' = Versions /\ Restorable' = Restorable
  BY <1>2, SameVersions, SameSnaps
<1>4. txn'[s] = y /\ \A u \in Sessions : u # s => txn'[u] = txn[u]
  BY <1>1
<1>5. ASSUME NEW u \in Sessions, u # s PROVE OpenOf(u)' = OpenOf(u)
  BY <1>1, <1>4, <1>5, SameOpenOf
<1>6. OpenTxns' = [OpenTxns EXCEPT ![s] = OpenOf(s)']
  BY <1>5, OpenMap
<1>7. /\ y = NoTxn => OpenOf(s)' = NoTxn
      /\ y # NoTxn => OpenOf(s)' = [at |-> y.snapshot_ts, writes |-> WritesOf(s)']
  BY <1>1, <1>4 DEF OpenOf
<1> QED BY <1>2, <1>3, <1>4, <1>6, <1>7, TipVersion

LEMMA BeginOpens ==
    ASSUME RefInv, NEW s \in Sessions, Begin(s)
    PROVE  Db!DbBegin(s)
<1> DEFINE y == BeginTxn(commit_ts)
<1>1. /\ Idle /\ txn[s] = NoTxn /\ txn' = [txn EXCEPT ![s] = y]
      /\ UNCHANGED <<base, delta, commit_ts, snapshots, pc, owner, floor>>
  BY DEF Begin
<1>2. y # NoTxn /\ y.snapshot_ts = commit_ts /\ y.buffer = <<>> /\ y.tombstones = <<>>
  <2>1. y \in Txn
    BY DEF BeginTxn, Txn, RefInv, WriteInv, CoreInv, TypeOK
  <2> QED BY <2>1, NoTxnAssumption DEF BeginTxn
<1> HIDE DEF y
<1>3. /\ Versions' = Versions /\ Restorable' = Restorable /\ txn'[s] = y
      /\ OpenTxns' = [OpenTxns EXCEPT ![s] = OpenOf(s)']
      /\ OpenOf(s)' = [at |-> y.snapshot_ts, writes |-> WritesOf(s)']
      /\ Db!Tip = commit_ts
  BY <1>1, <1>2, TxnStepFrame
<1>4. OpenTxns[s] = NoTxn
  BY <1>1, OpenAt
<1>5. WritesOf(s)' = Db!NoWrites
  <2>1. \A t \in Tables : DeletedKeys(s, t)' = {}
    BY <1>2, <1>3 DEF DeletedKeys
  <2>2. \A t \in Tables, r \in Row : Buffered(s, t, r)' = {}
    BY <1>2, <1>3 DEF Buffered
  <2>3. \A t \in Tables, r \in Row : Adds(s, t, r)' = 0
    BY <2>2, FS_EmptySet DEF Adds
  <2>4. WritesOf(s)' = [dels |-> [t \in Tables |-> DeletedKeys(s, t)'],
                        adds |-> [t \in Tables |-> [r \in Row |-> Adds(s, t, r)']]]
    BY DEF WritesOf, Adds, Buffered
  <2> QED BY <2>1, <2>3, <2>4 DEF Db!NoWrites
<1> QED BY <1>2, <1>3, <1>4, <1>5 DEF Db!DbBegin

LEMMA RollbackCloses ==
    ASSUME RefInv, NEW s \in Sessions, Rollback(s)
    PROVE  Db!DbRollback(s)
<1>1. /\ Idle /\ txn[s] # NoTxn /\ txn' = [txn EXCEPT ![s] = NoTxn]
      /\ UNCHANGED <<base, delta, commit_ts, snapshots, pc, owner, floor>>
  BY DEF Rollback
<1>2. /\ Versions' = Versions /\ Restorable' = Restorable
      /\ OpenTxns' = [OpenTxns EXCEPT ![s] = OpenOf(s)'] /\ OpenOf(s)' = NoTxn
  BY <1>1, TxnStepFrame
<1>3. OpenTxns[s] # NoTxn
  BY <1>1, OpenAt DEF Idle
<1> QED BY <1>2, <1>3 DEF Db!DbRollback

\* The contents an open transaction of the abstract database sees are what the engine shows it.
LEMMA ViewIsVisible ==
    ASSUME RefInv, OwnWrites, Idle, NEW s \in Sessions, txn[s] # NoTxn, NEW t \in Tables, NEW r \in Row
    PROVE  /\ Visible(s, t)[r] =
                (IF r.k \in DeletedKeys(s, t) THEN 0 ELSE Versions[txn[s].snapshot_ts][t][r]) + Adds(s, t, r)
           /\ Visible(s, t)[r] \in Nat
<1> DEFINE at == txn[s].snapshot_ts
<1>1. pc = "idle" /\ commit_ts \in Int /\ at \in Int /\ floor \in Int /\ at <= commit_ts /\ floor <= at
  BY TxnParts DEF RefInv, WriteInv, CoreInv, TypeOK, IsolationInv, OpenInv, Idle
<1>2. at \in floor..TipTs /\ Committed = delta
  BY <1>1 DEF TipTs, Committed
<1>3. Versions[at][t] = CommittedAt(t, at)
  BY <1>2, VersionAt DEF CommittedAt
<1>4. Visible(s, t)[r] = (IF r.k \in DeletedKeys(s, t) THEN 0
                          ELSE CommittedAt(t, at)[r] + Cardinality(Buffered(s, t, r)))
  BY OwnWritesAt
<1>5. CommittedAt(t, at)[r] \in Nat /\ Cardinality(Buffered(s, t, r)) \in Nat
  BY VisibleBag DEF RefInv
<1> HIDE DEF at
<1>6. /\ Visible(s, t)[r] = (IF r.k \in DeletedKeys(s, t) THEN 0 ELSE Versions[at][t][r]) + Adds(s, t, r)
      /\ Visible(s, t)[r] \in Nat
  BY <1>3, <1>4, <1>5 DEF Adds
<1> QED BY <1>6 DEF at

LEMMA InsertWrites ==
    ASSUME RefInv, OwnWrites, Idle, NEW s \in Sessions, NEW t \in Tables, NEW rows \in SUBSET Row,
           \A r \in rows : r.k \notin DeletedKeys(s, t),
           EnforceUnique(t, [r \in rows |-> r], Visible(s, t)),
           Buffer(s, "insert", InsertBatch(t, rows))
    PROVE  Db!DbInsert(s, t, rows)
<1> DEFINE b == InsertBatch(t, rows)
           y == BufferAppend(txn[s], b)
           at == txn[s].snapshot_ts
           w == WritesOf(s)
           v == WritesOf(s)'
<1>1. /\ txn' = [txn EXCEPT ![s] = y]
      /\ UNCHANGED <<base, delta, commit_ts, snapshots, pc, owner, floor>>
  BY DEF Buffer
<1>2. txn[s] # NoTxn /\ txn'[s] # NoTxn /\ txn'[s].snapshot_ts = at
  BY BufferFrame, BatchTypes DEF RefInv
<1> HIDE DEF y
<1>3. /\ Versions' = Versions /\ Restorable' = Restorable /\ txn'[s] = y
      /\ OpenTxns' = [OpenTxns EXCEPT ![s] = OpenOf(s)']
      /\ (y # NoTxn => OpenOf(s)' = [at |-> y.snapshot_ts, writes |-> WritesOf(s)'])
  BY <1>1, TxnStepFrame
<1>4. OpenOf(s)' = [at |-> at, writes |-> v]
  BY <1>2, <1>3
<1>5. OpenTxns[s] # NoTxn /\ OpenTxns[s] = [at |-> at, writes |-> w]
  BY <1>2, OpenAt DEF Idle
<1>6. \A u \in Tables : InsertBuffered(s, t, rows, u)
  BY InsertBuffers DEF RefInv
<1>7. \A u \in Tables, r \in Row : Adds(s, u, r) \in Nat
  BY <1>2, WriteSet
<1>8. ASSUME NEW u \in Tables, NEW r \in Row
      PROVE  Adds(s, u, r)' = (IF u = t THEN Adds(s, u, r) + (IF r \in rows THEN 1 ELSE 0) ELSE Adds(s, u, r))
  <2>1. DeletedKeys(s, u)' = DeletedKeys(s, u)
        /\ Cardinality(Buffered(s, u, r)') = Cardinality(Buffered(s, u, r)) + (IF u = t /\ r \in rows THEN 1 ELSE 0)
    BY <1>6 DEF InsertBuffered
  <2>2. Cardinality(Buffered(s, u, r)) \in Nat
    BY <1>2, VisibleBag DEF RefInv
  <2> QED BY <2>1, <2>2 DEF Adds
<1>9. v = Db!AddRows(w, t, rows)
  <2> DEFINE D == [u \in Tables |-> DeletedKeys(s, u)]
             A == [u \in Tables |-> [r \in Row |-> Adds(s, u, r)]]
             A2 == [u \in Tables |-> [r \in Row |-> Adds(s, u, r)']]
  <2>1. w = [dels |-> D, adds |-> A]
    BY DEF WritesOf, Adds, Buffered
  <2>2. v = [dels |-> [u \in Tables |-> DeletedKeys(s, u)'], adds |-> A2]
    BY DEF WritesOf, Adds, Buffered
  <2>3. [u \in Tables |-> DeletedKeys(s, u)'] = D
    BY <1>6 DEF InsertBuffered
  <2>4. A2 = [A EXCEPT ![t] = [r \in Row |-> A[t][r] + (IF r \in rows THEN 1 ELSE 0)]]
    <3>1. \A r \in Row : A[t][r] = Adds(s, t, r)
      OBVIOUS
    <3>2. A2[t] = [r \in Row |-> A[t][r] + (IF r \in rows THEN 1 ELSE 0)]
      BY <1>8
    <3>3. \A u \in Tables : u # t => A2[u] = A[u]
      BY <1>8
    <3>4. A2 = [u \in Tables |-> A2[u]] /\ A = [u \in Tables |-> A[u]]
      OBVIOUS
    <3> HIDE DEF A, A2
    <3> QED BY <3>2, <3>3, <3>4
  <2> HIDE DEF D, A, A2
  <2> QED BY <2>1, <2>2, <2>3, <2>4, AddRowsIs
<1>10. v.dels = [u \in Tables |-> DeletedKeys(s, u)] /\ v.adds = [u \in Tables |-> [r \in Row |-> Adds(s, u, r)']]
  <2>1. v = [dels |-> [u \in Tables |-> DeletedKeys(s, u)'], adds |-> [u \in Tables |-> [r \in Row |-> Adds(s, u, r)']]]
    BY DEF WritesOf, Adds, Buffered
  <2> QED BY <1>6, <2>1 DEF InsertBuffered
<1> HIDE DEF v, w, at
<1>11. ASSUME NEW r \in Row
       PROVE  Db!Apply(Versions[at], v)[t][r] = Visible(s, t)[r] + (IF r \in rows THEN 1 ELSE 0)
  <2>1. Db!Apply(Versions[at], v)[t][r] = (IF r.k \in DeletedKeys(s, t) THEN 0 ELSE Versions[at][t][r]) + Adds(s, t, r)'
    BY <1>10 DEF Db!Apply
  <2>2. /\ Visible(s, t)[r] = (IF r.k \in DeletedKeys(s, t) THEN 0 ELSE Versions[at][t][r]) + Adds(s, t, r)
        /\ Visible(s, t)[r] \in Nat
    BY <1>2, ViewIsVisible DEF at
  <2>3. Adds(s, t, r)' = Adds(s, t, r) + (IF r \in rows THEN 1 ELSE 0) /\ Adds(s, t, r) \in Nat
    BY <1>7, <1>8
  <2>4. r.k \notin DeletedKeys(s, t) => Versions[at][t][r] \in Nat
    <3>1. at \in floor..TipTs /\ Committed = delta
      <4>1. pc = "idle" /\ commit_ts \in Int /\ at \in Int /\ floor \in Int /\ at <= commit_ts /\ floor <= at
        BY <1>2, TxnParts DEF RefInv, WriteInv, CoreInv, TypeOK, IsolationInv, OpenInv, Idle, at
      <4> QED BY <4>1 DEF TipTs, Committed
    <3>2. Versions[at][t] = CommittedAt(t, at)
      BY <3>1, VersionAt DEF CommittedAt
    <3> QED BY <1>2, <3>2, VisibleBag DEF RefInv, at
  <2> QED BY <2>1, <2>2, <2>3, <2>4
<1>12. Db!Fresh(Db!Apply(Versions[at], v), t, rows)
  <2> DEFINE c == Db!Apply(Versions[at], v)
  <2>1. \A r \in Row : c[t][r] = Visible(s, t)[r] + (IF r \in rows THEN 1 ELSE 0)
    BY <1>11
  <2> HIDE DEF c
  <2>2. \A r \in Row : Visible(s, t)[r] \in Nat
    BY <1>2, ViewIsVisible
  <2>3. ASSUME t \in PKTables, NEW r \in rows, NEW q \in Row \ {r}, q.k = r.k
        PROVE  c[t][q] = 0 /\ c[t][r] = 1
    <3> DEFINE f == [x \in rows |-> x]
    <3>1. UniqueOn("k", f, Visible(s, t)) /\ DOMAIN f = rows /\ \A x \in rows : f[x] = x
      BY <2>3 DEF EnforceUnique
    <3>2. r \in Row /\ r.k # Null
      BY KeysAssumption DEF Row
    <3> HIDE DEF f
    <3>3. (\A j \in rows \ {r} : j.k # r.k) /\ \A x \in Row : Visible(s, t)[x] > 0 => x.k # r.k
      BY <2>3, <3>1, <3>2 DEF UniqueOn, RowsOf
    <3>4. q \notin rows /\ Visible(s, t)[q] = 0 /\ Visible(s, t)[r] = 0
      BY <2>2, <2>3, <3>2, <3>3
    <3>5. c[t][q] = Visible(s, t)[q] + 0 /\ c[t][r] = Visible(s, t)[r] + 1
      BY <2>1, <2>3, <3>2, <3>4
    <3> QED BY <3>4, <3>5
  <2>4. Db!Fresh(c, t, rows)
    BY <2>3 DEF Db!Fresh
  <2> QED BY <2>4 DEF c
<1>13. OpenTxns' = [OpenTxns EXCEPT ![s] = [at |-> OpenTxns[s].at, writes |-> Db!AddRows(OpenTxns[s].writes, t, rows)]]
  <2>1. OpenTxns[s].at = at /\ OpenTxns[s].writes = w
    BY <1>5
  <2> QED BY <1>3, <1>4, <1>9, <2>1
<1>14. OpenTxns'[s].writes = v /\ OpenTxns[s].at = at
  BY <1>3, <1>4, <1>5, OpenMap
<1> QED BY <1>3, <1>5, <1>12, <1>13, <1>14 DEF Db!DbInsert

LEMMA DeleteWrites ==
    ASSUME RefInv, Idle, NEW s \in Sessions, NEW b \in Batch, Buffer(s, "tombstone", b)
    PROVE  Db!DbDelete(s, b.table, b.keys)
<1> DEFINE y == TombstoneAppend(txn[s], b)
           at == txn[s].snapshot_ts
           w == WritesOf(s)
           v == WritesOf(s)'
           t == b.table
           keys == b.keys
<1>1. /\ txn' = [txn EXCEPT ![s] = y]
      /\ UNCHANGED <<base, delta, commit_ts, snapshots, pc, owner, floor>>
  BY DEF Buffer
<1>2. txn[s] # NoTxn /\ txn'[s] # NoTxn /\ txn'[s].snapshot_ts = at /\ t \in Tables
  BY BufferFrame DEF RefInv, Batch
<1> HIDE DEF y
<1>3. /\ Versions' = Versions /\ Restorable' = Restorable /\ txn'[s] = y
      /\ OpenTxns' = [OpenTxns EXCEPT ![s] = OpenOf(s)']
      /\ (y # NoTxn => OpenOf(s)' = [at |-> y.snapshot_ts, writes |-> WritesOf(s)'])
  BY <1>1, TxnStepFrame
<1>4. OpenOf(s)' = [at |-> at, writes |-> v]
  BY <1>2, <1>3
<1>5. OpenTxns[s] # NoTxn /\ OpenTxns[s] = [at |-> at, writes |-> w]
  BY <1>2, OpenAt DEF Idle
<1>6. \A u \in Tables : DeleteBuffered(s, t, keys, u)
  BY DeleteBuffers DEF RefInv
<1> HIDE DEF t, keys
<1>7. ASSUME NEW u \in Tables, NEW r \in Row
      PROVE  Adds(s, u, r)' = (IF u = t /\ r.k \in keys THEN 0 ELSE Adds(s, u, r))
  <2>1. DeletedKeys(s, u)' = DeletedKeys(s, u) \cup (IF u = t THEN keys ELSE {})
        /\ Buffered(s, u, r)' = Buffered(s, u, r)
    BY <1>6 DEF DeleteBuffered
  <2> QED BY <2>1 DEF Adds
<1>8. v = Db!DeleteKeys(w, t, keys)
  <2> DEFINE D == [u \in Tables |-> DeletedKeys(s, u)]
             A == [u \in Tables |-> [r \in Row |-> Adds(s, u, r)]]
             D2 == [u \in Tables |-> DeletedKeys(s, u)']
             A2 == [u \in Tables |-> [r \in Row |-> Adds(s, u, r)']]
  <2>1. w = [dels |-> D, adds |-> A]
    BY DEF WritesOf, Adds, Buffered
  <2>2. v = [dels |-> D2, adds |-> A2]
    BY DEF WritesOf, Adds, Buffered
  <2>3. D2 = [D EXCEPT ![t] = D[t] \cup keys]
    <3>1. D2[t] = D[t] \cup keys /\ \A u \in Tables : u # t => D2[u] = D[u]
      BY <1>2, <1>6 DEF DeleteBuffered
    <3>2. D2 = [u \in Tables |-> D2[u]] /\ D = [u \in Tables |-> D[u]]
      OBVIOUS
    <3> HIDE DEF D, D2
    <3> QED BY <1>2, <3>1, <3>2
  <2>4. A2 = [A EXCEPT ![t] = [r \in Row |-> IF r.k \in keys THEN 0 ELSE A[t][r]]]
    <3>2. A2[t] = [r \in Row |-> IF r.k \in keys THEN 0 ELSE A[t][r]]
      BY <1>2, <1>7
    <3>3. \A u \in Tables : u # t => A2[u] = A[u]
      BY <1>7
    <3>4. A2 = [u \in Tables |-> A2[u]] /\ A = [u \in Tables |-> A[u]]
      OBVIOUS
    <3> HIDE DEF A, A2
    <3> QED BY <1>2, <3>2, <3>3, <3>4
  <2> HIDE DEF D, A, D2, A2
  <2> QED BY <2>1, <2>2, <2>3, <2>4, DeleteKeysIs
<1> HIDE DEF v, w, at
<1>9. OpenTxns' = [OpenTxns EXCEPT ![s] = [at |-> OpenTxns[s].at, writes |-> Db!DeleteKeys(OpenTxns[s].writes, t, keys)]]
  <2>1. OpenTxns[s].at = at /\ OpenTxns[s].writes = w
    BY <1>5
  <2> QED BY <1>3, <1>4, <1>8, <2>1
<1> QED BY <1>3, <1>5, <1>9 DEF Db!DbDelete, t, keys

----------------------------------------------------------------------------
\* With the write lock free, the newest version is everything committed.
LEMMA IdleTip ==
    ASSUME RefInv, pc \in {"idle", "ckpt"}
    PROVE  /\ commit_ts \in Int /\ floor \in Int /\ floor <= commit_ts
           /\ TipTs = commit_ts /\ Db!Tip = commit_ts /\ Committed = delta
           /\ EntriesAt(delta, commit_ts) = delta
           /\ DOMAIN Versions = floor..commit_ts
           /\ \A n \in DOMAIN snapshots : snapshots[n] \in Int /\ snapshots[n] <= commit_ts
           /\ \A n \in DOMAIN snapshots : pc = "idle" => floor <= snapshots[n]
<1>1. TipTs = commit_ts /\ Committed = delta
  BY DEF TipTs, Committed
<1>2. EntriesAt(delta, commit_ts) = delta
  BY DeltaTs DEF RefInv, WriteInv, EntriesAt
<1>3. commit_ts \in Int /\ floor \in Int /\ snapshots \in [DOMAIN snapshots -> Int]
  BY DEF RefInv, WriteInv, CoreInv, TypeOK
<1>4. \A n \in DOMAIN snapshots : snapshots[n] <= commit_ts /\ (pc = "idle" => floor <= snapshots[n])
  BY DEF RefInv, WriteInv, DurableInv, SnapInv
<1> QED BY <1>1, <1>2, <1>3, <1>4, TipVersion

LEMMA SnapshotNames ==
    ASSUME RefInv, NEW n, Snapshot(n)
    PROVE  Db!DbSnapshot(n)
<1>1. /\ pc = "idle" /\ pc' = "idle" /\ base' = base /\ delta' = delta /\ commit_ts' = commit_ts
      /\ txn' = txn /\ floor' = floor
      /\ snapshots' = [m \in DOMAIN snapshots \cup {n} |-> IF m = n THEN commit_ts ELSE snapshots[m]]
  BY DEF Snapshot, Idle
<1>2. /\ Db!Tip = commit_ts /\ commit_ts \in Int /\ floor \in Int /\ floor <= commit_ts
  BY <1>1, IdleTip
<1>3. Versions' = Versions /\ OpenTxns' = OpenTxns
  <2>1. TipTs' = TipTs /\ Committed' = Committed
    BY <1>1 DEF TipTs, Committed
  <2> QED BY <1>1, <2>1, SameVersions, SameOpen
<1> DEFINE D == {m \in DOMAIN snapshots : snapshots[m] >= floor}
           E == {m \in DOMAIN snapshots' : snapshots'[m] >= floor}
<1>4. Restorable = [m \in D |-> snapshots[m]] /\ Restorable' = [m \in E |-> snapshots'[m]]
  BY <1>1 DEF Restorable
<1>5. DOMAIN snapshots' = DOMAIN snapshots \cup {n}
      /\ snapshots'[n] = commit_ts /\ \A m \in DOMAIN snapshots : m # n => snapshots'[m] = snapshots[m]
  BY <1>1
<1>6. E = D \cup {n}
  BY <1>2, <1>5
<1> HIDE DEF D, E
<1>7. DOMAIN Restorable = D
  BY <1>4
<1>8. \A m \in D \cup {n} : snapshots'[m] = (IF m = n THEN commit_ts ELSE Restorable[m])
  <2>1. \A m \in D : m \in DOMAIN snapshots
    BY DEF D
  <2> QED BY <1>4, <1>5, <2>1
<1>9. Restorable' = [m \in D \cup {n} |-> IF m = n THEN commit_ts ELSE Restorable[m]]
  BY <1>4, <1>6, <1>8
<1> QED BY <1>2, <1>3, <1>7, <1>9 DEF Db!DbSnapshot

LEMMA RestoreCuts ==
    ASSUME "truncate_fails" \notin Allow,
           RefInv, Idle, NoOpenTxn, NEW m \in Int, floor <= m, RestoreTo(m)
    PROVE  m \in DOMAIN Versions /\ Db!DbRestore(m)
<1>1. /\ pc = "idle" /\ pc' = "idle" /\ base' = base /\ delta' = {e \in delta : e.ts <= m}
      /\ commit_ts' = m /\ txn' = txn /\ floor' = floor /\ m <= commit_ts
      /\ snapshots' = [n \in {k \in DOMAIN snapshots : snapshots[k] <= m} |-> snapshots[n]]
  BY DEF RestoreTo, TruncateFails, Rewind, Idle
<1>2. /\ commit_ts \in Int /\ floor \in Int /\ Committed = delta
      /\ DOMAIN Versions = floor..commit_ts
      /\ \A n \in DOMAIN snapshots : snapshots[n] \in Int /\ floor <= snapshots[n]
  BY <1>1, IdleTip
<1>3. \A s \in Sessions : OpenTxns[s] = NoTxn
  BY OpenAt DEF NoOpenTxn
<1>4. OpenTxns' = OpenTxns
  BY <1>1, SameOpen
<1>5. {x \in DOMAIN Versions : x <= m} = floor..m
  BY <1>1, <1>2
<1>6. Versions' = [v \in floor..m |-> Versions[v]]
  <2>1. TipTs' = m /\ Committed' = delta'
    BY <1>1 DEF TipTs, Committed
  <2>2. Versions' = [v \in floor..m |-> [t \in Tables |-> MergeDelta(t, base[t], EntriesAt(delta', v))]]
    BY <1>1, <2>1 DEF Versions
  <2>3. ASSUME NEW v \in floor..m
        PROVE  Versions[v] = [t \in Tables |-> MergeDelta(t, base[t], EntriesAt(delta', v))]
    <3>1. \A e \in delta : e.ts \in Int
      BY DeltaTs DEF RefInv, WriteInv
    <3>2. EntriesAt(delta', v) = EntriesAt(delta, v)
      BY <1>1, <1>2, <3>1 DEF EntriesAt
    <3>3. v \in floor..TipTs
      BY <1>1, <1>2 DEF TipTs
    <3>4. Versions[v] = [t \in Tables |-> MergeDelta(t, base[t], EntriesAt(Committed, v))]
      BY <3>3 DEF Versions
    <3> QED BY <1>2, <3>2, <3>4
  <2> QED BY <2>2, <2>3
<1>7. Restorable = snapshots
  <2>1. {k \in DOMAIN snapshots : snapshots[k] >= floor} = DOMAIN snapshots
    BY <1>2
  <2>2. snapshots = [n \in DOMAIN snapshots |-> snapshots[n]]
    BY DEF RefInv, WriteInv, CoreInv, TypeOK
  <2> QED BY <2>1, <2>2 DEF Restorable
<1>8. Restorable' = [n \in {k \in DOMAIN snapshots : snapshots[k] <= m} |-> snapshots[n]]
  <2>1. {k \in DOMAIN snapshots' : snapshots'[k] >= floor} = {k \in DOMAIN snapshots : snapshots[k] <= m}
    BY <1>1, <1>2
  <2>2. Restorable' = [n \in {k \in DOMAIN snapshots' : snapshots'[k] >= floor} |-> snapshots'[n]]
    BY <1>1 DEF Restorable
  <2> QED BY <1>1, <2>1, <2>2
<1>9. m \in DOMAIN Versions
  BY <1>1, <1>2
<1> QED BY <1>3, <1>4, <1>5, <1>6, <1>7, <1>8, <1>9 DEF Db!DbRestore

----------------------------------------------------------------------------
\* Folding a table into its base does not change what the newest version holds.
LEMMA FoldContents ==
    ASSUME RefInv, NEW u \in Tables, CheckpointTable(u)
    PROVE  [t \in Tables |-> MergeDelta(t, base'[t], EntriesAt(delta', commit_ts))]
             = [t \in Tables |-> MergeDelta(t, base[t], EntriesAt(delta, commit_ts))]
<1>1. /\ base' = [base EXCEPT ![u] = MergeDelta(u, base[u], delta)] /\ delta' = {e \in delta : e.batch.table # u}
      /\ base \in [Tables -> Bag]
  BY DEF CheckpointTable, Clear, RefInv, WriteInv, CoreInv, TypeOK
<1>2. EntriesAt(delta, commit_ts) = delta
  BY TipBag DEF RefInv
<1>3. ASSUME NEW t \in Tables
      PROVE  MergeDelta(t, base'[t], EntriesAt(delta', commit_ts)) = MergeDelta(t, base[t], EntriesAt(delta, commit_ts))
  <2>1. CASE t = u
    <3>1. base'[t] = MergeDelta(t, base[t], delta) /\ base'[t] \in Bag
      BY <1>1, <2>1, TipBag DEF RefInv
    <3>2. \A e \in EntriesAt(delta', commit_ts) : e.batch.table # t
      BY <1>1, <2>1 DEF EntriesAt
    <3>3. MergeDelta(t, base'[t], EntriesAt(delta', commit_ts)) = base'[t]
      BY <3>1, <3>2, MergeNone
    <3> QED BY <1>2, <3>1, <3>3
  <2>2. CASE t # u
    <3>1. base'[t] = base[t]
      BY <1>1, <2>2
    <3>2. {e \in EntriesAt(delta', commit_ts) : e.batch.table = t} = {e \in EntriesAt(delta, commit_ts) : e.batch.table = t}
      BY <1>1, <2>2 DEF EntriesAt
    <3> QED BY <3>1, <3>2, MergeSame
  <2> QED BY <2>1, <2>2
<1> QED BY <1>3

\* The fold of the first table is the checkpoint, that of a later one a stutter.
LEMMA FoldCheckpoints ==
    ASSUME RefInv, NEW u \in Tables, CheckpointTable(u)
    PROVE  Db!DbCheckpoint \/ Stutter
<1>1. /\ pc \in {"idle", "ckpt"} /\ pc' = "ckpt" /\ commit_ts' = commit_ts /\ txn' = txn
      /\ floor' = commit_ts /\ snapshots' = snapshots
  BY DEF CheckpointTable, Idle
<1>2. /\ commit_ts \in Int /\ floor \in Int /\ floor <= commit_ts /\ Db!Tip = commit_ts
      /\ TipTs = commit_ts /\ Committed = delta /\ DOMAIN Versions = floor..commit_ts
      /\ \A n \in DOMAIN snapshots : snapshots[n] \in Int /\ snapshots[n] <= commit_ts
  BY <1>1, IdleTip
<1>3. NoOpenTxn
  BY DEF CheckpointTable, Idle, RefInv, WriteInv, IsolationInv
<1>4. OpenTxns' = OpenTxns /\ \A s \in Sessions : OpenTxns[s] = NoTxn
  BY <1>1, <1>3, SameOpen, OpenAt DEF NoOpenTxn
<1>5. Versions' = [v \in {commit_ts} |-> Versions[v]]
  <2>1. TipTs' = commit_ts /\ Committed' = delta' /\ commit_ts..commit_ts = {commit_ts}
    BY <1>1, <1>2 DEF TipTs, Committed
  <2>2. Versions' = [v \in commit_ts..commit_ts |-> [t \in Tables |-> MergeDelta(t, base'[t], EntriesAt(delta', v))]]
    BY <1>1, <2>1 DEF Versions
  <2>3. commit_ts \in floor..TipTs
    BY <1>2
  <2>4. Versions[commit_ts] = [t \in Tables |-> MergeDelta(t, base[t], EntriesAt(delta, commit_ts))]
    BY <1>2, <2>3 DEF Versions
  <2>5. Versions[commit_ts] = [t \in Tables |-> MergeDelta(t, base'[t], EntriesAt(delta', commit_ts))]
    BY <2>4, FoldContents
  <2> QED BY <2>1, <2>2, <2>5
<1> DEFINE D == {k \in DOMAIN snapshots : snapshots[k] >= floor}
           E == {k \in DOMAIN snapshots : snapshots[k] >= commit_ts}
<1>6. Restorable = [n \in D |-> snapshots[n]] /\ Restorable' = [n \in E |-> snapshots[n]]
  BY <1>1 DEF Restorable
<1>7. {k \in DOMAIN Restorable : Restorable[k] = commit_ts} = E
  BY <1>2, <1>6
<1>8. Restorable' = [n \in {k \in DOMAIN Restorable : Restorable[k] = commit_ts} |-> Restorable[n]]
  <2>1. \A n \in E : Restorable[n] = snapshots[n]
    BY <1>2, <1>6
  <2> HIDE DEF E, D
  <2> QED BY <1>6, <1>7, <2>1
<1> QED BY <1>2, <1>4, <1>5, <1>8 DEF Db!DbCheckpoint

\* The truncation of the log and of the snapshot names finds nothing left to forget.
LEMMA CheckpointEndStutters ==
    ASSUME "truncate_fails" \notin Allow, RefInv, CheckpointEnd
    PROVE  Stutter
<1>1. /\ pc = "ckpt" /\ pc' = "idle" /\ base' = base /\ delta' = delta /\ commit_ts' = commit_ts
      /\ txn' = txn /\ floor' = floor /\ floor = commit_ts
      /\ snapshots' = [n \in {m \in DOMAIN snapshots : snapshots[m] >= commit_ts} |-> snapshots[n]]
  BY DEF CheckpointEnd, TruncateFails, RefInv, WriteInv, DurableInv, FoldInv
<1>2. Versions' = Versions /\ OpenTxns' = OpenTxns
  <2>1. TipTs' = TipTs /\ Committed' = Committed
    BY <1>1 DEF TipTs, Committed
  <2> QED BY <1>1, <2>1, SameVersions, SameOpen
<1> DEFINE D == {m \in DOMAIN snapshots : snapshots[m] >= commit_ts}
<1>3. Restorable = [n \in D |-> snapshots[n]]
  BY <1>1 DEF Restorable
<1>4. Restorable' = [n \in {m \in DOMAIN snapshots' : snapshots'[m] >= commit_ts} |-> snapshots'[n]]
  BY <1>1 DEF Restorable
<1>5. {m \in DOMAIN snapshots' : snapshots'[m] >= commit_ts} = D
  BY <1>1
<1>6. \A n \in D : snapshots'[n] = snapshots[n]
  BY <1>1
<1> HIDE DEF D
<1>7. Restorable' = Restorable
  BY <1>3, <1>4, <1>5, <1>6
<1> QED BY <1>2, <1>7 DEF Stutter

----------------------------------------------------------------------------
\* A restart rebuilds the newest version from the base and the log.
LEMMA CrashRecovers ==
    ASSUME RefInv, Orderly, Crash
    PROVE  Db!DbCrash
<1>1. /\ pc # "ckpt" /\ pc' = "idle" /\ base' = base /\ delta' = Replayed /\ commit_ts' = ReplayedTs
      /\ floor' = 0 /\ snapshots' = [n \in {} |-> 0] /\ txn' = [s \in Sessions |-> NoTxn]
  BY DEF Crash, Orderly
<1>2. TypeOK /\ wal \in Seq(Record) /\ commit_ts \in Int /\ CoreInv
  BY DEF RefInv, WriteInv, CoreInv, TypeOK
<1>3. /\ ReplayedTs \in Int /\ 0 <= ReplayedTs
      /\ \A i \in DOMAIN wal : wal[i].ts \in Int /\ wal[i].ts <= ReplayedTs
  BY <1>2, ReplayedTsMax, RecordParts
<1>4. \A e \in Replayed : e.ts \in Int /\ e.ts <= ReplayedTs
  <2> TAKE e \in Replayed
  <2>1. PICK i \in DOMAIN wal : e \in Stamp(wal[i].ts, wal[i].batches)
    BY ReplayedMember
  <2>2. e.ts = wal[i].ts
    BY <2>1 DEF Stamp
  <2> QED BY <1>3, <2>2
<1>5. Replayed = Committed
  BY <1>1, <1>2 DEF RefInv, WriteInv, DurableInv, DurableDelta, Committed, TypeOK
<1>6. \A e \in Committed : e.ts <= TipTs
  <2>1. CASE pc = "wal"
    <3>1. \A e \in delta : e.ts \in Nat /\ e.ts < commit_ts
      BY <2>1, OlderThanCommit
    <3> QED BY <1>2, <2>1, <3>1 DEF Committed, TipTs
  <2>2. CASE pc # "wal"
    <3>1. \A e \in delta : e.ts <= commit_ts
      BY DeltaTs DEF RefInv, WriteInv
    <3>2. \A e \in Stamp(commit_ts, job) : e.ts = commit_ts
      BY DEF Stamp
    <3> QED BY <1>2, <2>2, <3>1, <3>2 DEF Committed, TipTs
  <2> QED BY <2>1, <2>2
<1>7. EntriesAt(Committed, TipTs) = Committed /\ EntriesAt(Replayed, ReplayedTs) = Replayed
  BY <1>4, <1>6 DEF EntriesAt
<1>8. TipTs' = ReplayedTs /\ Committed' = Replayed
  BY <1>1 DEF TipTs, Committed
<1>9. Versions' = [v \in 0..ReplayedTs |-> [t \in Tables |-> MergeDelta(t, base[t], EntriesAt(Replayed, v))]]
  BY <1>1, <1>8 DEF Versions
<1>10. Db!Tip' = ReplayedTs
  <2>1. DOMAIN Versions' = 0..ReplayedTs
    BY <1>9
  <2>2. Db!Tip' = CHOOSE v \in DOMAIN Versions' : \A w \in DOMAIN Versions' : w <= v
    BY DEF Db!Tip
  <2> QED BY <1>3, <2>1, <2>2, LastOf
<1>11. Versions'[Db!Tip'] = [t \in Tables |-> MergeDelta(t, base[t], Replayed)]
  <2>1. ReplayedTs \in 0..ReplayedTs
    BY <1>3
  <2> QED BY <1>7, <1>9, <1>10, <2>1
<1>12. Versions[Db!Tip] = [t \in Tables |-> MergeDelta(t, base[t], Committed)]
  <2>1. TipTs \in floor..TipTs /\ Db!Tip = TipTs
    BY TipVersion
  <2> QED BY <1>7, <2>1 DEF Versions
<1>13. Restorable' = [n \in {} |-> 0]
  <2>1. {m \in DOMAIN snapshots' : snapshots'[m] >= floor'} = {}
    BY <1>1
  <2>2. Restorable' = [n \in {m \in DOMAIN snapshots' : snapshots'[m] >= floor'} |-> snapshots'[n]]
    BY DEF Restorable
  <2> QED BY <2>1, <2>2
<1>14. OpenTxns' = [s \in Sessions |-> NoTxn]
  <2>1. \A s \in Sessions : OpenOf(s)' = NoTxn
    BY <1>1 DEF OpenOf
  <2> QED BY <2>1, OpenMap
<1> QED BY <1>5, <1>11, <1>12, <1>13, <1>14 DEF Db!DbCrash

----------------------------------------------------------------------------
\* The initial states map to initial states.
LEMMA InitRefines == Init => Db!DbInit
<1> SUFFICES ASSUME Init PROVE Db!DbInit
  OBVIOUS
<1>1. /\ base \in [Tables -> [Row -> {0, 1}]] /\ delta = {} /\ commit_ts = 0 /\ floor = 0
      /\ snapshots = [n \in {} |-> 0] /\ txn = [s \in Sessions |-> NoTxn] /\ pc = "idle"
  BY DEF Init
<1>2. floor..TipTs = {0} /\ Committed = {}
  BY <1>1 DEF TipTs, Committed
<1>3. ASSUME NEW v \in {0}, NEW t \in Tables
      PROVE  MergeDelta(t, base[t], EntriesAt(Committed, v)) \in [Row -> Nat]
  <2>1. base[t] \in Bag
    BY <1>1 DEF Bag
  <2>2. \A e \in EntriesAt(Committed, v) : e.batch.table # t
    BY <1>2 DEF EntriesAt
  <2> QED BY <2>1, <2>2, MergeNone DEF Bag
<1>4. Versions \in [{0} -> [Tables -> [Row -> Nat]]]
  BY <1>2, <1>3 DEF Versions
<1>5. Restorable = [n \in {} |-> 0]
  <2>1. {m \in DOMAIN snapshots : snapshots[m] >= floor} = {}
    BY <1>1
  <2> QED BY <2>1 DEF Restorable
<1>6. OpenTxns = [s \in Sessions |-> NoTxn]
  BY <1>1 DEF OpenTxns
<1> QED BY <1>4, <1>5, <1>6 DEF Db!DbInit

\* Every step maps to a step or a stutter.
LEMMA StepRefines ==
    ASSUME Allow = {}, RefInv, OwnWrites, [Next]_vars
    PROVE  [Db!DbNext]_(Db!dbvars)
<1>0. Orderly
  BY DEF Orderly
<1>1. ASSUME Stutter PROVE UNCHANGED Db!dbvars
  BY <1>1 DEF Stutter, Db!dbvars
<1>2. ASSUME NEW m \in Int, floor <= m, Idle, NoOpenTxn, RestoreTo(m)
      PROVE  Db!DbNext
  BY <1>2, RestoreCuts DEF Db!DbNext
<1>3. ASSUME NEW n \in DOMAIN snapshots, Idle, NoOpenTxn, RestoreTo(snapshots[n])
      PROVE  Db!DbNext
  <2>1. snapshots[n] \in Int /\ floor <= snapshots[n]
    BY <1>3, IdleTip DEF Idle
  <2> QED BY <1>2, <1>3, <2>1
<1>4. ASSUME NEW s \in Sessions, Statement(s)
      PROVE  [Db!DbNext]_(Db!dbvars)
  <2>0. Idle
    BY <1>4, StatementKinds
  <2>1. CASE Begin(s)
    BY <2>1, BeginOpens DEF Db!DbNext
  <2>2. CASE Rollback(s)
    BY <2>2, RollbackCloses DEF Db!DbNext
  <2>3. ASSUME NEW bs, AllocateTs(s, bs)
        PROVE  UNCHANGED Db!dbvars
    BY <1>1, <2>0, <2>3, AllocateStutters
  <2>4. CASE Commit(s)
    BY <2>3, <2>4 DEF Commit
  <2>5. ASSUME NEW n \in Names, RestoreSql(s, n)
        PROVE  Db!DbNext
    BY <1>3, <2>5 DEF RestoreSql
  <2>6. ASSUME NEW t \in Tables, NEW rows \in SUBSET Row,
               "reinsert" \in Allow \/ \A r \in rows : r.k \notin DeletedKeys(s, t),
               EnforceUnique(t, [r \in rows |-> r], Visible(s, t)), WriteOut(s, "insert", InsertBatch(t, rows))
        PROVE  [Db!DbNext]_(Db!dbvars)
    <3>1. CASE Buffer(s, "insert", InsertBatch(t, rows))
      <4>1. Db!DbInsert(s, t, rows)
        BY <2>0, <2>6, <3>1, InsertWrites
      <4> QED BY <4>1 DEF Db!DbNext
    <3> QED BY <2>3, <2>6, <3>1 DEF WriteOut
  <2>7. ASSUME NEW t \in PKTables, NEW keys \in SUBSET Keys, WriteOut(s, "tombstone", Tombstone(t, keys, FALSE))
        PROVE  [Db!DbNext]_(Db!dbvars)
    <3> DEFINE b == Tombstone(t, keys, FALSE)
    <3>1. CASE Buffer(s, "tombstone", b)
      <4>1. b \in Batch /\ b.table = t /\ b.keys = keys /\ t \in Tables
        BY BatchTypes, TablesAssumption DEF Tombstone
      <4> HIDE DEF b
      <4>2. Db!DbDelete(s, t, keys)
        BY <2>0, <3>1, <4>1, DeleteWrites
      <4> QED BY <4>1, <4>2 DEF Db!DbNext
    <3> QED BY <2>3, <2>7, <3>1 DEF WriteOut
  <2>8. ASSUME txn[s] = NoTxn, NEW t \in Tables, NEW tombs, NEW frame,
               ImplicitArgs(t, tombs, frame), ImplicitTxn(s, t, tombs, frame)
        PROVE  UNCHANGED Db!dbvars
    BY <2>3, <2>8 DEF ImplicitTxn
  <2> QED BY <1>4, <2>1, <2>2, <2>4, <2>5, <2>6, <2>7, <2>8, StatementKinds
<1>5. CASE Admin
  <2>1. ASSUME NEW n \in Names, Snapshot(n) PROVE Db!DbNext
    BY <2>1, SnapshotNames DEF Db!DbNext
  <2>2. ASSUME NEW n \in Names, AdminRestore(n) PROVE Db!DbNext
    BY <1>3, <2>2 DEF AdminRestore
  <2>3. ASSUME NEW ts \in RestoreTargets, AdminRestoreTo(ts) PROVE Db!DbNext
    <3>1. ts \in Int /\ floor <= ts /\ Idle /\ NoOpenTxn /\ RestoreTo(ts)
      BY <2>3, TargetsAssumption DEF AdminRestoreTo, RefInv, WriteInv, CoreInv, TypeOK
    <3> QED BY <1>2, <3>1
  <2>4. ASSUME NEW t \in Tables, CheckpointTable(t) PROVE [Db!DbNext]_(Db!dbvars)
    BY <1>1, <2>4, FoldCheckpoints DEF Db!DbNext
  <2>5. CASE CheckpointEnd
    BY <1>1, <2>5, CheckpointEndStutters
  <2>6. CASE CheckpointCancel
    BY <2>6 DEF CheckpointCancel
  <2> QED BY <1>5, <2>1, <2>2, <2>3, <2>4, <2>5, <2>6 DEF Admin
<1>6. CASE WalWrite
  <2>0. owner \in Sessions
    BY <1>6 DEF WalWrite, RefInv, WriteInv, JobInv
  <2>1. CASE txn[owner] = NoTxn
    BY <1>6, <2>1, StatementAppends DEF Db!DbNext
  <2>2. CASE txn[owner] # NoTxn
    <3>1. PICK s \in Sessions : s = owner
      BY <2>0
    <3>2. Db!DbCommit(s)
      BY <1>6, <2>2, <3>1, CommitAppends
    <3> QED BY <3>2 DEF Db!DbNext
  <2> QED BY <2>1, <2>2
<1>7. CASE WalFail
  BY <1>7, FailAppends DEF Db!DbNext
<1>8. CASE DeltaApply
  BY <1>1, <1>8, ApplyStutters
<1>9. CASE Crash
  BY <1>0, <1>9, CrashRecovers DEF Db!DbNext
<1>10. CASE UNCHANGED vars
  <2>1. /\ pc' = pc /\ owner' = owner /\ txn' = txn /\ floor' = floor /\ snapshots' = snapshots
        /\ base' = base /\ delta' = delta /\ commit_ts' = commit_ts /\ job' = job
    BY <1>10 DEF vars
  <2>2. TipTs' = TipTs /\ Committed' = Committed
    BY <2>1 DEF TipTs, Committed
  <2>3. OpenTxns' = OpenTxns
    BY <2>1, OpenMap, SameOpenOf
  <2> QED BY <1>1, <2>1, <2>2, <2>3, SameVersions, SameSnaps DEF Stutter
<1> QED BY <1>4, <1>5, <1>6, <1>7, <1>8, <1>9, <1>10 DEF Next

\* The engine implements the versioned database: for every set of tables, keys, sessions and
\* bounds, whatever the order of statements, I/O errors, snapshots, restores, checkpoints and
\* crashes, clients cannot tell the delta, the tombstones and the write-ahead log from a
\* database that keeps whole versions and commits, restores and recovers in one step.  Allow = {}
\* leaves out what breaks the promise by design of the code: the six behaviours it names.
THEOREM EngineRefines ==
    ASSUME Allow = {}
    PROVE  Spec => ImplementsVersionedDb
<1>0. Orderly /\ "sql_restore" \notin Allow
  BY DEF Orderly
<1>1. Spec => [](WriteInv /\ OwnWrites)
  BY <1>0, WriteInvariant
<1>2. Init => TipInv /\ OpenInv /\ FreshInv
  BY RefInit
<1>3. (WriteInv /\ OwnWrites) /\ (TipInv /\ OpenInv /\ FreshInv) /\ [Next]_vars => (TipInv /\ OpenInv /\ FreshInv)'
  BY TipOpenStep, FreshStep
<1>4. (WriteInv /\ OwnWrites) /\ (TipInv /\ OpenInv /\ FreshInv) /\ [Next]_vars => [Db!DbNext]_(Db!dbvars)
  BY StepRefines DEF RefInv
<1>5. Init => Db!DbInit
  BY InitRefines
<1> QED BY <1>1, <1>2, <1>3, <1>4, <1>5, PTL DEF Spec, ImplementsVersionedDb, Db!DbSpec
=============================================================================
