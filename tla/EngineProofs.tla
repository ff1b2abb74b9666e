---------------------------- MODULE EngineProofs ----------------------------
(***************************************************************************)
(* Theorems about Engine, for any sets of sessions, tables, rows and       *)
(* snapshot names and any bounds.                                          *)
(***************************************************************************)
EXTENDS Engine, FiniteSetTheorems, WellFoundedInduction, TLAPS

----------------------------------------------------------------------------
(***************************************************************************)
(* Facts about the operators the engine is built from.                     *)
(***************************************************************************)

\* A non-empty set of naturals has a least element, which Min picks.
LEMMA MinNat ==
    ASSUME NEW S \in SUBSET Nat, S # {}
    PROVE  Min(S) \in S /\ \A y \in S : Min(S) <= y
<1> DEFINE Less == {p \in Nat \X Nat : p[1] < p[2]}
<1>0. IsWellFoundedOn(Less, Nat)
  BY NatLessThanWellFounded, Zenon DEF OpToRel
<1>1. PICK x \in S : \A y \in S : ~(<<y, x>> \in Less)
  <2> HIDE DEF Less
  <2> QED BY <1>0, WFMin
<1>2. \A y \in S : x <= y
  <2> TAKE y \in S
  <2>1. <<y, x>> \in Nat \X Nat
    OBVIOUS
  <2> QED BY <1>1, <2>1
<1> QED BY <1>2 DEF Min

\* The parts of a log record.
LEMMA RecordParts ==
    ASSUME wal \in Seq(Record)
    PROVE  \A i \in 1..Len(wal) :
               wal[i] \in Record /\ wal[i].ts \in Int /\ wal[i].batches \in Seq(Batch)
<1>1. \A i \in 1..Len(wal) : wal[i] \in Record
  OBVIOUS
<1> QED BY <1>1 DEF Record

\* TruncateWal keeps the longest prefix without a record newer than the cut.
LEMMA TruncatePrefix ==
    ASSUME wal \in Seq(Record), NEW m \in Int
    PROVE  \E n \in 0..Len(wal) :
               /\ TruncateWal(m) = SubSeq(wal, 1, n)
               /\ \A i \in 1..n : wal[i].ts <= m
               /\ n < Len(wal) => wal[n + 1].ts > m
<1> DEFINE past == {i \in DOMAIN wal : wal[i].ts > m}
<1>1. \A i \in 1..Len(wal) : wal[i].ts \in Int
  BY RecordParts
<1>2. CASE past = {}
  <2>1. TruncateWal(m) = SubSeq(wal, 1, Len(wal))
    BY <1>2 DEF TruncateWal
  <2>2. \A i \in 1..Len(wal) : wal[i].ts <= m
    BY <1>1, <1>2
  <2> QED BY <2>1, <2>2
<1>3. CASE past # {}
  <2>1. Min(past) \in past /\ \A y \in past : Min(past) <= y
    BY <1>3, MinNat
  <2>2. TruncateWal(m) = SubSeq(wal, 1, Min(past) - 1)
    BY <1>3 DEF TruncateWal
  <2> DEFINE n == Min(past) - 1
  <2>3. n \in 0..Len(wal) /\ n < Len(wal) /\ wal[n + 1].ts > m
    BY <2>1
  <2>4. \A i \in 1..n : wal[i].ts <= m
    <3> TAKE i \in 1..n
    <3>1. i \in 1..Len(wal) /\ i < Min(past)
      BY <2>1, <2>3
    <3>2. i \notin past
      <4>1. Min(past) \in Int /\ i \in Int /\ ~(Min(past) <= i)
        BY <2>1, <3>1
      <4> HIDE DEF past
      <4> QED BY <2>1, <4>1
    <3> QED BY <1>1, <3>1, <3>2
  <2> HIDE DEF n
  <2> QED BY <2>2, <2>3, <2>4 DEF n
<1> QED BY <1>2, <1>3

\* The image of a sequence's positions is finite, so a stamped commit is.
LEMMA StampFinite ==
    ASSUME NEW ts, NEW b \in Seq(Batch)
    PROVE  IsFiniteSet(Stamp(ts, b))
<1> DEFINE f == [i \in DOMAIN b |-> [ts |-> ts, n |-> i, batch |-> b[i]]]
<1>1. f \in Surjection(DOMAIN b, Stamp(ts, b))
  BY DEF Stamp, Surjection
<1>2. IsFiniteSet(DOMAIN b)
  BY FS_Interval
<1> QED BY <1>1, <1>2, FS_Surjection

\* Stamped batches are delta entries.
LEMMA StampType ==
    ASSUME NEW ts \in Int, NEW b \in Seq(Batch)
    PROVE  Stamp(ts, b) \subseteq Entry
BY DEF Stamp, Entry

\* What a replay of the log rebuilds is a finite set of delta entries.
LEMMA ReplayedFinite ==
    ASSUME wal \in Seq(Record)
    PROVE  Replayed \subseteq Entry /\ IsFiniteSet(Replayed)
<1> DEFINE f == [i \in DOMAIN wal |-> Stamp(wal[i].ts, wal[i].batches)]
           T == {Stamp(wal[i].ts, wal[i].batches) : i \in DOMAIN wal}
<1>1. \A i \in DOMAIN wal : wal[i].ts \in Int /\ wal[i].batches \in Seq(Batch)
  BY RecordParts
<1>2. f \in Surjection(DOMAIN wal, T)
  BY DEF Surjection
<1>3. IsFiniteSet(DOMAIN wal)
  BY FS_Interval
<1>4. IsFiniteSet(T)
  BY <1>2, <1>3, FS_Surjection
<1>5. \A X \in T : IsFiniteSet(X) /\ X \subseteq Entry
  BY <1>1, StampFinite, StampType
<1>6. IsFiniteSet(UNION T)
  BY <1>4, <1>5, FS_UNION
<1> QED BY <1>5, <1>6 DEF Replayed

\* A scan returns a bag of rows.
LEMMA MergeType ==
    ASSUME NEW t, NEW b \in Bag, NEW E, IsFiniteSet(E)
    PROVE  MergeDelta(t, b, E) \in Bag
<1> DEFINE mine  == {e \in E : e.batch.table = t}
           ins   == {e \in mine : e.batch.kind = "insert"}
           tombs == mine \ ins
           kept(r) == {e \in ins : r \in e.batch.rows /\ Keep(t, tombs, r.k, e.ts)}
<1>1. ASSUME NEW r \in Row
      PROVE  (IF Keep(t, tombs, r.k, 0) THEN b[r] ELSE 0) + Cardinality(kept(r)) \in Nat
  <2>1. kept(r) \in SUBSET E
    OBVIOUS
  <2>2. Cardinality(kept(r)) \in Nat
    BY <2>1, FS_Subset, FS_CardinalityType
  <2>3. b[r] \in Nat
    BY DEF Bag
  <2> HIDE DEF kept, tombs
  <2> QED BY <2>2, <2>3
<1> QED BY <1>1 DEF MergeDelta, Bag

----------------------------------------------------------------------------
(***************************************************************************)
(* What a statement of a session can do to the state.                      *)
(***************************************************************************)

\* The batches statements build.
LEMMA BatchTypes ==
    ASSUME NEW t \in Tables
    PROVE  /\ \A rows \in SUBSET Row : InsertBatch(t, rows) \in Batch
           /\ \A keys \in SUBSET Keys, x \in BOOLEAN : Tombstone(t, keys, x) \in Batch
BY DEF InsertBatch, Tombstone, Batch, Kind

LEMMA TxnParts ==
    ASSUME TypeOK, NEW s \in Sessions, txn[s] # NoTxn
    PROVE  /\ txn[s] \in Txn
           /\ txn[s].snapshot_ts \in Int
           /\ txn[s].buffer \in Seq(Batch)
           /\ txn[s].tombstones \in Seq(Batch)
           /\ TxnBatches(txn[s]) \in Seq(Batch)
<1>1. txn[s] \in Txn
  BY DEF TypeOK
<1>2. txn[s].snapshot_ts \in Int /\ txn[s].buffer \in Seq(Batch) /\ txn[s].tombstones \in Seq(Batch)
  BY <1>1 DEF Txn
<1> QED BY <1>1, <1>2 DEF TxnBatches

\* A transaction stays one when a batch is buffered.
LEMMA AppendTypes ==
    ASSUME NEW x \in Txn, NEW b \in Batch
    PROVE  BufferAppend(x, b) \in Txn /\ TombstoneAppend(x, b) \in Txn
<1>1. x.buffer \in Seq(Batch) /\ x.tombstones \in Seq(Batch)
  BY DEF Txn
<1>2. Append(x.buffer, b) \in Seq(Batch) /\ Append(x.tombstones, b) \in Seq(Batch)
  BY <1>1
<1>3. BufferAppend(x, b) \in Txn
  BY <1>2 DEF BufferAppend, Txn
<1>4. TombstoneAppend(x, b) \in Txn
  BY <1>2 DEF TombstoneAppend, Txn
<1> QED BY <1>3, <1>4

\* Inserted rows; the tombstones of one kind, which name keys of a table with a primary key.
InsertOnly == {b \in Batch : b.kind = "insert" /\ b.keys = {}}
TombOnly(kind) == {b \in Batch : b.kind = kind /\ b.rows = {} /\ b.table \in PKTables}

\* What an autocommit statement commits: rows and tombstones, with no row for a key whose
\* tombstone removes also the rows of its own timestamp.
OneStatement(bs) ==
    /\ \A i \in DOMAIN bs : bs[i] \in InsertOnly \cup TombOnly("tombstone") \cup TombOnly("tombstone_update")
    /\ \A i, j \in DOMAIN bs : \A r \in bs[j].rows :
          ~(bs[i].kind = "tombstone" /\ bs[i].table = bs[j].table /\ r.k \in bs[i].keys)

LEMMA BatchShapes ==
    ASSUME NEW t \in Tables
    PROVE  /\ \A rows \in SUBSET Row : InsertBatch(t, rows) \in InsertOnly
           /\ t \in PKTables => \A keys \in SUBSET Keys : /\ Tombstone(t, keys, FALSE) \in TombOnly("tombstone")
                                                         /\ Tombstone(t, keys, TRUE) \in TombOnly("tombstone_update")
<1>1. ASSUME NEW rows \in SUBSET Row PROVE InsertBatch(t, rows) \in InsertOnly
  BY BatchTypes DEF InsertBatch, InsertOnly
<1>2. ASSUME t \in PKTables, NEW keys \in SUBSET Keys
      PROVE  Tombstone(t, keys, FALSE) \in TombOnly("tombstone") /\ Tombstone(t, keys, TRUE) \in TombOnly("tombstone_update")
  BY <1>2, BatchTypes DEF Tombstone, TombOnly
<1> QED BY <1>1, <1>2

\* One batch alone is the work of one statement.
LEMMA SingleStatement ==
    ASSUME NEW b \in InsertOnly \cup TombOnly("tombstone")
    PROVE  <<b>> \in Seq(Batch) /\ OneStatement(<<b>>)
<1>1. b \in Batch /\ (b.kind = "insert" \/ b.rows = {})
  BY DEF InsertOnly, TombOnly
<1>2. <<b>> \in Seq(Batch) /\ DOMAIN <<b>> = {1} /\ <<b>>[1] = b
  BY <1>1
<1> QED BY <1>1, <1>2 DEF OneStatement

\* INSERT and DELETE buffer one batch or start the commit of it.
LEMMA WriteOutShape ==
    ASSUME NEW s \in Sessions, NEW field, NEW b \in InsertOnly \cup TombOnly("tombstone"),
           WriteOut(s, field, b)
    PROVE  \/ Buffer(s, field, b)
           \/ txn[s] = NoTxn /\ \E bs \in Seq(Batch) : OneStatement(bs) /\ AllocateTs(s, bs)
BY SingleStatement DEF WriteOut

\* The positions of a concatenation.
LEMMA ConcatParts ==
    ASSUME NEW a \in Seq(Batch), NEW b \in Seq(Batch)
    PROVE  /\ a \o b \in Seq(Batch) /\ Len(a \o b) = Len(a) + Len(b)
           /\ \A i \in DOMAIN a : i \in DOMAIN (a \o b) /\ (a \o b)[i] = a[i]
           /\ \A i \in DOMAIN b : Len(a) + i \in DOMAIN (a \o b) /\ (a \o b)[Len(a) + i] = b[i]
           /\ \A i \in DOMAIN (a \o b) : (i \in DOMAIN a /\ (a \o b)[i] = a[i])
                 \/ (i - Len(a) \in DOMAIN b /\ (a \o b)[i] = b[i - Len(a)])
<1>1. /\ a \o b \in Seq(Batch) /\ Len(a \o b) = Len(a) + Len(b) /\ Len(a) \in Nat /\ Len(b) \in Nat
      /\ DOMAIN a = 1..Len(a) /\ DOMAIN b = 1..Len(b) /\ DOMAIN (a \o b) = 1..(Len(a) + Len(b))
  OBVIOUS
<1>2. \A i \in 1..(Len(a) + Len(b)) : (a \o b)[i] = (IF i <= Len(a) THEN a[i] ELSE b[i - Len(a)])
  OBVIOUS
<1>3. \A i \in DOMAIN a : i \in DOMAIN (a \o b) /\ (a \o b)[i] = a[i]
  BY <1>1, <1>2
<1>4. \A i \in DOMAIN b : Len(a) + i \in DOMAIN (a \o b) /\ (a \o b)[Len(a) + i] = b[i]
  <2> TAKE i \in DOMAIN b
  <2>1. i \in Nat /\ Len(a) + i \in 1..(Len(a) + Len(b)) /\ ~(Len(a) + i <= Len(a)) /\ (Len(a) + i) - Len(a) = i
    BY <1>1
  <2> QED BY <1>1, <1>2, <2>1
<1>5. \A i \in DOMAIN (a \o b) : (i \in DOMAIN a /\ (a \o b)[i] = a[i])
                               \/ (i - Len(a) \in DOMAIN b /\ (a \o b)[i] = b[i - Len(a)])
  <2> TAKE i \in DOMAIN (a \o b)
  <2>1. CASE i <= Len(a)
    BY <1>1, <1>2, <2>1
  <2>2. CASE ~(i <= Len(a))
    <3>1. i - Len(a) \in 1..Len(b)
      BY <1>1, <2>2
    <3> QED BY <1>1, <1>2, <2>2, <3>1
  <2> QED BY <2>1, <2>2
<1> QED BY <1>1, <1>3, <1>4, <1>5

\* What UPDATE and MERGE hand to their implicit transaction: new rows, and at most one
\* tombstone of the table, where a DELETE's names none of the new rows' keys.
ImplicitArgs(t, tombs, frame) ==
    /\ tombs \in Seq(Batch)
    /\ \A i \in DOMAIN frame : frame[i] \in Row
    /\ \/ tombs = <<>>
       \/ \E b \in TombOnly("tombstone_update") : b.table = t /\ tombs = <<b>>
       \/ \E b \in TombOnly("tombstone") :
             b.table = t /\ tombs = <<b>> /\ \A i \in DOMAIN frame : frame[i].k \notin b.keys

\* UPDATE and MERGE start the commit of their tombstones and new rows.
LEMMA ImplicitShape ==
    ASSUME NEW s \in Sessions, NEW t \in Tables, NEW tombs, NEW frame,
           ImplicitArgs(t, tombs, frame), ImplicitTxn(s, t, tombs, frame)
    PROVE  \E bs \in Seq(Batch) : OneStatement(bs) /\ AllocateTs(s, bs)
<1> DEFINE new == {frame[i] : i \in DOMAIN frame}
           ins == IF new = {} THEN <<>> ELSE <<InsertBatch(t, new)>>
<1>0. tombs \in Seq(Batch) /\ \A i \in DOMAIN frame : frame[i] \in Row
  BY DEF ImplicitArgs
<1>1. new \in SUBSET Row
  BY <1>0
<1>2. ins \in Seq(Batch) /\ \A i \in DOMAIN ins : ins[i] \in InsertOnly /\ ins[i].rows = new
  <2>1. InsertBatch(t, new) \in Batch /\ InsertBatch(t, new) \in InsertOnly /\ InsertBatch(t, new).rows = new
    BY <1>1, BatchTypes, BatchShapes DEF InsertBatch
  <2> DEFINE b == InsertBatch(t, new)
  <2> HIDE DEF b, new
  <2>2. CASE new = {}
    BY <2>2
  <2>3. CASE new # {}
    <3>1. ins = <<b>>
      BY <2>3 DEF b
    <3> HIDE DEF ins
    <3> QED BY <2>1, <3>1 DEF b
  <2> QED BY <2>2, <2>3
<1>3. \A i \in DOMAIN tombs : /\ tombs[i] \in TombOnly("tombstone") \cup TombOnly("tombstone_update")
                              /\ tombs[i].kind = "tombstone" => \A r \in new : r.k \notin tombs[i].keys
  <2>1. CASE tombs = <<>>
    BY <2>1
  <2>2. CASE \E b \in TombOnly("tombstone_update") : tombs = <<b>>
    BY <2>2 DEF TombOnly
  <2>3. CASE \E b \in TombOnly("tombstone") : tombs = <<b>> /\ \A i \in DOMAIN frame : frame[i].k \notin b.keys
    <3>1. PICK b \in TombOnly("tombstone") : tombs = <<b>> /\ \A i \in DOMAIN frame : frame[i].k \notin b.keys
      BY <2>3
    <3>2. \A r \in new : r.k \notin b.keys
      BY <3>1
    <3> HIDE DEF new
    <3> QED BY <3>1, <3>2
  <2> QED BY <2>1, <2>2, <2>3 DEF ImplicitArgs
<1>4. AllocateTs(s, ins \o tombs)
  BY DEF ImplicitTxn
<1> HIDE DEF ins, new
<1> DEFINE bs == ins \o tombs
<1>5. bs \in Seq(Batch) /\ \A i \in DOMAIN bs : \/ bs[i] \in InsertOnly /\ bs[i].rows = new
                                                \/ /\ bs[i] \in TombOnly("tombstone") \cup TombOnly("tombstone_update")
                                                   /\ bs[i].kind = "tombstone" => \A r \in new : r.k \notin bs[i].keys
  BY <1>0, <1>2, <1>3, ConcatParts
<1> HIDE DEF bs
<1>6. OneStatement(bs)
  <2>1. ASSUME NEW i \in DOMAIN bs, NEW j \in DOMAIN bs, NEW r \in bs[j].rows
        PROVE  ~(bs[i].kind = "tombstone" /\ bs[i].table = bs[j].table /\ r.k \in bs[i].keys)
    <3>1. r \in new
      BY <1>5 DEF TombOnly
    <3>2. bs[i].kind = "tombstone" => r.k \notin bs[i].keys
      BY <1>5, <3>1 DEF InsertOnly
    <3> QED BY <3>2
  <2> QED BY <1>5, <2>1 DEF OneStatement
<1> QED BY <1>4, <1>5, <1>6 DEF bs

\* Row occurrences are pairs of a row and an index.
LEMMA OccurrenceRows ==
    ASSUME NEW bag, NEW rows \in SUBSET Row
    PROVE  \A o \in Occurrences(bag, rows) : o[1] \in rows
BY DEF Occurrences

LEMMA UpdateShape ==
    ASSUME NEW s \in Sessions, NEW t \in Tables, NEW K \in SUBSET Keys,
           NEW col \in {"k", "v"}, NEW x, col = "k" => x \in Keys, col = "v" => x \in Vals,
           Update(s, t, K, col, x)
    PROVE  Idle /\ txn[s] = NoTxn /\ \E tombs, frame : ImplicitArgs(t, tombs, frame) /\ ImplicitTxn(s, t, tombs, frame)
<1> DEFINE targets == {r \in RowsOf(Visible(s, t)) : r.k \in K}
           frame == [o \in Occurrences(Visible(s, t), targets) |-> SetColumn(o[1], col, x)]
           tomb  == Tombstone(t, {r.k : r \in targets}, TRUE)
<1>1. targets \in SUBSET Row
  BY DEF RowsOf
<1>2. \A r \in Row : SetColumn(r, col, x) \in Row
  BY DEF SetColumn, Row
<1>3. \A o \in DOMAIN frame : frame[o] \in Row
  BY <1>1, <1>2, OccurrenceRows
<1>4. {r.k : r \in targets} \in SUBSET Keys
  BY <1>1 DEF Row
<1>5. tomb \in Batch
  BY <1>4, BatchTypes
<1>6. Idle /\ txn[s] = NoTxn /\ t \in PKTables /\ ImplicitTxn(s, t, <<tomb>>, frame)
  BY DEF Update
<1>8. tomb \in TombOnly("tombstone_update") /\ tomb.table = t
  BY <1>4, <1>6, BatchShapes DEF Tombstone
<1> HIDE DEF frame, tomb
<1>7. <<tomb>> \in Seq(Batch)
  BY <1>5
<1>9. ImplicitArgs(t, <<tomb>>, frame)
  BY <1>3, <1>7, <1>8 DEF ImplicitArgs
<1> QED BY <1>6, <1>9

LEMMA MergeShape ==
    ASSUME NEW s \in Sessions, NEW t \in Tables, NEW source \in SUBSET Row, NEW hit,
           NEW arm \in {"none", "update", "delete"}, NEW new \in {"none", "insert"},
           Merge(s, t, source, hit, arm, new)
    PROVE  Idle /\ txn[s] = NoTxn /\ \E tombs, frame : ImplicitArgs(t, tombs, frame) /\ ImplicitTxn(s, t, tombs, frame)
<1> DEFINE visible == Visible(s, t)
           occs    == Occurrences(visible, RowsOf(visible))
           pairs   == {p \in occs \X source : p[1][1].k = p[2].k}
           m       == {p \in pairs : p[1][1].k \in hit}
           mkeys   == {p[1][1].k : p \in m}
           fresh   == IF new = "insert"
                      THEN {r \in source : \A p \in pairs : p[2].k # r.k} ELSE {}
           moved   == IF arm = "update" THEN m ELSE {}
           tombs   == IF m = {} \/ arm = "none" THEN <<>>
                      ELSE <<Tombstone(t, mkeys, arm = "update")>>
           frame   == [i \in ({"new"} \X fresh) \cup ({"upd"} \X moved) |->
                         IF i[1] = "new" THEN i[2] ELSE SetColumn(i[2][1][1], "v", i[2][2].v)]
<1>1. Idle /\ txn[s] = NoTxn /\ ImplicitTxn(s, t, tombs, frame) /\ (arm # "none" => t \in PKTables)
  BY DEF Merge
<1>2. \A p \in pairs : p[1] \in occs /\ p[2] \in source
  OBVIOUS
<1>3. \A o \in occs : o[1] \in Row
  <2>1. RowsOf(visible) \in SUBSET Row
    BY DEF RowsOf
  <2> HIDE DEF visible
  <2> QED BY <2>1, OccurrenceRows
<1>4. \A p \in pairs : p[1][1] \in Row /\ p[2] \in Row
  <2> HIDE DEF occs, pairs
  <2> QED BY <1>2, <1>3
<1>5. mkeys \in SUBSET Keys
  <2>1. m \subseteq pairs
    OBVIOUS
  <2> HIDE DEF m, pairs
  <2> QED BY <1>4, <2>1 DEF Row
<1>6. tombs \in Seq(Batch)
  <2>1. \A x \in BOOLEAN : Tombstone(t, mkeys, x) \in Batch
    <3> HIDE DEF mkeys
    <3> QED BY <1>5, BatchTypes
  <2>2. Tombstone(t, mkeys, arm = "update") \in Batch
    <3>1. (arm = "update") \in BOOLEAN
      OBVIOUS
    <3> HIDE DEF mkeys
    <3> QED BY <2>1, <3>1, Zenon
  <2> DEFINE tomb == Tombstone(t, mkeys, arm = "update")
  <2> HIDE DEF m, tomb
  <2>3. <<tomb>> \in Seq(Batch)
    BY <2>2 DEF tomb
  <2> QED BY <2>3 DEF tomb
<1>7. \A i \in DOMAIN frame : frame[i] \in Row
  <2>1. fresh \subseteq Row /\ moved \subseteq pairs
    OBVIOUS
  <2>2. \A p \in pairs : SetColumn(p[1][1], "v", p[2].v) \in Row
    <3> HIDE DEF pairs
    <3> QED BY <1>4 DEF SetColumn, Row
  <2> HIDE DEF fresh, moved, pairs
  <2> TAKE i \in DOMAIN frame
  <2>3. CASE i \in {"new"} \X fresh
    BY <2>1, <2>3
  <2>4. CASE i \in {"upd"} \X moved
    <3>1. i[1] = "upd" /\ i[2] \in pairs
      BY <2>1, <2>4
    <3> QED BY <2>2, <2>4, <3>1
  <2> QED BY <2>3, <2>4
<1>8. arm = "delete" => \A i \in DOMAIN frame : frame[i].k \notin mkeys
  <2>1. SUFFICES ASSUME arm = "delete", NEW i \in DOMAIN frame PROVE frame[i].k \notin mkeys
    OBVIOUS
  <2>2. moved = {}
    BY <2>1
  <2>3. fresh \subseteq {r \in source : \A p \in pairs : p[2].k # r.k}
    OBVIOUS
  <2>4. \A k \in mkeys : \E p \in pairs : k = p[2].k
    OBVIOUS
  <2> HIDE DEF moved, fresh, mkeys, pairs
  <2>5. i[1] = "new" /\ i[2] \in fresh /\ frame[i] = i[2]
    BY <2>2
  <2> QED BY <2>3, <2>4, <2>5
<1>9. \/ tombs = <<>>
      \/ \E b \in TombOnly("tombstone_update") : b.table = t /\ tombs = <<b>>
      \/ \E b \in TombOnly("tombstone") :
            b.table = t /\ tombs = <<b>> /\ \A i \in DOMAIN frame : frame[i].k \notin b.keys
  <2>1. CASE m = {} \/ arm = "none"
    BY <2>1
  <2>2. CASE m # {} /\ arm = "update"
    <3>1. (arm = "update") = TRUE
      BY <2>2
    <3>2. Tombstone(t, mkeys, TRUE) \in TombOnly("tombstone_update") /\ Tombstone(t, mkeys, TRUE).table = t
      <4> HIDE DEF mkeys
      <4> QED BY <1>1, <1>5, <2>2, BatchShapes DEF Tombstone
    <3>3. tombs = <<Tombstone(t, mkeys, TRUE)>>
      <4> HIDE DEF mkeys, m
      <4> QED BY <2>2, <3>1
    <3> HIDE DEF tombs, mkeys
    <3> QED BY <3>2, <3>3
  <2>3. CASE m # {} /\ arm = "delete"
    <3>1. (arm = "update") = FALSE
      BY <2>3
    <3>2. Tombstone(t, mkeys, FALSE) \in TombOnly("tombstone") /\ Tombstone(t, mkeys, FALSE).keys = mkeys
          /\ Tombstone(t, mkeys, FALSE).table = t
      <4> HIDE DEF mkeys
      <4> QED BY <1>1, <1>5, <2>3, BatchShapes DEF Tombstone
    <3>3. tombs = <<Tombstone(t, mkeys, FALSE)>>
      <4> HIDE DEF mkeys, m
      <4> QED BY <2>3, <3>1
    <3> HIDE DEF tombs, mkeys, frame
    <3> QED BY <1>8, <2>3, <3>2, <3>3
  <2> QED BY <2>1, <2>2, <2>3
<1> HIDE DEF tombs, frame
<1>10. ImplicitArgs(t, tombs, frame)
  BY <1>6, <1>7, <1>9 DEF ImplicitArgs
<1> QED BY <1>1, <1>10

\* Every statement of a session is transaction control, a restore, an INSERT whose rows passed
\* the constraint check, a DELETE, or the implicit transaction of an UPDATE or MERGE.
LEMMA StatementKinds ==
    ASSUME NEW s \in Sessions, Statement(s)
    PROVE  /\ Idle
           /\ \/ Begin(s) \/ Rollback(s) \/ Commit(s)
              \/ \E n \in Names : RestoreSql(s, n)
              \/ \E t \in Tables, rows \in SUBSET Row :
                    /\ "reinsert" \in Allow \/ \A r \in rows : r.k \notin DeletedKeys(s, t)
                    /\ EnforceUnique(t, [r \in rows |-> r], Visible(s, t))
                    /\ WriteOut(s, "insert", InsertBatch(t, rows))
              \/ \E t \in PKTables, keys \in SUBSET Keys : WriteOut(s, "tombstone", Tombstone(t, keys, FALSE))
              \/ txn[s] = NoTxn /\ \E t \in Tables : \E tombs, frame :
                    ImplicitArgs(t, tombs, frame) /\ ImplicitTxn(s, t, tombs, frame)
<1>1. CASE Begin(s) \/ Rollback(s) \/ Commit(s) \/ \E n \in Names : RestoreSql(s, n)
  BY <1>1 DEF Begin, Rollback, Commit, RestoreSql
<1>2. ASSUME NEW t \in Tables, NEW rows \in SUBSET Row, InsertRows(s, t, rows)
      PROVE  /\ Idle
             /\ "reinsert" \in Allow \/ \A r \in rows : r.k \notin DeletedKeys(s, t)
             /\ EnforceUnique(t, [r \in rows |-> r], Visible(s, t))
             /\ WriteOut(s, "insert", InsertBatch(t, rows))
  BY <1>2 DEF InsertRows
<1>3. ASSUME NEW t \in Tables, NEW rows \in SmallRowSets, Insert(s, t, rows)
      PROVE  rows \in SUBSET Row /\ InsertRows(s, t, rows)
  BY <1>3 DEF Insert, SmallRowSets
<1>4. ASSUME NEW t \in Tables, NEW src \in Tables, NEW K \in SUBSET Keys, InsertSelect(s, src, t, K)
      PROVE  \E rows \in SUBSET Row : InsertRows(s, t, rows)
  <2>1. {r \in RowsOf(Visible(s, src)) : r.k \in K} \in SUBSET Row
    BY DEF RowsOf
  <2> QED BY <1>4, <2>1 DEF InsertSelect
<1>5. ASSUME NEW t \in Tables, NEW K \in SUBSET Keys, Delete(s, t, K)
      PROVE  Idle /\ t \in PKTables /\ \E keys \in SUBSET Keys : WriteOut(s, "tombstone", Tombstone(t, keys, FALSE))
  <2> DEFINE targets == {r.k : r \in {x \in RowsOf(Visible(s, t)) : x.k \in K}}
  <2>1. targets \in SUBSET Keys
    OBVIOUS
  <2>2. Idle /\ t \in PKTables /\ WriteOut(s, "tombstone", Tombstone(t, targets, FALSE))
    BY <1>5 DEF Delete
  <2> QED BY <2>1, <2>2
<1>6. ASSUME NEW t \in Tables, NEW K \in SUBSET Keys,
             \/ \E x \in Vals : Update(s, t, K, "v", x)
             \/ \E x \in Keys : Update(s, t, K, "k", x)
      PROVE  Idle /\ txn[s] = NoTxn /\ \E tombs, frame : ImplicitArgs(t, tombs, frame) /\ ImplicitTxn(s, t, tombs, frame)
  BY <1>6, UpdateShape
<1>7. ASSUME NEW t \in Tables, NEW source \in SmallRowSets, NEW new \in {"none", "insert"},
             \/ Merge(s, t, source, {}, "none", new)
             \/ \E hit \in SUBSET {r.k : r \in source} : \E arm \in {"update", "delete"} :
                   Merge(s, t, source, hit, arm, new)
      PROVE  Idle /\ txn[s] = NoTxn /\ \E tombs, frame : ImplicitArgs(t, tombs, frame) /\ ImplicitTxn(s, t, tombs, frame)
  <2>1. source \in SUBSET Row
    BY DEF SmallRowSets
  <2> QED BY <1>7, <2>1, MergeShape
<1>8. CASE \E t \in Tables : \/ \E rows \in SmallRowSets : Insert(s, t, rows)
                             \/ \E src \in Tables \ {t} : \E K \in SUBSET Keys : InsertSelect(s, src, t, K)
  <2>1. PICK t \in Tables : \/ \E rows \in SmallRowSets : Insert(s, t, rows)
                            \/ \E src \in Tables \ {t} : \E K \in SUBSET Keys : InsertSelect(s, src, t, K)
    BY <1>8
  <2>2. PICK rows \in SUBSET Row : InsertRows(s, t, rows)
    BY <1>3, <1>4, <2>1
  <2> QED BY <1>2, <2>2
<1>9. CASE \E t \in Tables : \E K \in SUBSET Keys : Delete(s, t, K)
  BY <1>5, <1>9
<1> QED BY <1>1, <1>6, <1>7, <1>8, <1>9 DEF Statement

\* A statement that writes buffers one insert or delete, or starts the commit of its batches.
LEMMA StatementBatches ==
    ASSUME NEW s \in Sessions, Statement(s)
    PROVE  /\ Idle
           /\ \/ Begin(s) \/ Rollback(s) \/ Commit(s)
              \/ \E n \in Names : RestoreSql(s, n)
              \/ \E b \in InsertOnly : Buffer(s, "insert", b)
              \/ \E b \in TombOnly("tombstone") : Buffer(s, "tombstone", b)
              \/ txn[s] = NoTxn /\ \E bs \in Seq(Batch) : OneStatement(bs) /\ AllocateTs(s, bs)
<1>1. ASSUME NEW t \in Tables, NEW rows \in SUBSET Row, WriteOut(s, "insert", InsertBatch(t, rows))
      PROVE  \/ \E b \in InsertOnly : Buffer(s, "insert", b)
             \/ txn[s] = NoTxn /\ \E bs \in Seq(Batch) : OneStatement(bs) /\ AllocateTs(s, bs)
  BY <1>1, BatchShapes, WriteOutShape
<1>2. ASSUME NEW t \in PKTables, NEW keys \in SUBSET Keys, WriteOut(s, "tombstone", Tombstone(t, keys, FALSE))
      PROVE  \/ \E b \in TombOnly("tombstone") : Buffer(s, "tombstone", b)
             \/ txn[s] = NoTxn /\ \E bs \in Seq(Batch) : OneStatement(bs) /\ AllocateTs(s, bs)
  BY <1>2, BatchShapes, WriteOutShape, TablesAssumption
<1> QED BY <1>1, <1>2, StatementKinds, ImplicitShape

\* The same with less detail: every statement is a BEGIN, a ROLLBACK, a restore, the
\* buffering of one batch, or the start of a commit.
LEMMA StatementShape ==
    ASSUME TypeOK, NEW s \in Sessions, Statement(s)
    PROVE  /\ Idle
           /\ \/ Begin(s) \/ Rollback(s)
              \/ \E n \in Names : RestoreSql(s, n)
              \/ \E field \in {"insert", "tombstone"}, b \in Batch : Buffer(s, field, b)
              \/ \E bs \in Seq(Batch) : AllocateTs(s, bs)
<1>1. InsertOnly \subseteq Batch /\ TombOnly("tombstone") \subseteq Batch
  BY DEF InsertOnly, TombOnly
<1>2. Commit(s) => \E bs \in Seq(Batch) : AllocateTs(s, bs)
  BY TxnParts DEF Commit
<1> QED BY <1>1, <1>2, StatementBatches

----------------------------------------------------------------------------
(***************************************************************************)
(* Types, a finite delta and the order of the log: an invariant whatever   *)
(* Allow contains, as long as the log's truncate does not fail.  A restore *)
(* whose truncate raised leaves records ahead of the counter, and all that *)
(* is proved about the engine is proved of engines it has not happened to. *)
(***************************************************************************)
CoreInv == TypeOK /\ IsFiniteSet(delta) /\ WalOrdered

LEMMA CoreInit == Init => CoreInv
<1> SUFFICES ASSUME Init PROVE CoreInv
  OBVIOUS
<1>1. base \in [Tables -> Bag]
  BY DEF Init, Bag
<1>2. delta \subseteq Entry /\ IsFiniteSet(delta)
  BY FS_EmptySet DEF Init
<1>3. wal \in Seq(Record) /\ job \in Seq(Batch) /\ WalOrdered
  BY DEF Init, WalOrdered
<1>4. TypeOK
  BY <1>1, <1>2, <1>3 DEF Init, TypeOK
<1> QED BY <1>2, <1>3, <1>4 DEF CoreInv

\* _next_commit_ts leaves every record of the log strictly below the new timestamp.
LEMMA AllocateKeepsCore ==
    ASSUME CoreInv, Idle, NEW s \in Sessions, NEW bs \in Seq(Batch), AllocateTs(s, bs)
    PROVE  CoreInv'
<1>1. TypeOK' /\ IsFiniteSet(delta')
  BY DEF CoreInv, TypeOK, AllocateTs
<1>2. \A i \in 1..Len(wal) : wal[i].ts \in Int
  BY RecordParts DEF CoreInv, TypeOK
<1>3. WalOrdered'
  <2>1. wal' = wal /\ pc' = "wal" /\ commit_ts' = commit_ts + 1 /\ commit_ts \in Int
        /\ DOMAIN wal = 1..Len(wal)
    BY DEF CoreInv, TypeOK, AllocateTs
  <2>2. \A i \in DOMAIN wal : wal[i].ts <= commit_ts
    BY DEF CoreInv, WalOrdered, Idle
  <2>3. \A i \in DOMAIN wal : wal[i].ts < commit_ts + 1
    BY <1>2, <2>1, <2>2
  <2> QED BY <2>1, <2>3 DEF CoreInv, WalOrdered
<1> QED BY <1>1, <1>3 DEF CoreInv

\* write_commit appends a record newer than all others.
LEMMA WalWriteKeepsCore ==
    ASSUME CoreInv, WalWrite
    PROVE  CoreInv'
<1> DEFINE rec == [ts |-> commit_ts, batches |-> job]
<1>1. rec \in Record
  BY DEF CoreInv, TypeOK, Record
<1>2. wal' \in Seq(Record)
  BY <1>1 DEF CoreInv, TypeOK, WalWrite
<1>3. TypeOK' /\ IsFiniteSet(delta')
  BY <1>2 DEF CoreInv, TypeOK, WalWrite
<1>4. WalOrdered'
  <2>0. \A i \in 1..Len(wal) : wal[i].ts \in Int /\ wal[i].ts < commit_ts
    BY RecordParts DEF CoreInv, TypeOK, WalOrdered, WalWrite
  <2>1. CASE job = <<>>
    BY <2>0, <2>1 DEF CoreInv, TypeOK, WalOrdered, WalWrite
  <2>2. CASE job # <<>>
    <3>1. wal' = Append(wal, rec) /\ pc' = "apply" /\ commit_ts' = commit_ts
      BY <2>2 DEF WalWrite
    <3>2. Len(wal') = Len(wal) + 1 /\ wal'[Len(wal) + 1] = rec
          /\ \A i \in 1..Len(wal) : wal'[i] = wal[i]
      BY <1>1, <3>1 DEF CoreInv, TypeOK
    <3>3. rec.ts = commit_ts /\ commit_ts \in Int /\ DOMAIN wal' = 1..Len(wal') /\ Len(wal) \in Nat
      BY <1>2 DEF CoreInv, TypeOK
    <3>4. \A i, j \in 1..Len(wal) : i < j => wal[i].ts < wal[j].ts
      BY DEF CoreInv, TypeOK, WalOrdered
    <3> HIDE DEF rec
    <3> QED BY <2>0, <3>1, <3>2, <3>3, <3>4 DEF WalOrdered
  <2> QED BY <2>1, <2>2
<1> QED BY <1>3, <1>4 DEF CoreInv

\* WAL.truncate keeps the log ordered, and everything it keeps is at most the cut.
LEMMA TruncateOrdered ==
    ASSUME CoreInv, NEW m \in Int
    PROVE  /\ TruncateWal(m) \in Seq(Record)
           /\ \A i, j \in DOMAIN TruncateWal(m) : i < j => TruncateWal(m)[i].ts < TruncateWal(m)[j].ts
           /\ \A i \in DOMAIN TruncateWal(m) : TruncateWal(m)[i].ts <= m
<1>0. wal \in Seq(Record)
  BY DEF CoreInv, TypeOK
<1>1. PICK n \in 0..Len(wal) : /\ TruncateWal(m) = SubSeq(wal, 1, n)
                               /\ \A i \in 1..n : wal[i].ts <= m
  BY <1>0, TruncatePrefix
<1>2. SubSeq(wal, 1, n) \in Seq(Record) /\ DOMAIN SubSeq(wal, 1, n) = 1..n
      /\ \A i \in 1..n : SubSeq(wal, 1, n)[i] = wal[i]
  BY <1>0
<1>3. \A i, j \in 1..n : i < j => wal[i].ts < wal[j].ts
  BY <1>0 DEF CoreInv, WalOrdered
<1> QED BY <1>1, <1>2, <1>3

\* _restore_to lowers the counter exactly to the cut of the log.
LEMMA RestoreKeepsCore ==
    ASSUME "truncate_fails" \notin Allow, CoreInv, Idle, NEW m \in Int, RestoreTo(m)
    PROVE  CoreInv'
<1>1. wal' = TruncateWal(m) /\ commit_ts' = m /\ pc' = "idle"
  BY DEF RestoreTo, TruncateFails, Idle
<1>2. delta' \in SUBSET delta
  BY DEF RestoreTo, TruncateFails, Rewind
<1>3. IsFiniteSet(delta') /\ delta' \subseteq Entry
  BY <1>2, FS_Subset DEF CoreInv, TypeOK
<1>4. DOMAIN snapshots' \subseteq Names /\ snapshots' \in [DOMAIN snapshots' -> Int]
  BY DEF CoreInv, TypeOK, RestoreTo, TruncateFails
<1>5. TypeOK'
  BY <1>1, <1>3, <1>4, TruncateOrdered DEF CoreInv, TypeOK, RestoreTo, TruncateFails
<1>6. WalOrdered'
  BY <1>1, TruncateOrdered DEF WalOrdered
<1> QED BY <1>3, <1>5, <1>6 DEF CoreInv

\* A checkpoint folds into a bag of rows and never adds to the delta.
LEMMA CheckpointTableKeepsCore ==
    ASSUME CoreInv, NEW t \in Tables, CheckpointTable(t)
    PROVE  CoreInv'
<1>1. MergeDelta(t, base[t], delta) \in Bag
  BY MergeType DEF CoreInv, TypeOK
<1>2. delta' \in SUBSET delta
  BY DEF CheckpointTable, Clear
<1>3. IsFiniteSet(delta') /\ delta' \subseteq Entry
  BY <1>2, FS_Subset DEF CoreInv, TypeOK
<1>4. DeltaTables(delta) \subseteq Tables
  BY DEF DeltaTables, CoreInv, TypeOK, Entry, Batch
<1>5. TypeOK'
  BY <1>1, <1>3, <1>4 DEF CoreInv, TypeOK, CheckpointTable
<1>6. WalOrdered'
  BY DEF CoreInv, WalOrdered, CheckpointTable, Idle
<1> QED BY <1>3, <1>5, <1>6 DEF CoreInv

\* truncate(0) at the end of a checkpoint leaves the counter above the log.
LEMMA CheckpointEndKeepsCore ==
    ASSUME "truncate_fails" \notin Allow, CoreInv, CheckpointEnd
    PROVE  CoreInv'
<1>1. wal' = TruncateWal(0) /\ commit_ts' = commit_ts /\ pc' = "idle" /\ pc = "ckpt" /\ commit_ts \in Int
  BY DEF CheckpointEnd, TruncateFails, CoreInv, TypeOK
<1>2. DOMAIN snapshots' \subseteq Names /\ snapshots' \in [DOMAIN snapshots' -> Int]
  BY DEF CoreInv, TypeOK, CheckpointEnd, TruncateFails
<1>3. TypeOK' /\ IsFiniteSet(delta')
  BY <1>1, <1>2, TruncateOrdered DEF CoreInv, TypeOK, CheckpointEnd, TruncateFails
<1>4. WalOrdered'
  <2>0. wal \in Seq(Record) /\ 0 \in Int
    BY DEF CoreInv, TypeOK
  <2>1. PICK n \in 0..Len(wal) : TruncateWal(0) = SubSeq(wal, 1, n)
    BY <2>0, TruncatePrefix, Zenon
  <2>2. DOMAIN SubSeq(wal, 1, n) = 1..n /\ \A i \in 1..n : SubSeq(wal, 1, n)[i] = wal[i]
    BY DEF CoreInv, TypeOK
  <2>3. \A i \in 1..n : wal[i].ts <= commit_ts
    BY <1>1 DEF CoreInv, TypeOK, WalOrdered
  <2>4. \A i \in DOMAIN wal' : wal'[i].ts <= commit_ts'
    BY <1>1, <2>1, <2>2, <2>3
  <2>5. \A i, j \in DOMAIN wal' : i < j => wal'[i].ts < wal'[j].ts
    BY <1>1, <2>0, TruncateOrdered
  <2> QED BY <1>1, <2>4, <2>5 DEF WalOrdered
<1> QED BY <1>3, <1>4 DEF CoreInv

\* The counter a restart recovers is the newest timestamp in the log.
LEMMA ReplayedTsMax ==
    ASSUME CoreInv
    PROVE  /\ ReplayedTs \in Int /\ ReplayedTs >= 0 /\ \A i \in DOMAIN wal : wal[i].ts <= ReplayedTs
           /\ ReplayedTs = 0 \/ \E i \in DOMAIN wal : ReplayedTs = wal[i].ts
<1> DEFINE S == {0} \cup {wal[i].ts : i \in DOMAIN wal}
           last == wal[Len(wal)].ts
<1>1. wal \in Seq(Record) /\ \A i \in 1..Len(wal) : wal[i].ts \in Int
  BY RecordParts DEF CoreInv, TypeOK
<1>2. \A i, j \in 1..Len(wal) : i < j => wal[i].ts < wal[j].ts
  BY <1>1 DEF CoreInv, WalOrdered
<1>3. \E x \in S : \A y \in S : x >= y
  <2>1. CASE wal = <<>>
    BY <2>1
  <2>2. CASE wal # <<>>
    <3>1. Len(wal) \in 1..Len(wal) /\ DOMAIN wal = 1..Len(wal)
      BY <1>1, <2>2
    <3>2. last \in S /\ last \in Int /\ \A i \in DOMAIN wal : wal[i].ts \in Int /\ last >= wal[i].ts
      BY <1>1, <1>2, <3>1
    <3>3. \A y \in S : y = 0 \/ last >= y
      BY <3>2
    <3>4. CASE last >= 0
      BY <3>2, <3>3, <3>4
    <3>5. CASE ~(last >= 0)
      BY <3>2, <3>3, <3>5
    <3> QED BY <3>4, <3>5
  <2> QED BY <2>1, <2>2
<1>4. Max(S) \in S /\ \A y \in S : Max(S) >= y
  <2> HIDE DEF S
  <2> QED BY <1>3 DEF Max
<1>5. S \subseteq Int
  BY <1>1
<1>6. ReplayedTs = Max(S)
  BY DEF ReplayedTs
<1>7. 0 \in S /\ \A i \in DOMAIN wal : wal[i].ts \in S
  OBVIOUS
<1>8. \A x \in S : x = 0 \/ \E i \in DOMAIN wal : x = wal[i].ts
  OBVIOUS
<1> HIDE DEF S
<1> QED BY <1>4, <1>5, <1>6, <1>7, <1>8

LEMMA CrashKeepsCore ==
    ASSUME CoreInv, Crash
    PROVE  CoreInv'
<1>1. Replayed \subseteq Entry /\ IsFiniteSet(Replayed)
  BY ReplayedFinite DEF CoreInv, TypeOK
<1>2. delta' = Replayed /\ commit_ts' = ReplayedTs /\ wal' = wal /\ pc' = "idle"
  BY DEF Crash
<1>3. TypeOK' /\ IsFiniteSet(delta')
  BY <1>1, <1>2, ReplayedTsMax DEF CoreInv, TypeOK, Crash
<1>4. WalOrdered'
  BY <1>2, ReplayedTsMax DEF CoreInv, WalOrdered
<1> QED BY <1>3, <1>4 DEF CoreInv

LEMMA DeltaApplyKeepsCore ==
    ASSUME CoreInv, DeltaApply
    PROVE  CoreInv'
<1>1. Stamp(commit_ts, job) \subseteq Entry /\ IsFiniteSet(Stamp(commit_ts, job))
  BY StampType, StampFinite DEF CoreInv, TypeOK
<1>2. IsFiniteSet(delta') /\ delta' \subseteq Entry
  BY <1>1, FS_Union DEF CoreInv, TypeOK, DeltaApply
<1>3. TypeOK'
  <2>1. txn' \in [Sessions -> Txn \cup {NoTxn}]
    BY DEF CoreInv, TypeOK, DeltaApply
  <2>2. job' \in Seq(Batch) /\ pc' = "idle" /\ owner' = NoSession
    BY DEF DeltaApply
  <2> QED BY <1>2, <2>1, <2>2 DEF CoreInv, TypeOK, DeltaApply
<1>4. WalOrdered'
  BY DEF CoreInv, WalOrdered, DeltaApply
<1> QED BY <1>2, <1>3, <1>4 DEF CoreInv

\* BEGIN, ROLLBACK and the buffering of a batch only touch the session's transaction slot.
LEMMA TxnStepKeepsCore ==
    ASSUME CoreInv, Idle, NEW s \in Sessions,
           \/ Begin(s) \/ Rollback(s)
           \/ \E field \in {"insert", "tombstone"}, b \in Batch : Buffer(s, field, b)
    PROVE  CoreInv'
<1>1. CASE Begin(s)
  <2>1. BeginTxn(commit_ts) \in Txn
    BY DEF BeginTxn, Txn, CoreInv, TypeOK
  <2> QED BY <1>1, <2>1 DEF CoreInv, TypeOK, WalOrdered, Begin
<1>2. CASE Rollback(s)
  BY <1>2 DEF CoreInv, TypeOK, WalOrdered, Rollback
<1>3. ASSUME NEW field \in {"insert", "tombstone"}, NEW b \in Batch, Buffer(s, field, b)
      PROVE  CoreInv'
  <2>1. txn[s] \in Txn /\ txn[s].buffer \in Seq(Batch) /\ txn[s].tombstones \in Seq(Batch)
    BY <1>3, TxnParts DEF Buffer, CoreInv
  <2>2. BufferAppend(txn[s], b) \in Txn /\ TombstoneAppend(txn[s], b) \in Txn
    BY <2>1, AppendTypes
  <2>3. txn' \in [Sessions -> Txn \cup {NoTxn}]
    BY <1>3, <2>2 DEF Buffer, CoreInv, TypeOK
  <2> QED BY <1>3, <2>3 DEF CoreInv, TypeOK, WalOrdered, Buffer
<1> QED BY <1>1, <1>2, <1>3

\* Every step of the engine preserves types and the order of the log.
LEMMA CoreStep ==
    ASSUME "truncate_fails" \notin Allow
    PROVE  CoreInv /\ [Next]_vars => CoreInv'
<1> SUFFICES ASSUME CoreInv, [Next]_vars PROVE CoreInv'
  OBVIOUS
<1>1. CASE UNCHANGED vars
  BY <1>1 DEF vars, CoreInv, TypeOK, WalOrdered
<1>2. ASSUME NEW n \in Names, Idle, n \in DOMAIN snapshots, RestoreTo(snapshots[n])
      PROVE  CoreInv'
  <2>1. snapshots[n] \in Int
    BY <1>2 DEF CoreInv, TypeOK
  <2> QED BY <1>2, <2>1, RestoreKeepsCore
<1>3. ASSUME NEW s \in Sessions, Statement(s)
      PROVE  CoreInv'
  BY <1>2, <1>3, StatementShape, TxnStepKeepsCore, AllocateKeepsCore DEF CoreInv, RestoreSql
<1>4. CASE Admin
  <2>1. ASSUME NEW n \in Names, Snapshot(n)
        PROVE  CoreInv'
    <3>1. DOMAIN snapshots' \subseteq Names /\ snapshots' \in [DOMAIN snapshots' -> Int]
      BY <2>1 DEF Snapshot, CoreInv, TypeOK
    <3> QED BY <2>1, <3>1 DEF CoreInv, TypeOK, WalOrdered, Snapshot
  <2>2. ASSUME NEW n \in Names, AdminRestore(n)
        PROVE  CoreInv'
    BY <1>2, <2>2 DEF AdminRestore
  <2>3. ASSUME NEW ts \in RestoreTargets, AdminRestoreTo(ts)
        PROVE  CoreInv'
    BY <2>3, TargetsAssumption, RestoreKeepsCore DEF AdminRestoreTo
  <2>4. CASE CheckpointCancel
    BY <2>4 DEF CoreInv, TypeOK, WalOrdered, CheckpointCancel
  <2> QED BY <1>4, <2>1, <2>2, <2>3, <2>4, CheckpointTableKeepsCore, CheckpointEndKeepsCore DEF Admin
<1>5. CASE WalFail
  <2>0. wal \in Seq(Record) /\ commit_ts \in Int
    BY DEF CoreInv, TypeOK
  <2>1. \A i \in DOMAIN wal : wal[i].ts \in Int /\ wal[i].ts < commit_ts /\ commit_ts \in Int
    BY <1>5, <2>0, RecordParts DEF CoreInv, WalOrdered, WalFail
  <2>2. \A i \in DOMAIN wal : wal[i].ts <= commit_ts
    BY <2>1
  <2> QED BY <1>5, <2>2 DEF CoreInv, TypeOK, WalOrdered, WalFail
<1> QED BY <1>1, <1>3, <1>4, <1>5, WalWriteKeepsCore, DeltaApplyKeepsCore, CrashKeepsCore DEF Next

\* Type correctness of the engine, whatever behaviours Allow has besides a failing truncate.
THEOREM EngineTypes ==
    ASSUME "truncate_fails" \notin Allow
    PROVE  Spec => []TypeOK
<1>1. CoreInv => TypeOK
  BY DEF CoreInv
<1> QED BY <1>1, CoreInit, CoreStep, PTL DEF Spec

\* The log is in timestamp order and never ahead of the counter, through failed writes,
\* crashes, interrupted checkpoints and restores to any timestamp, as long as no truncate
\* fails: the assumption WAL.truncate's cut at the first newer record and the recovery of
\* the counter rest on.  (A failing truncate leaves the log ahead of the rewound counter.)
THEOREM EngineWalOrdered ==
    ASSUME "truncate_fails" \notin Allow
    PROVE  Spec => []WalOrdered
<1>1. CoreInv => WalOrdered
  BY DEF CoreInv
<1> QED BY <1>1, CoreInit, CoreStep, PTL DEF Spec

----------------------------------------------------------------------------
(***************************************************************************)
(* Isolation: when no session restores from SQL under another's open       *)
(* transaction, commits in flight are newer than every open snapshot and   *)
(* nobody has one while a checkpoint runs.                                 *)
(***************************************************************************)
IsolationInv ==
    /\ \A s \in Sessions : txn[s] # NoTxn => txn[s].snapshot_ts <= commit_ts
    /\ pc \in {"wal", "apply"} =>
         \A s \in Sessions : txn[s] # NoTxn => txn[s].snapshot_ts < commit_ts
    /\ pc = "ckpt" => NoOpenTxn

LEMMA IsolationInit == Init => IsolationInv
BY DEF Init, IsolationInv

LEMMA IsolationStep ==
    ASSUME "truncate_fails" \notin Allow,
           "sql_restore" \notin Allow, CoreInv, IsolationInv, [Next]_vars
    PROVE  IsolationInv'
<1>0. commit_ts \in Int /\ \A s \in Sessions : txn[s] # NoTxn => txn[s].snapshot_ts \in Int
  BY TxnParts DEF CoreInv, TypeOK
<1>1. CASE UNCHANGED vars
  BY <1>1 DEF vars, IsolationInv, NoOpenTxn
<1>2. ASSUME NEW m, Idle, NoOpenTxn, RestoreTo(m)
      PROVE  IsolationInv'
  BY <1>2 DEF RestoreTo, TruncateFails, IsolationInv, NoOpenTxn, Idle
<1>3. ASSUME NEW s \in Sessions, Statement(s)
      PROVE  IsolationInv'
  <2>1. Idle
    BY <1>3, StatementShape DEF CoreInv
  <2>2. CASE Begin(s)
    <3>1. txn' = [txn EXCEPT ![s] = BeginTxn(commit_ts)] /\ commit_ts' = commit_ts /\ pc' = "idle"
          /\ txn \in [Sessions -> Txn \cup {NoTxn}]
      BY <2>1, <2>2 DEF Begin, Idle, CoreInv, TypeOK
    <3>2. BeginTxn(commit_ts).snapshot_ts = commit_ts
      BY DEF BeginTxn
    <3> QED BY <1>0, <3>1, <3>2 DEF IsolationInv
  <2>3. CASE Rollback(s)
    BY <2>1, <2>3 DEF Rollback, IsolationInv, Idle, CoreInv, TypeOK
  <2>4. ASSUME NEW field, NEW b, Buffer(s, field, b)
        PROVE  IsolationInv'
    <3>1. txn[s] \in Txn
      BY <2>4, TxnParts DEF Buffer, CoreInv
    <3>2. BufferAppend(txn[s], b).snapshot_ts = txn[s].snapshot_ts
          /\ TombstoneAppend(txn[s], b).snapshot_ts = txn[s].snapshot_ts
      BY <3>1 DEF BufferAppend, TombstoneAppend, Txn
    <3> QED BY <2>1, <2>4, <3>2 DEF Buffer, IsolationInv, Idle, CoreInv, TypeOK
  <2>5. ASSUME NEW bs, AllocateTs(s, bs)
        PROVE  IsolationInv'
    <3>1. \A u \in Sessions : txn[u] # NoTxn =>
              txn[u].snapshot_ts <= commit_ts + 1 /\ txn[u].snapshot_ts < commit_ts + 1
      BY <1>0 DEF IsolationInv
    <3> QED BY <2>5, <3>1 DEF AllocateTs, IsolationInv
  <2>6. ASSUME NEW n, RestoreSql(s, n)
        PROVE  IsolationInv'
    BY <1>2, <2>6 DEF RestoreSql
  <2>7. TypeOK
    BY DEF CoreInv
  <2> QED BY <1>3, <2>2, <2>3, <2>4, <2>5, <2>6, <2>7, StatementShape
<1>4. CASE Admin
  <2>1. ASSUME NEW n, Snapshot(n)
        PROVE  IsolationInv'
    BY <2>1 DEF Snapshot, IsolationInv, Idle, NoOpenTxn
  <2>2. ASSUME NEW t, CheckpointTable(t)
        PROVE  IsolationInv'
    BY <2>2 DEF CheckpointTable, IsolationInv, Idle, NoOpenTxn
  <2>3. CASE CheckpointEnd \/ CheckpointCancel
    BY <2>3 DEF CheckpointEnd, TruncateFails, CheckpointCancel, IsolationInv, NoOpenTxn
  <2> QED BY <1>2, <1>4, <2>1, <2>2, <2>3 DEF Admin, AdminRestore, AdminRestoreTo
<1>5. CASE WalWrite \/ WalFail
  BY <1>5 DEF WalWrite, WalFail, IsolationInv, NoOpenTxn
<1>6. CASE DeltaApply
  BY <1>6 DEF DeltaApply, IsolationInv, CoreInv, TypeOK
<1>7. CASE Crash
  BY <1>7 DEF Crash, IsolationInv
<1> QED BY <1>1, <1>3, <1>4, <1>5, <1>6, <1>7 DEF Next

\* The step relation that SnapshotFrozen boxes.
FrozenStep ==
    \A s \in Sessions, t \in Tables :
        txn[s] # NoTxn /\ txn'[s] # NoTxn =>
            MergeDelta(t, base'[t], EntriesAt(delta', txn[s].snapshot_ts))
              = CommittedAt(t, txn[s].snapshot_ts)

\* A step that changes neither the base nor the entries up to a snapshot cannot be seen
\* from it.
LEMMA SameEntries ==
    ASSUME base' = base,
           \A s \in Sessions : txn[s] # NoTxn /\ txn'[s] # NoTxn =>
               EntriesAt(delta', txn[s].snapshot_ts) = EntriesAt(delta, txn[s].snapshot_ts)
    PROVE  FrozenStep
BY DEF FrozenStep, CommittedAt

LEMMA FrozenNext ==
    ASSUME "truncate_fails" \notin Allow,
           "sql_restore" \notin Allow, CoreInv, IsolationInv, Next
    PROVE  FrozenStep
<1>1. ASSUME base' = base, delta' = delta
      PROVE  FrozenStep
  BY <1>1, SameEntries
<1>2. ASSUME NoOpenTxn
      PROVE  FrozenStep
  BY <1>2 DEF NoOpenTxn, FrozenStep
<1>3. ASSUME NEW s \in Sessions, Statement(s)
      PROVE  FrozenStep
  <2>1. CASE \E n \in Names : RestoreSql(s, n)
    BY <1>2, <2>1 DEF RestoreSql
  <2>2. CASE \/ Begin(s) \/ Rollback(s)
             \/ \E field \in {"insert", "tombstone"}, b \in Batch : Buffer(s, field, b)
             \/ \E bs \in Seq(Batch) : AllocateTs(s, bs)
    BY <1>1, <2>2 DEF Begin, Rollback, Buffer, AllocateTs
  <2>3. TypeOK
    BY DEF CoreInv
  <2> QED BY <1>3, <2>1, <2>2, <2>3, StatementShape
<1>4. CASE Admin
  <2>1. ASSUME NEW t, CheckpointTable(t)
        PROVE  NoOpenTxn
    BY <2>1 DEF CheckpointTable, IsolationInv
  <2> QED BY <1>1, <1>2, <1>4, <2>1 DEF Admin, Snapshot, AdminRestore, AdminRestoreTo,
                                        CheckpointEnd, TruncateFails, CheckpointCancel
<1>5. CASE WalWrite \/ WalFail
  BY <1>1, <1>5 DEF WalWrite, WalFail
<1>6. CASE DeltaApply
  <2>1. ASSUME NEW s \in Sessions, txn[s] # NoTxn
        PROVE  EntriesAt(delta', txn[s].snapshot_ts) = EntriesAt(delta, txn[s].snapshot_ts)
    <3>1. txn[s].snapshot_ts < commit_ts /\ delta' = delta \cup Stamp(commit_ts, job) /\ base' = base
      BY <1>6, <2>1 DEF DeltaApply, IsolationInv
    <3>2. txn[s].snapshot_ts \in Int /\ commit_ts \in Int
      BY <2>1, TxnParts DEF CoreInv, TypeOK
    <3>3. \A e \in Stamp(commit_ts, job) : e.ts = commit_ts
      BY DEF Stamp
    <3>4. \A e \in Stamp(commit_ts, job) : ~(e.ts <= txn[s].snapshot_ts)
      BY <3>1, <3>2, <3>3
    <3> QED BY <3>1, <3>4 DEF EntriesAt
  <2> QED BY <1>6, <2>1, SameEntries DEF DeltaApply
<1>7. CASE Crash
  BY <1>7 DEF Crash, FrozenStep
<1> QED BY <1>3, <1>4, <1>5, <1>6, <1>7 DEF Next

\* Snapshot isolation: the committed state an open transaction reads never changes, as long
\* as no session restores from SQL while another has a transaction open and no truncate fails.  Checkpoints,
\* cancelled ones too, crashes and admin restores to any timestamp are all allowed.
THEOREM EngineIsolation ==
    ASSUME "truncate_fails" \notin Allow, "sql_restore" \notin Allow
    PROVE  Spec => SnapshotFrozen
<1>1. CoreInv /\ IsolationInv /\ [Next]_vars => (CoreInv /\ IsolationInv)'
  BY CoreStep, IsolationStep
<1>2. CoreInv /\ IsolationInv /\ [Next]_vars => [FrozenStep]_vars
  BY FrozenNext
<1>3. Init => CoreInv /\ IsolationInv
  BY CoreInit, IsolationInit
<1>4. Spec => [][FrozenStep]_vars
  BY <1>1, <1>2, <1>3, PTL DEF Spec
<1> QED BY <1>4 DEF SnapshotFrozen, FrozenStep

----------------------------------------------------------------------------
(***************************************************************************)
(* Durability: memory and log agree.  A checkpoint that is half done has   *)
(* cleared exactly the tables it no longer has to do; every record is      *)
(* newer than 0, so truncate(0) empties the log; the counter and the named *)
(* snapshots stay at or above the last fold.                               *)
(***************************************************************************)
Orderly == {"restore_below", "ckpt_cancel", "ckpt_crash"} \cap Allow = {}

FoldInv ==
    pc = "ckpt" => delta = {e \in Replayed : e.batch.table \in todo} /\ floor = commit_ts

CounterInv ==
    /\ 0 <= floor /\ floor <= commit_ts
    /\ pc = "wal" => 1 <= commit_ts
    /\ \A i \in DOMAIN wal : 1 <= wal[i].ts

SnapInv ==
    \A n \in DOMAIN snapshots :
        snapshots[n] <= commit_ts /\ (pc # "ckpt" => floor <= snapshots[n])

DurableInv == DurableDelta /\ FoldInv /\ CounterInv /\ SnapInv

LEMMA DurableInit == Init => DurableInv
<1> SUFFICES ASSUME Init PROVE DurableInv
  OBVIOUS
<1>1. Replayed = {}
  BY DEF Init, Replayed
<1> QED BY <1>1 DEF Init, DurableInv, DurableDelta, FoldInv, CounterInv, SnapInv

\* Membership in what a replay rebuilds.
LEMMA ReplayedMember ==
    ASSUME NEW e
    PROVE  e \in Replayed <=> \E i \in DOMAIN wal : e \in Stamp(wal[i].ts, wal[i].batches)
BY DEF Replayed

\* A replay depends on the log only.
LEMMA ReplayedSame == wal' = wal => Replayed' = Replayed
BY DEF Replayed

\* A replay of the longer log adds the new commit.
LEMMA ReplayAppend ==
    ASSUME CoreInv, WalWrite
    PROVE  Replayed' = Replayed \cup Stamp(commit_ts, job)
<1>0. wal \in Seq(Record)
  BY DEF CoreInv, TypeOK
<1>1. CASE job = <<>>
  <2>1. wal' = wal
    BY <1>1 DEF WalWrite
  <2>2. Stamp(commit_ts, job) = {}
    BY <1>1 DEF Stamp
  <2> QED BY <2>1, <2>2, ReplayedSame
<1>2. CASE job # <<>>
  <2> DEFINE rec == [ts |-> commit_ts, batches |-> job]
  <2>1. wal' = Append(wal, rec)
    BY <1>2 DEF WalWrite
  <2>2. DOMAIN wal = 1..Len(wal) /\ DOMAIN wal' = 1..(Len(wal) + 1) /\ Len(wal) \in Nat
        /\ wal'[Len(wal) + 1] = rec /\ \A i \in 1..Len(wal) : wal'[i] = wal[i]
    BY <1>0, <2>1
  <2>3. rec.ts = commit_ts /\ rec.batches = job
    OBVIOUS
  <2>4. ASSUME NEW e
        PROVE  (\E i \in DOMAIN wal' : e \in Stamp(wal'[i].ts, wal'[i].batches))
               <=> \/ \E i \in DOMAIN wal : e \in Stamp(wal[i].ts, wal[i].batches)
                   \/ e \in Stamp(commit_ts, job)
    <3>1. \A i \in DOMAIN wal' : i = Len(wal) + 1 \/ i \in DOMAIN wal
      BY <2>2
    <3>2. Len(wal) + 1 \in DOMAIN wal' /\ \A i \in DOMAIN wal : i \in DOMAIN wal'
      BY <2>2
    <3> HIDE DEF rec
    <3> QED BY <2>2, <2>3, <3>1, <3>2
  <2> QED BY <2>4 DEF Replayed
<1> QED BY <1>1, <1>2

\* Cutting the log at m rewinds what a replay rebuilds to m.
LEMMA ReplayTruncated ==
    ASSUME CoreInv, NEW m \in Int, wal' = TruncateWal(m)
    PROVE  Replayed' = {e \in Replayed : e.ts <= m}
<1>0. wal \in Seq(Record) /\ \A i \in 1..Len(wal) : wal[i].ts \in Int
  BY RecordParts DEF CoreInv, TypeOK
<1>1. PICK n \in 0..Len(wal) : /\ TruncateWal(m) = SubSeq(wal, 1, n)
                               /\ \A i \in 1..n : wal[i].ts <= m
                               /\ n < Len(wal) => wal[n + 1].ts > m
  BY <1>0, TruncatePrefix
<1>2. DOMAIN wal' = 1..n /\ DOMAIN wal = 1..Len(wal) /\ \A i \in 1..n : wal'[i] = wal[i]
  BY <1>0, <1>1
<1>3. \A i \in DOMAIN wal : wal[i].ts <= m <=> i \in 1..n
  <2> TAKE i \in DOMAIN wal
  <2>1. CASE i \in 1..n
    BY <1>1, <2>1
  <2>2. CASE i \notin 1..n
    <3>1. n < Len(wal) /\ n + 1 \in 1..Len(wal) /\ i \in 1..Len(wal) /\ (i = n + 1 \/ n + 1 < i)
      BY <1>2, <2>2
    <3>2. n + 1 < i => wal[n + 1].ts < wal[i].ts
      BY <1>2, <3>1 DEF CoreInv, WalOrdered
    <3>3. wal[n + 1].ts \in Int /\ wal[i].ts \in Int /\ wal[n + 1].ts > m
      BY <1>0, <1>1, <3>1
    <3> QED BY <2>2, <3>1, <3>2, <3>3
  <2> QED BY <2>1, <2>2
<1>4. \A i \in DOMAIN wal : \A e \in Stamp(wal[i].ts, wal[i].batches) : e.ts = wal[i].ts
  BY DEF Stamp
<1>5. ASSUME NEW e
      PROVE  (\E i \in 1..n : e \in Stamp(wal[i].ts, wal[i].batches))
             <=> e \in Replayed /\ e.ts <= m
  <2>1. 1..n \subseteq DOMAIN wal
    BY <1>2
  <2> QED BY <1>3, <1>4, <2>1, ReplayedMember
<1>6. ASSUME NEW e
      PROVE  e \in Replayed' <=> \E i \in 1..n : e \in Stamp(wal[i].ts, wal[i].batches)
  BY <1>2 DEF Replayed
<1> QED BY <1>5, <1>6

\* A restore to a timestamp at or above the last fold.
LEMMA RestoreKeepsDurable ==
    ASSUME "truncate_fails" \notin Allow,
           CoreInv, DurableInv, Idle, NEW m \in Int, floor <= m, RestoreTo(m)
    PROVE  DurableInv'
<1>1. wal' = TruncateWal(m) /\ commit_ts' = m /\ pc' = "idle" /\ floor' = floor
      /\ delta' = {e \in delta : e.ts <= m} /\ floor \in Int
  BY DEF RestoreTo, TruncateFails, Rewind, Idle, CoreInv, TypeOK
<1>2. Replayed' = {e \in Replayed : e.ts <= m}
  BY <1>1, ReplayTruncated
<1>3. DurableDelta' /\ FoldInv'
  BY <1>1, <1>2 DEF DurableInv, DurableDelta, FoldInv, Idle
<1>4. CounterInv'
  <2>1. PICK n \in 0..Len(wal) : TruncateWal(m) = SubSeq(wal, 1, n)
    BY TruncatePrefix DEF CoreInv, TypeOK
  <2>2. DOMAIN wal' = 1..n /\ \A i \in 1..n : i \in DOMAIN wal /\ wal'[i] = wal[i]
    BY <1>1, <2>1 DEF CoreInv, TypeOK
  <2> QED BY <1>1, <2>2 DEF DurableInv, CounterInv
<1>5. SnapInv'
  <2>1. \A n \in DOMAIN snapshots' : n \in DOMAIN snapshots /\ snapshots'[n] = snapshots[n]
                                     /\ snapshots[n] <= m
    BY DEF RestoreTo, TruncateFails
  <2> QED BY <1>1, <2>1 DEF DurableInv, SnapInv, Idle
<1> QED BY <1>3, <1>4, <1>5 DEF DurableInv

\* A table is folded: its entries leave the delta and stay in the log.
LEMMA CheckpointTableKeepsDurable ==
    ASSUME CoreInv, DurableInv, NEW t \in Tables, CheckpointTable(t)
    PROVE  DurableInv'
<1>1. wal' = wal /\ Replayed' = Replayed /\ pc' = "ckpt" /\ commit_ts' = commit_ts
      /\ floor' = commit_ts /\ snapshots' = snapshots /\ delta' = {e \in delta : e.batch.table # t}
      /\ commit_ts \in Int /\ floor \in Int
  BY ReplayedSame DEF CheckpointTable, Clear, CoreInv, TypeOK
<1>2. delta' = {e \in Replayed : e.batch.table \in todo'}
  <2>1. CASE Idle /\ todo' = DeltaTables(delta) \ {t}
    <3>1. Replayed = delta
      BY <2>1 DEF DurableInv, DurableDelta, Idle
    <3> QED BY <1>1, <2>1, <3>1 DEF DeltaTables
  <2>2. CASE pc = "ckpt" /\ todo' = todo \ {t}
    BY <1>1, <2>2 DEF DurableInv, FoldInv
  <2> QED BY <2>1, <2>2 DEF CheckpointTable
<1>3. CounterInv'
  BY <1>1 DEF DurableInv, CounterInv
<1> QED BY <1>1, <1>2, <1>3 DEF DurableInv, DurableDelta, FoldInv, SnapInv

\* When every table is folded the delta is empty, and truncate(0) empties the log.
LEMMA CheckpointEndKeepsDurable ==
    ASSUME "truncate_fails" \notin Allow, CoreInv, DurableInv, CheckpointEnd
    PROVE  DurableInv'
<1>1. wal' = TruncateWal(0) /\ pc = "ckpt" /\ pc' = "idle" /\ commit_ts' = commit_ts
      /\ floor' = floor /\ delta' = delta /\ todo = {}
  BY DEF CheckpointEnd, TruncateFails
<1>2. delta = {} /\ floor = commit_ts /\ 0 <= floor /\ commit_ts \in Int
  BY <1>1 DEF DurableInv, FoldInv, CounterInv, CoreInv, TypeOK
<1>3. wal' = <<>>
  <2>1. wal \in Seq(Record) /\ 0 \in Int
    BY DEF CoreInv, TypeOK
  <2>2. PICK n \in 0..Len(wal) : /\ TruncateWal(0) = SubSeq(wal, 1, n)
                                 /\ \A i \in 1..n : wal[i].ts <= 0
    BY <2>1, TruncatePrefix, Zenon
  <2>3. \A i \in 1..Len(wal) : wal[i].ts \in Int /\ 1 <= wal[i].ts
    BY <2>1, RecordParts DEF DurableInv, CounterInv
  <2>4. n = 0
    <3> SUFFICES ASSUME n # 0 PROVE FALSE
      OBVIOUS
    <3>1. 1 \in 1..n /\ 1 \in 1..Len(wal)
      BY <2>1
    <3>2. wal[1].ts <= 0
      BY <2>2, <3>1
    <3>3. wal[1].ts \in Int /\ 1 <= wal[1].ts
      BY <2>3, <3>1
    <3> QED BY <3>2, <3>3
  <2> QED BY <1>1, <2>1, <2>2, <2>4
<1>4. Replayed' = {}
  BY <1>3 DEF Replayed
<1>5. DurableDelta' /\ FoldInv' /\ CounterInv'
  BY <1>1, <1>2, <1>3, <1>4 DEF DurableInv, DurableDelta, FoldInv, CounterInv
<1>6. SnapInv'
  <2>1. \A n \in DOMAIN snapshots' : n \in DOMAIN snapshots /\ snapshots'[n] = snapshots[n]
                                     /\ snapshots[n] >= commit_ts /\ snapshots[n] \in Int
    BY DEF CheckpointEnd, TruncateFails, CoreInv, TypeOK
  <2> QED BY <1>1, <1>2, <2>1 DEF DurableInv, SnapInv
<1> QED BY <1>5, <1>6 DEF DurableInv

\* The steps of a commit: the log is ahead of memory by exactly the commit in flight.
LEMMA CommitKeepsDurable ==
    ASSUME CoreInv, DurableInv,
           \/ Idle /\ \E s, bs : AllocateTs(s, bs)
           \/ WalWrite \/ WalFail \/ DeltaApply
    PROVE  DurableInv'
<1>0. commit_ts \in Int /\ floor \in Int /\ snapshots \in [DOMAIN snapshots -> Int]
  BY DEF CoreInv, TypeOK
<1>1. ASSUME Idle, NEW s, NEW bs, AllocateTs(s, bs)
      PROVE  DurableInv'
  <2>1. DurableDelta' /\ FoldInv'
    BY <1>1, ReplayedSame DEF AllocateTs, Idle, DurableInv, DurableDelta, FoldInv
  <2>2. CounterInv'
    BY <1>0, <1>1 DEF AllocateTs, DurableInv, CounterInv
  <2>3. SnapInv'
    BY <1>0, <1>1 DEF AllocateTs, Idle, DurableInv, SnapInv
  <2> QED BY <2>1, <2>2, <2>3 DEF DurableInv
<1>2. CASE WalWrite
  <2>1. DurableDelta' /\ FoldInv'
    BY <1>2, ReplayAppend DEF WalWrite, DurableInv, DurableDelta, FoldInv
  <2>2. CounterInv'
    <3>1. CASE job = <<>>
      BY <1>2, <3>1 DEF WalWrite, DurableInv, CounterInv
    <3>2. CASE job # <<>>
      <4> DEFINE rec == [ts |-> commit_ts, batches |-> job]
      <4>1. wal' = Append(wal, rec) /\ wal \in Seq(Record) /\ rec \in Record
        BY <1>2, <3>2 DEF WalWrite, CoreInv, TypeOK, Record
      <4>2. \A i \in DOMAIN wal' : wal'[i] = rec \/ (i \in DOMAIN wal /\ wal'[i] = wal[i])
        <5> HIDE DEF rec
        <5> QED BY <4>1
      <4>3. rec.ts = commit_ts /\ 1 <= commit_ts
        BY <1>2 DEF WalWrite, DurableInv, CounterInv
      <4> HIDE DEF rec
      <4> QED BY <1>2, <4>2, <4>3 DEF WalWrite, DurableInv, CounterInv
    <3> QED BY <3>1, <3>2
  <2>3. SnapInv'
    BY <1>2 DEF WalWrite, DurableInv, SnapInv
  <2> QED BY <2>1, <2>2, <2>3 DEF DurableInv
<1>3. CASE WalFail
  BY <1>3, ReplayedSame DEF WalFail, DurableInv, DurableDelta, FoldInv, CounterInv, SnapInv
<1>4. CASE DeltaApply
  BY <1>4, ReplayedSame DEF DeltaApply, DurableInv, DurableDelta, FoldInv, CounterInv, SnapInv
<1> QED BY <1>1, <1>2, <1>3, <1>4

\* Every step preserves the agreement of memory and log.
LEMMA DurableStep ==
    ASSUME "truncate_fails" \notin Allow, Orderly, CoreInv, DurableInv, [Next]_vars
    PROVE  DurableInv'
<1>0. commit_ts \in Int /\ floor \in Int /\ snapshots \in [DOMAIN snapshots -> Int] /\ TypeOK
  BY DEF CoreInv, TypeOK
<1>1. ASSUME wal' = wal, delta' = delta, commit_ts' = commit_ts, snapshots' = snapshots,
             pc' = pc, job' = job, todo' = todo, floor' = floor
      PROVE  DurableInv'
  BY <1>1, ReplayedSame DEF DurableInv, DurableDelta, FoldInv, CounterInv, SnapInv
<1>2. ASSUME NEW n \in Names, Idle, n \in DOMAIN snapshots, RestoreTo(snapshots[n])
      PROVE  DurableInv'
  <2>1. snapshots[n] \in Int /\ floor <= snapshots[n]
    BY <1>0, <1>2 DEF DurableInv, SnapInv, Idle
  <2> QED BY <1>2, <2>1, RestoreKeepsDurable
<1>3. ASSUME NEW s \in Sessions, Statement(s)
      PROVE  DurableInv'
  <2>1. CASE \/ Begin(s) \/ Rollback(s)
             \/ \E field \in {"insert", "tombstone"}, b \in Batch : Buffer(s, field, b)
    BY <1>1, <2>1 DEF Begin, Rollback, Buffer
  <2>2. CASE \E n \in Names : RestoreSql(s, n)
    BY <1>2, <2>2 DEF RestoreSql
  <2>3. CASE Idle /\ \E bs \in Seq(Batch) : AllocateTs(s, bs)
    BY <2>3, CommitKeepsDurable
  <2> QED BY <1>0, <1>3, <2>1, <2>2, <2>3, StatementShape
<1>4. CASE Admin
  <2>1. ASSUME NEW n \in Names, Snapshot(n)
        PROVE  DurableInv'
    <3>1. DurableDelta' /\ FoldInv' /\ CounterInv'
      BY <2>1, ReplayedSame DEF Snapshot, DurableInv, DurableDelta, FoldInv, CounterInv
    <3>2. SnapInv'
      BY <1>0, <2>1 DEF Snapshot, Idle, DurableInv, SnapInv, CounterInv
    <3> QED BY <3>1, <3>2 DEF DurableInv
  <2>2. ASSUME NEW n \in Names, AdminRestore(n)
        PROVE  DurableInv'
    BY <1>2, <2>2 DEF AdminRestore
  <2>3. ASSUME NEW ts \in RestoreTargets, AdminRestoreTo(ts)
        PROVE  DurableInv'
    <3>1. ts \in Int /\ Idle /\ floor <= ts /\ RestoreTo(ts)
      BY <1>0, <2>3, TargetsAssumption DEF AdminRestoreTo, Orderly
    <3> QED BY <3>1, RestoreKeepsDurable
  <2>4. ~CheckpointCancel
    BY DEF CheckpointCancel, Orderly
  <2> QED BY <1>4, <2>1, <2>2, <2>3, <2>4,
             CheckpointTableKeepsDurable, CheckpointEndKeepsDurable DEF Admin
<1>5. CASE Crash
  <2>1. pc # "ckpt" /\ pc' = "idle" /\ wal' = wal /\ delta' = Replayed /\ floor' = 0
        /\ commit_ts' = ReplayedTs /\ DOMAIN snapshots' = {}
    BY <1>5 DEF Crash, Orderly
  <2>2. Replayed' = delta'
    BY <2>1, ReplayedSame
  <2>3. CounterInv'
    BY <2>1, ReplayedTsMax DEF DurableInv, CounterInv
  <2> QED BY <2>1, <2>2, <2>3 DEF DurableInv, DurableDelta, FoldInv, SnapInv
<1>6. CASE UNCHANGED vars
  BY <1>1, <1>6 DEF vars
<1> QED BY <1>3, <1>4, <1>5, <1>6, CommitKeepsDurable DEF Next

\* Durability and atomicity of commits and restores: a restart rebuilds exactly what readers
\* see, or that plus the whole commit in flight, as long as no checkpoint is interrupted
\* between two tables, restore_to is not asked for a timestamp before the last one and no
\* truncate fails.
THEOREM EngineDurable ==
    ASSUME "truncate_fails" \notin Allow, Orderly
    PROVE  Spec => []DurableDelta
<1>1. CoreInv /\ DurableInv /\ [Next]_vars => (CoreInv /\ DurableInv)'
  BY CoreStep, DurableStep
<1>2. Init => CoreInv /\ DurableInv
  BY CoreInit, DurableInit
<1>3. DurableInv => DurableDelta
  BY DEF DurableInv
<1> QED BY <1>1, <1>2, <1>3, PTL DEF Spec

\* Every named snapshot can be restored exactly, under the same conditions: it lies between
\* the last fold and the counter, so _restore_to's "already discarded" guard never fires.
THEOREM EngineSnapshotsReachable ==
    ASSUME "truncate_fails" \notin Allow, Orderly
    PROVE  Spec => []SnapshotsReachable
<1>1. CoreInv /\ DurableInv /\ [Next]_vars => (CoreInv /\ DurableInv)'
  BY CoreStep, DurableStep
<1>2. Init => CoreInv /\ DurableInv
  BY CoreInit, DurableInit
<1>3. DurableInv => SnapshotsReachable
  BY DEF DurableInv, CounterInv, SnapInv, SnapshotsReachable
<1> QED BY <1>1, <1>2, <1>3, PTL DEF Spec

----------------------------------------------------------------------------
(***************************************************************************)
(* Nothing visible is lost, whatever Allow contains: the log covers the    *)
(* delta, and when a checkpoint reaches its truncate(0) the delta is empty.*)
(***************************************************************************)
CoveredInv ==
    /\ NothingVisibleLost
    /\ pc = "apply" => Stamp(commit_ts, job) \subseteq Replayed
    /\ pc = "ckpt" => \A e \in delta : e.batch.table \in todo

LEMMA CoveredInit == Init => CoveredInv
BY DEF Init, CoveredInv, NothingVisibleLost

LEMMA CoveredStep ==
    ASSUME "truncate_fails" \notin Allow, CoreInv, CoveredInv, [Next]_vars
    PROVE  CoveredInv'
<1>0. TypeOK
  BY DEF CoreInv
<1>1. ASSUME wal' = wal, delta' = delta, pc' \in {"idle", "wal"}
      PROVE  CoveredInv'
  BY <1>1, ReplayedSame DEF CoveredInv, NothingVisibleLost
<1>2. ASSUME NEW m \in Int, Idle, RestoreTo(m)
      PROVE  CoveredInv'
  <2>1. Replayed' = {e \in Replayed : e.ts <= m} /\ delta' = {e \in delta : e.ts <= m} /\ pc' = "idle"
    BY <1>2, ReplayTruncated DEF RestoreTo, TruncateFails, Rewind, Idle
  <2> QED BY <2>1 DEF CoveredInv, NothingVisibleLost
<1>3. ASSUME NEW n \in Names, Idle, n \in DOMAIN snapshots, RestoreTo(snapshots[n])
      PROVE  CoveredInv'
  <2>1. snapshots[n] \in Int
    BY <1>0, <1>3 DEF TypeOK
  <2> QED BY <1>2, <1>3, <2>1
<1>4. ASSUME NEW s \in Sessions, Statement(s)
      PROVE  CoveredInv'
  <2>1. CASE \/ Begin(s) \/ Rollback(s)
             \/ \E field \in {"insert", "tombstone"}, b \in Batch : Buffer(s, field, b)
             \/ \E bs \in Seq(Batch) : AllocateTs(s, bs)
    <3>1. Idle
      BY <1>0, <1>4, StatementShape
    <3> QED BY <1>1, <2>1, <3>1 DEF Begin, Rollback, Buffer, AllocateTs, Idle
  <2>2. CASE \E n \in Names : RestoreSql(s, n)
    BY <1>3, <2>2 DEF RestoreSql
  <2> QED BY <1>0, <1>4, <2>1, <2>2, StatementShape
<1>5. CASE Admin
  <2>1. ASSUME NEW n \in Names, Snapshot(n) \/ AdminRestore(n)
        PROVE  CoveredInv'
    BY <1>1, <1>3, <2>1 DEF Snapshot, AdminRestore, Idle
  <2>2. ASSUME NEW ts \in RestoreTargets, AdminRestoreTo(ts)
        PROVE  CoveredInv'
    BY <1>2, <2>2, TargetsAssumption DEF AdminRestoreTo
  <2>3. ASSUME NEW t \in Tables, CheckpointTable(t)
        PROVE  CoveredInv'
    <3>1. wal' = wal /\ pc' = "ckpt" /\ delta' = {e \in delta : e.batch.table # t}
      BY <2>3 DEF CheckpointTable, Clear
    <3>2. todo' = DeltaTables(delta) \ {t} \/ (pc = "ckpt" /\ todo' = todo \ {t})
      BY <2>3 DEF CheckpointTable
    <3>3. \A e \in delta' : e.batch.table \in todo'
      BY <3>1, <3>2 DEF CoveredInv, DeltaTables
    <3> QED BY <3>1, <3>3, ReplayedSame DEF CoveredInv, NothingVisibleLost
  <2>4. CASE CheckpointEnd
    BY <2>4 DEF CheckpointEnd, TruncateFails, CoveredInv, NothingVisibleLost
  <2>5. CASE CheckpointCancel
    BY <1>1, <2>5 DEF CheckpointCancel
  <2> QED BY <1>5, <2>1, <2>2, <2>3, <2>4, <2>5 DEF Admin
<1>6. CASE WalWrite
  BY <1>6, ReplayAppend DEF WalWrite, CoveredInv, NothingVisibleLost
<1>7. CASE WalFail
  BY <1>1, <1>7 DEF WalFail
<1>8. CASE DeltaApply
  BY <1>8, ReplayedSame DEF DeltaApply, CoveredInv, NothingVisibleLost
<1>9. CASE Crash
  BY <1>9, ReplayedSame DEF Crash, CoveredInv, NothingVisibleLost
<1>10. CASE UNCHANGED vars
  BY <1>10, ReplayedSame DEF vars, CoveredInv, NothingVisibleLost
<1> QED BY <1>4, <1>5, <1>6, <1>7, <1>8, <1>9, <1>10 DEF Next

\* No committed batch a reader can see is missing from the log, whatever behaviours Allow has
\* besides a failing truncate: interrupted checkpoints and restores to any timestamp included.
THEOREM EngineNothingLost ==
    ASSUME "truncate_fails" \notin Allow
    PROVE  Spec => []NothingVisibleLost
<1>1. CoreInv /\ CoveredInv /\ [Next]_vars => (CoreInv /\ CoveredInv)'
  BY CoreStep, CoveredStep
<1>2. Init => CoreInv /\ CoveredInv
  BY CoreInit, CoveredInit
<1>3. CoveredInv => NothingVisibleLost
  BY DEF CoveredInv
<1> QED BY <1>1, <1>2, <1>3, PTL DEF Spec

----------------------------------------------------------------------------
(***************************************************************************)
(* A record stores its timestamp unsigned, so whatever restore_to was      *)
(* asked for, no record and hence no visible batch has a negative one.     *)
(***************************************************************************)
SignInv == \A i \in DOMAIN wal : wal[i].ts >= 0

LEMMA TruncateKeepsSign ==
    ASSUME CoreInv, SignInv, NEW m \in Int, wal' = TruncateWal(m)
    PROVE  SignInv'
<1>1. PICK n \in 0..Len(wal) : TruncateWal(m) = SubSeq(wal, 1, n)
  BY TruncatePrefix DEF CoreInv, TypeOK
<1>2. wal \in Seq(Record)
  BY DEF CoreInv, TypeOK
<1>3. \A i \in DOMAIN wal' : i \in DOMAIN wal /\ wal'[i] = wal[i]
  BY <1>1, <1>2
<1> QED BY <1>3 DEF SignInv

LEMMA SignStep ==
    ASSUME "truncate_fails" \notin Allow, CoreInv, SignInv, [Next]_vars
    PROVE  SignInv'
<1>0. TypeOK
  BY DEF CoreInv
<1>1. ASSUME wal' = wal
      PROVE  SignInv'
  BY <1>1 DEF SignInv
<1>2. ASSUME NEW n \in Names, n \in DOMAIN snapshots, RestoreTo(snapshots[n])
      PROVE  SignInv'
  <2>1. snapshots[n] \in Int
    BY <1>0, <1>2 DEF TypeOK
  <2> QED BY <1>2, <2>1, TruncateKeepsSign DEF RestoreTo, TruncateFails
<1>3. ASSUME NEW s \in Sessions, Statement(s)
      PROVE  SignInv'
  BY <1>0, <1>1, <1>2, <1>3, StatementShape DEF Begin, Rollback, Buffer, AllocateTs, RestoreSql
<1>4. CASE Admin
  <2>1. ASSUME NEW n \in Names, Snapshot(n) \/ AdminRestore(n)
        PROVE  SignInv'
    BY <1>1, <1>2, <2>1 DEF Snapshot, AdminRestore
  <2>2. ASSUME NEW ts \in RestoreTargets, AdminRestoreTo(ts)
        PROVE  SignInv'
    BY <2>2, TargetsAssumption, TruncateKeepsSign DEF AdminRestoreTo, RestoreTo, TruncateFails
  <2>3. CASE CheckpointEnd
    BY <2>3, TruncateKeepsSign DEF CheckpointEnd, TruncateFails
  <2> QED BY <1>1, <1>4, <2>1, <2>2, <2>3 DEF Admin, CheckpointTable, CheckpointCancel
<1>5. CASE WalWrite
  <2>1. wal \in Seq(Record) /\ commit_ts \in Int
    BY <1>0 DEF TypeOK
  <2>2. CASE job = <<>>
    BY <1>1, <1>5, <2>2 DEF WalWrite
  <2>3. CASE job # <<>>
    <3> DEFINE rec == [ts |-> commit_ts, batches |-> job]
    <3>1. wal' = Append(wal, rec) /\ rec.ts >= 0
      BY <1>5, <2>3 DEF WalWrite
    <3>2. \A i \in DOMAIN wal' : wal'[i] = rec \/ (i \in DOMAIN wal /\ wal'[i] = wal[i])
      <4> HIDE DEF rec
      <4> QED BY <2>1, <3>1
    <3> QED BY <3>1, <3>2 DEF SignInv
  <2> QED BY <2>2, <2>3
<1> QED BY <1>1, <1>3, <1>4, <1>5 DEF Next, WalFail, DeltaApply, Crash, vars
=============================================================================
