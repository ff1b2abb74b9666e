--------------------------- MODULE StorageProofs ----------------------------
(***************************************************************************)
(* Theorems of Storage, for any tables, files and directories: reads       *)
(* return what was committed, a crash loses nothing, and cached facts are  *)
(* those of the rows they are used with, as long as clients and the disk   *)
(* stay within the guarantees (Allow).                                     *)
(***************************************************************************)
EXTENDS Storage, FiniteSetTheorems, SequenceTheorems, WellFoundedInduction, TLAPS

\* The guarantees: only other sessions beside an open transaction.
Guaranteed == Allow \subseteq {"sessions"}

StTypes ==
    /\ files \in [Files -> Rows \cup {None}]
    /\ tables \in [Names -> Entry \cup {None}] /\ saved = tables
    /\ delta \in [Names -> Seq(Nat)] /\ wal \in [Names -> Seq(Nat)]
    /\ frames \in [Names -> Frame \cup {None}]
    /\ facts \in [Names -> Facts \cup {None}]
    /\ txn \in Txn \cup {None} /\ ts \in Nat /\ ckpt \in Ckpt \cup {None}
    /\ truth \in [Names -> Rows \cup {None}]

\* No row of the delta or of the log is newer than the counter.
Stamped ==
    /\ \A t \in Names : \A i \in DOMAIN delta[t] : delta[t][i] <= ts
    /\ \A t \in Names : \A i \in DOMAIN wal[t] : wal[t][i] <= ts

\* A registered name has a file; any other name has left nothing behind.
Placed == \A t \in Names :
    /\ tables[t] = None <=> truth[t] = None
    /\ tables[t] = None => frames[t] = None /\ facts[t] = None /\ Settled(t)
    /\ tables[t] # None => files[tables[t].path] # None

OwnDirs == \A t \in Names : tables[t] # None => OwnDirectory(t, tables[t].path)

\* The checkpoint has not written over the base file of t.
Intact(t) == ckpt = None \/ ckpt.table # t \/ Final(t) # tables[t].path
\* File and delta of an intact table make up its truth, and a cached frame is its file.
RowsKept == \A t \in Names : tables[t] # None /\ Intact(t) =>
    /\ files[tables[t].path] \o delta[t] = truth[t]
    /\ frames[t] # None => frames[t].rows = files[tables[t].path]

\* The log has the delta; during a checkpoint, that of the tables still to fold, and a
\* published file has all of its table.
LogKept ==
    /\ ckpt = None => wal = delta
    /\ ckpt # None =>
        /\ txn = None
        /\ \A t \in Names : /\ t \in ckpt.todo <=> delta[t] # <<>>
                            /\ t \in ckpt.todo => wal[t] = delta[t]
        /\ ckpt.table # None => /\ ckpt.table \in ckpt.todo
                                /\ files[Final(ckpt.table)] = truth[ckpt.table]

StorageInv == StTypes /\ Stamped /\ Placed /\ OwnDirs /\ RowsKept /\ LogKept

----------------------------------------------------------------------------
(***************************************************************************)
(* Rows, paths and the largest timestamp.                                  *)
(***************************************************************************)

\* A bounded set of numbers has a largest one.
LEMMA BoundedMax ==
    ASSUME NEW S \in SUBSET Nat, S # {}, NEW b \in Nat, \A x \in S : x <= b
    PROVE  Max(S) \in S /\ \A y \in S : Max(S) >= y
<1> DEFINE Above == {n \in Nat : \A x \in S : x <= n}
<1>1. IsWellFoundedOn(OpToRel(<, Nat), Nat)
  BY NatLessThanWellFounded
<1>2. Above \subseteq Nat /\ b \in Above
  OBVIOUS
<1>3. PICK m \in Above : \A n \in Above : ~(<<n, m>> \in OpToRel(<, Nat))
  <2> HIDE DEF Above
  <2> QED BY <1>1, <1>2, WFMin
<1>4. m \in Nat /\ \A x \in S : x <= m
  BY <1>3
<1>5. m \in S
  <2>1. SUFFICES ASSUME m \notin S PROVE FALSE
    OBVIOUS
  <2>2. PICK x \in S : TRUE
    OBVIOUS
  <2>3. x \in Nat /\ x <= m /\ x # m
    BY <1>4, <2>1, <2>2
  <2>4. m - 1 \in Nat /\ m - 1 < m
    BY <1>4, <2>3
  <2>5. ASSUME NEW y \in S PROVE y <= m - 1
    <3>1. y \in Nat /\ y <= m /\ y # m
      BY <1>4, <2>1
    <3> QED BY <1>4, <3>1
  <2>6. m - 1 \in Above
    BY <2>4, <2>5
  <2> HIDE DEF Above
  <2> QED BY <1>3, <1>4, <2>4, <2>6 DEF OpToRel
<1>6. \A y \in S : m >= y
  BY <1>4
<1>7. \E x \in S : \A y \in S : x >= y
  BY <1>5, <1>6
<1> QED BY <1>7 DEF Max

\* A catalog write that succeeds leaves the saved catalog equal to the one in memory.
LEMMA Saves == ASSUME Guaranteed, Save PROVE saved' = tables'
  BY DEF Guaranteed, Save

\* The base file of a table lies in the directory of the file it replaces.
LEMMA FinalFile ==
    ASSUME StTypes, NEW t \in Names, tables[t] # None
    PROVE  /\ tables[t].path \in Files /\ Final(t) \in Files
           /\ DirOf[Final(t)] = DirOf[tables[t].path]
<1>1. tables[t] \in Entry
  BY DEF StTypes
<1>2. tables[t].path \in Files
  BY <1>1 DEF Entry
<1> QED BY <1>2, StorageAssumption DEF Final

LEMMA NatRows == Seq(Nat) \subseteq Rows
  BY DEF Rows

\* Where a checkpoint may stop, it has changed neither the delta nor a base that is in use.
LEMMA StopsIntact ==
    ASSUME StorageInv, Guaranteed, Stoppable
    PROVE  wal = delta /\ \A t \in Names : Intact(t)
<1>1. CASE ckpt = None
  BY <1>1 DEF StorageInv, LogKept, Intact
<1>2. CASE ckpt # None
  <2>1. NothingFolded
    BY <1>2 DEF Stoppable, Guaranteed
  <2>2. ASSUME NEW t \in Names PROVE wal[t] = delta[t]
    <3>1. CASE t \in ckpt.todo
      BY <1>2, <3>1 DEF StorageInv, LogKept
    <3>2. CASE t \notin ckpt.todo
      <4>1. delta[t] = <<>>
        BY <1>2, <3>2 DEF StorageInv, LogKept
      <4>2. wal[t] = <<>>
        BY <2>1, <3>2 DEF NothingFolded
      <4> QED BY <4>1, <4>2
    <3> QED BY <3>1, <3>2
  <2>3. wal = delta
    BY <2>2 DEF StorageInv, StTypes
  <2>4. ASSUME NEW t \in Names PROVE Intact(t)
    BY <2>1, StorageNone DEF NothingFolded, Intact
  <2> QED BY <2>3, <2>4
<1> QED BY <1>1, <1>2

----------------------------------------------------------------------------
(***************************************************************************)
(* Reads.                                                                  *)
(***************************************************************************)

LEMMA InitInv == Init => StorageInv
<1> SUFFICES ASSUME Init PROVE StorageInv
  OBVIOUS
<1>1. StTypes
  <2>1. files \in [Files -> Rows \cup {None}]
    BY DEF Init, Rows
  <2>2. <<>> \in Seq(Nat)
    OBVIOUS
  <2> QED BY <2>1, <2>2 DEF Init, StTypes
<1>2. Stamped
  BY DEF Init, Stamped
<1>3. Placed
  BY DEF Init, Placed, Settled, Buffered
<1>4. OwnDirs /\ RowsKept /\ LogKept
  BY DEF Init, OwnDirs, RowsKept, LogKept
<1> QED BY <1>1, <1>2, <1>3, <1>4 DEF StorageInv

\* A step that only fills or drops caches, of registered tables and from their files.
LEMMA CacheStep ==
    ASSUME StorageInv, Quiet,
           UNCHANGED <<files, tables, saved, delta, wal, txn, ts, ckpt, truth>>,
           frames' \in [Names -> Frame \cup {None}], facts' \in [Names -> Facts \cup {None}],
           \A t \in Names : tables[t] = None => frames'[t] = None /\ facts'[t] = None,
           \A t \in Names : frames'[t] # None => frames'[t].rows = files[tables[t].path]
    PROVE  StorageInv'
<1>1. StTypes'
  BY DEF StorageInv, StTypes
<1>2. Stamped'
  BY DEF StorageInv, Stamped
<1>3. Placed'
  BY DEF StorageInv, Placed, Settled, Buffered
<1>4. OwnDirs'
  BY DEF StorageInv, OwnDirs, OwnDirectory
<1>5. RowsKept'
  BY DEF StorageInv, RowsKept, Intact, Final, Quiet
<1>6. LogKept'
  BY DEF StorageInv, LogKept, Quiet
<1> QED BY <1>1, <1>2, <1>3, <1>4, <1>5, <1>6 DEF StorageInv

\* Between operations the base a read starts from is the file, cached or not.
LEMMA BaseIsFile ==
    ASSUME StorageInv, Quiet, NEW t \in Names, tables[t] # None
    PROVE  /\ Base(t) = files[tables[t].path] /\ files[tables[t].path] \in Rows
           /\ files[tables[t].path] \o delta[t] = truth[t]
<1>1. tables[t].path \in Files
  BY FinalFile DEF StorageInv
<1>2. files[tables[t].path] \in Rows
  BY <1>1 DEF StorageInv, Placed, StTypes
<1> QED BY <1>2 DEF StorageInv, RowsKept, Intact, Quiet, Base

\* The rows up to a timestamp are the first ones, and none of them is newer.
LEMMA UpToPrefix ==
    ASSUME NEW d \in Seq(Nat), NEW n \in Nat
    PROVE  \E c \in 0..Len(d) : /\ UpTo(d, n) = SubSeq(d, 1, c)
                                /\ UpTo(d, n) \in Seq(Nat) /\ Len(UpTo(d, n)) = c
                                /\ \A i \in DOMAIN UpTo(d, n) : UpTo(d, n)[i] <= n
                                /\ (\A i \in DOMAIN d : d[i] <= n) => c = Len(d)
<1> DEFINE S == {i \in DOMAIN d : \A j \in 1..i : d[j] <= n}
           Beyond == {k \in Nat : k >= 1 /\ k \notin S}
<1>1. IsWellFoundedOn(OpToRel(<, Nat), Nat)
  BY NatLessThanWellFounded
<1>2. Beyond \subseteq Nat /\ Len(d) + 1 \in Beyond
  OBVIOUS
<1>3. PICK m \in Beyond : \A k \in Beyond : ~(<<k, m>> \in OpToRel(<, Nat))
  <2> HIDE DEF Beyond
  <2> QED BY <1>1, <1>2, WFMin
<1>4. m \in Nat /\ m >= 1 /\ m \notin S /\ m - 1 \in Nat
  <2>1. m \in Nat /\ m >= 1 /\ m \notin S
    BY Zenon
  <2> QED BY <2>1
<1>5. \A k \in Nat : k >= 1 /\ k < m => k \in S
  BY <1>3, <1>4 DEF OpToRel
<1>6. \A k \in S : k \in Nat /\ k >= 1 /\ k < m
  <2> SUFFICES ASSUME NEW k \in S, k >= m PROVE FALSE
    BY <1>4
  <2>1. k \in 1..Len(d) /\ \A j \in 1..k : d[j] <= n
    OBVIOUS
  <2>2. m \in DOMAIN d /\ \A j \in 1..m : d[j] <= n
    BY <1>4, <2>1
  <2> QED BY <1>4, <2>2
<1>7. S = 1..(m - 1)
  <2>1. \A k \in S : k \in 1..(m - 1)
    BY <1>4, <1>6
  <2>2. \A k \in 1..(m - 1) : k \in S
    BY <1>4, <1>5
  <2> HIDE DEF S
  <2> QED BY <2>1, <2>2
<1>8. Cardinality(S) = m - 1
  <2>1. Cardinality(1..(m - 1)) = m - 1
    BY <1>4, FS_Interval
  <2> QED BY <1>7, <2>1, Zenon
<1>9. m - 1 \in 0..Len(d)
  <2>1. CASE m = 1
    BY <2>1
  <2>2. CASE m # 1
    <3>1. m - 1 \in S
      BY <1>4, <1>5, <2>2
    <3> QED BY <1>4, <3>1
  <2> QED BY <2>1, <2>2
<1>10. UpTo(d, n) = SubSeq(d, 1, m - 1)
  BY <1>8 DEF UpTo
<1>11. \A i \in 1..(m - 1) : d[i] <= n
  <2>1. \A i \in S : i \in Nat /\ i >= 1 /\ d[i] <= n
    OBVIOUS
  <2> QED BY <1>7, <2>1
<1>12. (\A i \in DOMAIN d : d[i] <= n) => m - 1 = Len(d)
  <2> SUFFICES ASSUME \A i \in DOMAIN d : d[i] <= n, m - 1 # Len(d) PROVE FALSE
    OBVIOUS
  <2>1. m \in 1..Len(d)
    BY <1>4, <1>9
  <2>2. m \in S
    BY <2>1
  <2> QED BY <1>4, <2>2
<1> DEFINE c == m - 1  u == SubSeq(d, 1, c)
<1>13. u \in Seq(Nat) /\ Len(u) = c /\ \A i \in 1..c : u[i] = d[i]
  BY <1>4, <1>9
<1>14. \A i \in DOMAIN u : u[i] <= n
  BY <1>11, <1>13
<1> HIDE DEF S, Beyond, c, u
<1>15. c \in 0..Len(d) /\ UpTo(d, n) = u /\ ((\A i \in DOMAIN d : d[i] <= n) => c = Len(d))
  BY <1>9, <1>10, <1>12 DEF c, u
<1> QED BY <1>13, <1>14, <1>15 DEF u

\* What a read sees of a delta is a sequence of its rows.
LEMMA SeenTyped ==
    ASSUME StorageInv, NEW t \in Names
    PROVE  SeenDelta(t) \in Seq(Nat)
<1>1. delta[t] \in Seq(Nat)
  BY DEF StorageInv, StTypes
<1>2. txn # None => txn.snap \in Nat
  BY DEF StorageInv, StTypes, Txn
<1> QED BY <1>1, <1>2, UpToPrefix DEF SeenDelta

LEMMA ViewTyped ==
    ASSUME StorageInv, Quiet, NEW t \in Names, tables[t] # None, NEW own \in BOOLEAN
    PROVE  View(t, own) \in Rows
<1>1. Base(t) \in Rows
  BY BaseIsFile
<1>2. delta[t] \in Rows /\ SeenDelta(t) \in Rows
  BY SeenTyped, NatRows DEF StorageInv, StTypes
<1>3. Buffered(t) \in Rows
  BY DEF StorageInv, StTypes, Buffered, Txn, Rows
<1>4. \A a, b \in Rows : a \o b \in Rows
  BY DEF Rows
<1> QED BY <1>1, <1>2, <1>3, <1>4 DEF View

LEMMA ReadInv ==
    ASSUME StorageInv, NEW t \in Names, NEW own \in BOOLEAN, Read(t, own)
    PROVE  StorageInv'
<1>1. Quiet /\ tables[t] # None /\ UNCHANGED <<files, tables, saved, delta, wal, txn, ts, ckpt, truth>>
  BY DEF Read
<1>2. frames' = [frames EXCEPT ![t] = [rows |-> files[tables[t].path], pending |-> FALSE]]
  BY <1>1, BaseIsFile DEF Read
<1>3. [rows |-> files[tables[t].path], pending |-> FALSE] \in Frame
  BY <1>1, BaseIsFile DEF Frame
<1>4. frames' \in [Names -> Frame \cup {None}]
  BY <1>2, <1>3 DEF StorageInv, StTypes
<1>5. facts' \in [Names -> Facts \cup {None}]
  BY <1>1, ViewTyped DEF StorageInv, StTypes, Read, Facts
<1>6. \A u \in Names : tables[u] = None => frames'[u] = None /\ facts'[u] = None
  BY <1>1, <1>2 DEF StorageInv, StTypes, Placed, Read
<1>7. \A u \in Names : frames'[u] # None => frames'[u].rows = files[tables[u].path]
  BY <1>1, <1>2 DEF StorageInv, StTypes, Placed, RowsKept, Intact, Quiet
<1> QED BY <1>1, <1>4, <1>5, <1>6, <1>7, CacheStep

LEMMA ColdReadInv ==
    ASSUME StorageInv, NEW t \in Names, ColdRead(t)
    PROVE  StorageInv'
<1>1. Quiet /\ tables[t] # None /\ UNCHANGED <<files, tables, saved, delta, wal, facts, txn, ts, ckpt, truth>>
  BY DEF ColdRead
<1>2. PICK p \in BOOLEAN : frames' = [frames EXCEPT ![t] = [rows |-> files[tables[t].path], pending |-> p]]
  BY DEF ColdRead
<1>3. [rows |-> files[tables[t].path], pending |-> p] \in Frame
  BY <1>1, BaseIsFile DEF Frame
<1>4. frames' \in [Names -> Frame \cup {None}]
  BY <1>2, <1>3 DEF StorageInv, StTypes
<1>5. facts' \in [Names -> Facts \cup {None}]
  BY <1>1 DEF StorageInv, StTypes
<1>6. \A u \in Names : tables[u] = None => frames'[u] = None /\ facts'[u] = None
  BY <1>1, <1>2 DEF StorageInv, StTypes, Placed
<1>7. \A u \in Names : frames'[u] # None => frames'[u].rows = files[tables[u].path]
  BY <1>1, <1>2 DEF StorageInv, StTypes, Placed, RowsKept, Intact, Quiet
<1> QED BY <1>1, <1>4, <1>5, <1>6, <1>7, CacheStep

LEMMA ClearCacheInv ==
    ASSUME StorageInv, NEW scan \in BOOLEAN, NEW code \in BOOLEAN, ClearCache(scan, code)
    PROVE  StorageInv'
<1>1. Quiet /\ UNCHANGED <<files, tables, saved, delta, wal, txn, ts, ckpt, truth>>
  BY DEF ClearCache
<1>2. frames' \in [Names -> Frame \cup {None}] /\ facts' \in [Names -> Facts \cup {None}]
  BY DEF StorageInv, StTypes, ClearCache
<1>3. \A u \in Names : tables[u] = None => frames'[u] = None /\ facts'[u] = None
  BY DEF StorageInv, StTypes, Placed, ClearCache
<1>4. \A u \in Names : frames'[u] # None => frames'[u].rows = files[tables[u].path]
  BY <1>1 DEF StorageInv, StTypes, Placed, RowsKept, Intact, Quiet, ClearCache
<1> QED BY <1>1, <1>2, <1>3, <1>4, CacheStep

----------------------------------------------------------------------------
(***************************************************************************)
(* The catalog.                                                            *)
(***************************************************************************)

\* A new name gets a file of a directory no table has; every other file a table has stays.
LEMMA EntryStep ==
    ASSUME StorageInv, Guaranteed, NEW t \in Names, NEW f \in Files, NEW rows \in Rows,
           Quiet, tables[t] = None, OwnDirectory(t, f), RegisterEntry(t, f),
           files' = [files EXCEPT ![f] = rows],
           truth' = [truth EXCEPT ![t] = rows],
           UNCHANGED <<delta, wal, frames, facts, txn, ts, ckpt>>
    PROVE  StorageInv'
<1> DEFINE e == [path |-> f, cons |-> {}]
<1>1. tables' = [tables EXCEPT ![t] = e] /\ saved' = tables'
  BY Saves DEF RegisterEntry, StorageInv, StTypes
<1>2. e \in Entry /\ e # None /\ e.path = f
  BY StorageNone DEF Entry
<1>3. \A u \in Names : tables'[u] = IF u = t THEN e ELSE tables[u]
  BY <1>1 DEF StorageInv, StTypes
<1>4. \A u \in Names : truth'[u] = IF u = t THEN rows ELSE truth[u]
  BY DEF StorageInv, StTypes
<1>5. rows # None /\ files'[f] = rows
  BY StorageNone DEF StorageInv, StTypes
<1>6. \A u \in Names : u # t /\ tables[u] # None => /\ DirOf[tables[u].path] # DirOf[f]
                                                    /\ files'[tables[u].path] = files[tables[u].path]
  <2> SUFFICES ASSUME NEW u \in Names, u # t, tables[u] # None
               PROVE  /\ DirOf[tables[u].path] # DirOf[f]
                      /\ files'[tables[u].path] = files[tables[u].path]
    OBVIOUS
  <2>1. DirOf[tables[u].path] # DirOf[f]
    BY DEF OwnDirectory
  <2>2. tables[u].path \in Files /\ tables[u].path # f
    BY <2>1, FinalFile DEF StorageInv
  <2> QED BY <2>1, <2>2 DEF StorageInv, StTypes
<1> HIDE DEF e
<1>7. StTypes'
  BY <1>1, <1>2 DEF StorageInv, StTypes
<1>8. Stamped'
  BY DEF StorageInv, Stamped
<1>9. Placed'
  BY <1>2, <1>3, <1>4, <1>5, <1>6 DEF StorageInv, Placed, Settled, Buffered
<1>10. OwnDirs'
  BY <1>2, <1>3, <1>6 DEF StorageInv, OwnDirs, OwnDirectory
<1>11. RowsKept'
  <2> SUFFICES ASSUME NEW u \in Names, tables'[u] # None
               PROVE  /\ files'[tables'[u].path] \o delta[u] = truth'[u]
                      /\ frames[u] # None => frames[u].rows = files'[tables'[u].path]
    BY DEF RowsKept
  <2>1. CASE u = t
    <3>1. delta[t] = <<>> /\ frames[t] = None
      BY DEF StorageInv, Placed, Settled
    <3>2. rows \o <<>> = rows
      BY DEF Rows
    <3> QED BY <1>2, <1>3, <1>4, <1>5, <2>1, <3>1, <3>2
  <2>2. CASE u # t
    <3>1. tables'[u] = tables[u] /\ truth'[u] = truth[u] /\ files'[tables[u].path] = files[tables[u].path]
      BY <1>3, <1>4, <1>6, <2>2
    <3>2. Intact(u)
      BY DEF Intact, Quiet
    <3> QED BY <3>1, <3>2 DEF StorageInv, RowsKept
  <2> QED BY <2>1, <2>2
<1>12. LogKept'
  BY DEF StorageInv, LogKept, Quiet
<1> QED BY <1>7, <1>8, <1>9, <1>10, <1>11, <1>12 DEF StorageInv

LEMMA RegisterInv ==
    ASSUME StorageInv, Guaranteed, NEW t \in Names, NEW f \in Sources, Register(t, f)
    PROVE  StorageInv'
<1>1. f \in Files
  BY StorageAssumption
<1>2. files[f] \in Rows /\ files' = [files EXCEPT ![f] = files[f]]
  BY <1>1 DEF Register, StorageInv, StTypes
<1>3. Quiet /\ tables[t] = None /\ OwnDirectory(t, f) /\ RegisterEntry(t, f)
  BY DEF Register, Guaranteed
<1>4. truth' = [truth EXCEPT ![t] = files[f]] /\ UNCHANGED <<delta, wal, frames, facts, txn, ts, ckpt>>
  BY DEF Register
<1> QED BY <1>1, <1>2, <1>3, <1>4, EntryStep

LEMMA UploadInv ==
    ASSUME StorageInv, Guaranteed, NEW t \in Names, NEW f \in Uploads, Upload(t, f)
    PROVE  StorageInv'
<1>1. f \in Files
  BY StorageAssumption
<1>2. <<f>> \in Rows
  BY <1>1 DEF Rows
<1>3. Quiet /\ tables[t] = None /\ OwnDirectory(t, f) /\ RegisterEntry(t, f)
  BY DEF Upload, Guaranteed
<1>4. /\ files' = [files EXCEPT ![f] = <<f>>] /\ truth' = [truth EXCEPT ![t] = <<f>>]
      /\ UNCHANGED <<delta, wal, frames, facts, txn, ts, ckpt>>
  BY DEF Upload
<1> QED BY <1>1, <1>2, <1>3, <1>4, EntryStep

LEMMA DropInv ==
    ASSUME StorageInv, Guaranteed, NEW t \in Names, Drop(t)
    PROVE  StorageInv'
<1>1. /\ tables' = [tables EXCEPT ![t] = None] /\ saved' = tables'
      /\ frames' = [frames EXCEPT ![t] = None] /\ facts' = [facts EXCEPT ![t] = None]
      /\ truth' = [truth EXCEPT ![t] = None] /\ Settled(t) /\ Quiet
      /\ UNCHANGED <<files, delta, wal, txn, ts, ckpt>>
  BY Saves DEF Drop, DropCaches, Guaranteed
<1>2. StTypes'
  BY <1>1 DEF StorageInv, StTypes
<1>3. Stamped'
  BY <1>1 DEF StorageInv, Stamped
<1>4. \A u \in Names : /\ tables'[u] = (IF u = t THEN None ELSE tables[u])
                        /\ truth'[u] = (IF u = t THEN None ELSE truth[u])
                        /\ frames'[u] = (IF u = t THEN None ELSE frames[u])
                        /\ facts'[u] = (IF u = t THEN None ELSE facts[u])
  BY <1>1 DEF StorageInv, StTypes
<1>5. Placed'
  BY <1>1, <1>4 DEF StorageInv, Placed, Settled, Buffered
<1>6. OwnDirs'
  BY <1>4 DEF StorageInv, OwnDirs, OwnDirectory
<1>7. RowsKept'
  <2> SUFFICES ASSUME NEW u \in Names, tables'[u] # None
               PROVE  /\ files[tables'[u].path] \o delta[u] = truth'[u]
                      /\ frames'[u] # None => frames'[u].rows = files[tables'[u].path]
    BY <1>1 DEF RowsKept
  <2>1. tables'[u] = tables[u] /\ truth'[u] = truth[u] /\ frames'[u] = frames[u]
    BY <1>4
  <2>2. Intact(u)
    BY <1>1 DEF Intact, Quiet
  <2> QED BY <2>1, <2>2 DEF StorageInv, RowsKept
<1>8. LogKept'
  BY <1>1 DEF StorageInv, LogKept, Quiet
<1> QED BY <1>2, <1>3, <1>5, <1>6, <1>7, <1>8 DEF StorageInv

LEMMA RenameInv ==
    ASSUME StorageInv, Guaranteed, NEW t \in Names, NEW u \in Names, Rename(t, u)
    PROVE  StorageInv'
<1>1. /\ tables' = [tables EXCEPT ![t] = None, ![u] = tables[t]] /\ saved' = tables'
      /\ frames' = [frames EXCEPT ![t] = None] /\ facts' = [facts EXCEPT ![t] = None]
      /\ truth' = [truth EXCEPT ![t] = None, ![u] = truth[t]]
      /\ Settled(t) /\ Settled(u) /\ Quiet /\ tables[t] # None /\ tables[u] = None /\ t # u
      /\ UNCHANGED <<files, delta, wal, txn, ts, ckpt>>
  BY Saves DEF Rename, DropCaches, Guaranteed
<1>2. StTypes'
  BY <1>1 DEF StorageInv, StTypes
<1>3. Stamped'
  BY <1>1 DEF StorageInv, Stamped
<1>4. \A v \in Names : /\ tables'[v] = (IF v = u THEN tables[t] ELSE IF v = t THEN None ELSE tables[v])
                        /\ truth'[v] = (IF v = u THEN truth[t] ELSE IF v = t THEN None ELSE truth[v])
                        /\ frames'[v] = (IF v = t THEN None ELSE frames[v])
                        /\ facts'[v] = (IF v = t THEN None ELSE facts[v])
  BY <1>1 DEF StorageInv, StTypes
<1>5. Placed'
  <2>1. ASSUME NEW v \in Names, v # u, v # t
        PROVE  tables'[v] = tables[v] /\ truth'[v] = truth[v] /\ frames'[v] = frames[v] /\ facts'[v] = facts[v]
    BY <1>4, <2>1
  <2>2. tables'[t] = None /\ truth'[t] = None /\ frames'[t] = None /\ facts'[t] = None
    BY <1>1, <1>4
  <2>3. tables'[u] = tables[t] /\ truth'[u] = truth[t]
    BY <1>1, <1>4
  <2>4. files' = files /\ delta' = delta /\ txn' = txn
    BY <1>1
  <2> DEFINE Here(v) == /\ tables'[v] = None <=> truth'[v] = None
                        /\ tables'[v] = None => frames'[v] = None /\ facts'[v] = None /\ Settled(v)
                        /\ tables'[v] # None => files[tables'[v].path] # None
  <2>5. Here(t)
    BY <1>1, <2>2
  <2>6. Here(u)
    BY <1>1, <2>3 DEF StorageInv, Placed
  <2>7. ASSUME NEW v \in Names, v # u, v # t PROVE Here(v)
    BY <2>1, <2>7 DEF StorageInv, Placed
  <2>8. \A v \in Names : Here(v)
    BY <2>5, <2>6, <2>7
  <2> QED BY <2>4, <2>8 DEF Placed, Settled, Buffered
<1>6. OwnDirs'
  <2> SUFFICES ASSUME NEW v \in Names, NEW w \in Names, tables'[v] # None, tables'[w] # None, v # w
               PROVE  DirOf[tables'[w].path] # DirOf[tables'[v].path]
    BY DEF OwnDirs, OwnDirectory
  <2>1. \A x, y \in Names : x # y /\ tables[x] # None /\ tables[y] # None => DirOf[tables[y].path] # DirOf[tables[x].path]
    BY DEF StorageInv, OwnDirs, OwnDirectory
  <2>2. v # t /\ w # t
    BY <1>1, <1>4
  <2>3. CASE v = u
    <3>1. tables'[v] = tables[t] /\ tables'[w] = tables[w]
      BY <1>4, <2>2, <2>3
    <3> QED BY <1>1, <2>1, <2>2, <3>1
  <2>4. CASE w = u
    <3>1. tables'[w] = tables[t] /\ tables'[v] = tables[v]
      BY <1>4, <2>2, <2>4
    <3> QED BY <1>1, <2>1, <2>2, <3>1
  <2>5. CASE v # u /\ w # u
    <3>1. tables'[w] = tables[w] /\ tables'[v] = tables[v]
      BY <1>4, <2>2, <2>5
    <3> QED BY <2>1, <3>1
  <2> QED BY <2>3, <2>4, <2>5
<1>7. RowsKept'
  <2> SUFFICES ASSUME NEW v \in Names, tables'[v] # None
               PROVE  /\ files[tables'[v].path] \o delta[v] = truth'[v]
                      /\ frames'[v] # None => frames'[v].rows = files[tables'[v].path]
    BY <1>1 DEF RowsKept
  <2>1. \A w \in Names : Intact(w)
    BY <1>1 DEF Intact, Quiet
  <2>2. v # t
    BY <1>1, <1>4
  <2>3. CASE v = u
    <3>1. delta[u] = delta[t] /\ frames'[u] = None
      BY <1>1, <1>4 DEF StorageInv, Placed, Settled
    <3>2. tables'[v] = tables[t] /\ truth'[v] = truth[t]
      BY <1>4, <2>3
    <3> QED BY <1>1, <2>1, <2>3, <3>1, <3>2 DEF StorageInv, RowsKept
  <2>4. CASE v # u
    <3>1. tables'[v] = tables[v] /\ truth'[v] = truth[v] /\ frames'[v] = frames[v]
      BY <1>4, <2>2, <2>4
    <3> QED BY <2>1, <3>1 DEF StorageInv, RowsKept
  <2> QED BY <2>3, <2>4
<1>8. LogKept'
  BY <1>1 DEF StorageInv, LogKept, Quiet
<1> QED BY <1>2, <1>3, <1>5, <1>6, <1>7, <1>8 DEF StorageInv

LEMMA AlterInv ==
    ASSUME StorageInv, Guaranteed, NEW t \in Names, NEW k \in Kinds, NEW on \in BOOLEAN, Alter(t, k, on)
    PROVE  StorageInv'
<1>1. /\ Quiet /\ tables[t] # None /\ saved' = tables'
      /\ UNCHANGED <<files, delta, wal, frames, facts, txn, ts, ckpt, truth>>
  BY Saves DEF Alter
<1>2. PICK c \in SUBSET (Kinds \cup {"not_null"}) : tables' = [tables EXCEPT ![t] = [path |-> @.path, cons |-> c]]
  <2>1. tables[t] \in Entry
    BY <1>1 DEF StorageInv, StTypes
  <2>2. \A x \in Entry : \A d : [x EXCEPT !.cons = d] = [path |-> x.path, cons |-> d]
    BY DEF Entry
  <2> DEFINE c == IF ~on THEN tables[t].cons \ {k}
                  ELSE tables[t].cons \cup {k} \cup IF k = "pk" THEN {"not_null"} ELSE {}
  <2>3. c \in SUBSET (Kinds \cup {"not_null"})
    BY <2>1 DEF Entry
  <2>4. tables' = [tables EXCEPT ![t] = [@ EXCEPT !.cons = c]]
    BY DEF Alter
  <2> HIDE DEF c
  <2> QED BY <2>1, <2>2, <2>3, <2>4
<1> DEFINE e == [path |-> tables[t].path, cons |-> c]
<1>3. e \in Entry /\ e # None /\ e.path = tables[t].path
  BY <1>1, FinalFile, StorageNone DEF Entry, StorageInv
<1>4. \A u \in Names : tables'[u] = IF u = t THEN e ELSE tables[u]
  BY <1>2 DEF StorageInv, StTypes
<1>5. tables' \in [Names -> Entry \cup {None}]
  BY <1>2, <1>3 DEF StorageInv, StTypes
<1> HIDE DEF e
<1>6. \A u \in Names : tables[u] # None => tables'[u].path = tables[u].path
  BY <1>3, <1>4
<1>7. \A u \in Names : tables'[u] # None <=> tables[u] # None
  BY <1>1, <1>3, <1>4
<1>8. StTypes'
  BY <1>1, <1>5 DEF StorageInv, StTypes
<1>9. Stamped'
  BY <1>1 DEF StorageInv, Stamped
<1>10. Placed'
  BY <1>1, <1>6, <1>7 DEF StorageInv, Placed, Settled, Buffered
<1>11. OwnDirs'
  BY <1>6, <1>7 DEF StorageInv, OwnDirs, OwnDirectory
<1>12. RowsKept'
  BY <1>1, <1>6, <1>7 DEF StorageInv, RowsKept, Intact, Quiet
<1>13. LogKept'
  BY <1>1 DEF StorageInv, LogKept, Quiet
<1> QED BY <1>8, <1>9, <1>10, <1>11, <1>12, <1>13 DEF StorageInv

----------------------------------------------------------------------------
(***************************************************************************)
(* Writes.                                                                 *)
(***************************************************************************)

LEMMA AppendRow ==
    ASSUME NEW a \in Rows, NEW b \in Rows, NEW n \in Nat
    PROVE  /\ Append(a, n) \in Rows /\ a \o Append(b, n) = Append(a \o b, n)
<1>1. Append(a, n) \in Rows
  BY DEF Rows
<1>2. a \o Append(b, n) = Append(a \o b, n)
  BY DEF Rows
<1> QED BY <1>1, <1>2

\* A commit to registered tables.
LEMMA CommitStep ==
    ASSUME StorageInv, Quiet, NEW ns \in SUBSET Names, \A t \in ns : tables[t] # None,
           WriteCommit(ns), txn' \in {txn, None}, UNCHANGED <<files, tables, saved, frames, ckpt>>
    PROVE  StorageInv'
<1>1. ts \in Nat /\ ts' = ts + 1 /\ ts + 1 \in Nat
  BY DEF WriteCommit, StorageInv, StTypes
<1>2. \A t \in Names : /\ delta'[t] = (IF t \in ns THEN Append(delta[t], ts + 1) ELSE delta[t])
                        /\ facts'[t] = (IF t \in ns THEN None ELSE facts[t])
  BY DEF WriteCommit
<1>3. \A t \in Names : truth'[t] = IF t \in ns THEN Append(truth[t], ts + 1) ELSE truth[t]
  BY DEF WriteCommit, StorageInv, Placed
<1>4. wal = delta /\ wal' = delta'
  BY DEF WriteCommit, StorageInv, LogKept, Quiet
<1>5. delta' \in [Names -> Seq(Nat)]
  BY <1>1 DEF WriteCommit, StorageInv, StTypes
<1>6. \A t \in ns : truth[t] \in Rows /\ Append(truth[t], ts + 1) \in Rows
  BY <1>1, AppendRow DEF StorageInv, StTypes, Placed
<1>7. StTypes'
  <2>1. truth' \in [Names -> Rows \cup {None}]
    BY <1>6 DEF WriteCommit, StorageInv, StTypes, Placed
  <2>2. facts' \in [Names -> Facts \cup {None}]
    BY DEF WriteCommit, StorageInv, StTypes
  <2> QED BY <1>1, <1>4, <1>5, <2>1, <2>2 DEF StorageInv, StTypes
<1>8. Stamped'
  <2>1. ASSUME NEW t \in Names, NEW i \in DOMAIN delta'[t] PROVE delta'[t][i] <= ts + 1
    <3>1. delta[t] \in Seq(Nat) /\ \A j \in DOMAIN delta[t] : delta[t][j] <= ts /\ delta[t][j] \in Nat
      BY DEF StorageInv, StTypes, Stamped
    <3>2. CASE t \in ns
      <4>1. delta'[t] = Append(delta[t], ts + 1)
        BY <1>2, <3>2
      <4> QED BY <1>1, <3>1, <4>1
    <3>3. CASE t \notin ns
      BY <1>1, <1>2, <3>1, <3>3
    <3> QED BY <3>2, <3>3
  <2> QED BY <1>1, <1>4, <2>1 DEF Stamped
<1>9. Placed'
  <2>1. ASSUME NEW t \in Names
        PROVE  tables[t] = None <=> truth'[t] = None
    BY <1>3, <1>6, StorageNone DEF StorageInv, Placed
  <2>2. ASSUME NEW t \in Names, tables[t] = None
        PROVE  frames[t] = None /\ facts'[t] = None /\ delta'[t] = <<>> /\ Buffered(t)' = <<>>
    BY <1>2, <2>2 DEF StorageInv, Placed, Settled, Buffered
  <2> QED BY <2>1, <2>2 DEF StorageInv, Placed, Settled
<1>10. OwnDirs'
  BY DEF StorageInv, OwnDirs, OwnDirectory
<1>11. RowsKept'
  <2> SUFFICES ASSUME NEW t \in Names, tables[t] # None
               PROVE  /\ files[tables[t].path] \o delta'[t] = truth'[t]
                      /\ frames[t] # None => frames[t].rows = files[tables[t].path]
    BY DEF RowsKept
  <2>1. /\ files[tables[t].path] \in Rows /\ delta[t] \in Rows
        /\ files[tables[t].path] \o delta[t] = truth[t]
    BY BaseIsFile, NatRows DEF StorageInv, StTypes
  <2>2. frames[t] # None => frames[t].rows = files[tables[t].path]
    BY DEF StorageInv, RowsKept, Intact, Quiet
  <2>3. CASE t \in ns
    <3>1. delta'[t] = Append(delta[t], ts + 1) /\ truth'[t] = Append(truth[t], ts + 1)
      BY <1>2, <1>3, <2>3
    <3>2. files[tables[t].path] \o Append(delta[t], ts + 1) = Append(files[tables[t].path] \o delta[t], ts + 1)
      BY <1>1, <2>1, AppendRow
    <3> QED BY <2>1, <2>2, <3>1, <3>2
  <2>4. CASE t \notin ns
    BY <1>2, <1>3, <2>1, <2>2, <2>4
  <2> QED BY <2>3, <2>4
<1>12. LogKept'
  BY <1>4 DEF LogKept, Quiet
<1> QED BY <1>7, <1>8, <1>9, <1>10, <1>11, <1>12 DEF StorageInv

LEMMA InsertInv ==
    ASSUME StorageInv, NEW t \in Names, Insert(t)
    PROVE  StorageInv'
<1>1. Quiet /\ tables[t] # None /\ WriteCommit({t}) /\ UNCHANGED <<files, tables, saved, frames, txn, ckpt>>
  BY DEF Insert
<1>2. {t} \in SUBSET Names /\ \A u \in {t} : tables[u] # None
  BY <1>1
<1> QED BY <1>1, <1>2, CommitStep

LEMMA CommitInv ==
    ASSUME StorageInv, Commit
    PROVE  StorageInv'
<1>1. Quiet /\ WriteCommit(Touched) /\ txn' = None /\ UNCHANGED <<files, tables, saved, frames, ckpt>>
  BY DEF Commit
<1>2. Touched \in SUBSET Names /\ \A u \in Touched : tables[u] # None
  BY DEF Touched, StorageInv, Placed, Settled
<1> QED BY <1>1, <1>2, CommitStep

\* A step that opens, fills or ends a transaction without committing.
LEMMA TxnStep ==
    ASSUME StorageInv, Quiet, txn' \in Txn \cup {None}, facts' \in [Names -> Facts \cup {None}],
           \A t \in Names : facts'[t] \in {facts[t], None},
           \A t \in Names : tables[t] = None => Buffered(t)' = <<>>,
           UNCHANGED <<files, tables, saved, delta, wal, frames, ts, ckpt, truth>>
    PROVE  StorageInv'
<1>1. StTypes'
  BY DEF StorageInv, StTypes
<1>2. Stamped'
  BY DEF StorageInv, Stamped
<1>3. Placed'
  BY DEF StorageInv, Placed, Settled
<1>4. OwnDirs'
  BY DEF StorageInv, OwnDirs, OwnDirectory
<1>5. RowsKept'
  BY DEF StorageInv, RowsKept, Intact, Final, Quiet
<1>6. LogKept'
  BY DEF StorageInv, LogKept, Quiet
<1> QED BY <1>1, <1>2, <1>3, <1>4, <1>5, <1>6 DEF StorageInv

LEMMA BeginInv ==
    ASSUME StorageInv, Begin
    PROVE  StorageInv'
<1>1. [snap |-> ts, buffer |-> [t \in Names |-> <<>>]] \in Txn
  BY DEF StorageInv, StTypes, Txn, Rows
<1>2. \A t \in Names : Buffered(t)' = <<>>
  BY DEF Begin, Buffered
<1>3. Quiet /\ txn' \in Txn \cup {None} /\ facts' = facts /\ UNCHANGED <<files, tables, saved, delta, wal, frames, ts, ckpt, truth>>
  BY <1>1 DEF Begin
<1>4. facts' \in [Names -> Facts \cup {None}] /\ \A t \in Names : facts'[t] \in {facts[t], None}
  BY <1>3 DEF StorageInv, StTypes
<1> QED BY <1>2, <1>3, <1>4, TxnStep

LEMMA BufferInsertInv ==
    ASSUME StorageInv, NEW t \in Names, BufferInsert(t)
    PROVE  StorageInv'
<1>1. /\ Quiet /\ txn # None /\ tables[t] # None
      /\ txn' = [txn EXCEPT !.buffer = [@ EXCEPT ![t] = <<MaxTs + 1>>]]
      /\ facts' = [facts EXCEPT ![t] = None]
      /\ UNCHANGED <<files, tables, saved, delta, wal, frames, ts, ckpt, truth>>
  BY DEF BufferInsert
<1>2. <<MaxTs + 1>> \in Rows
  BY StorageAssumption DEF Rows
<1>3. txn \in Txn
  BY <1>1 DEF StorageInv, StTypes
<1>4. txn' \in Txn /\ txn' # None
  BY <1>1, <1>2, <1>3, StorageNone DEF Txn
<1>5. \A u \in Names : u # t => txn'.buffer[u] = txn.buffer[u]
  BY <1>1, <1>3 DEF Txn
<1>6. \A u \in Names : tables[u] = None => Buffered(u)' = <<>>
  BY <1>1, <1>4, <1>5 DEF StorageInv, Placed, Settled, Buffered
<1>7. facts' \in [Names -> Facts \cup {None}] /\ \A u \in Names : facts'[u] \in {facts[u], None}
  BY <1>1 DEF StorageInv, StTypes
<1> QED BY <1>1, <1>4, <1>6, <1>7, TxnStep

LEMMA RollbackInv ==
    ASSUME StorageInv, Rollback
    PROVE  StorageInv'
<1>1. Quiet /\ txn' \in Txn \cup {None} /\ UNCHANGED <<files, tables, saved, delta, wal, frames, ts, ckpt, truth>>
  BY DEF Rollback
<1>2. \A t \in Names : Buffered(t)' = <<>>
  BY DEF Rollback, Buffered
<1>3. facts' \in [Names -> Facts \cup {None}] /\ \A t \in Names : facts'[t] \in {facts[t], None}
  BY DEF Rollback, StorageInv, StTypes
<1> QED BY <1>1, <1>2, <1>3, TxnStep

\* Dropping the last rows of a table drops them from its delta.
LEMMA CutTail ==
    ASSUME NEW R, NEW f \in Seq(R), NEW d \in Seq(R), NEW n \in 0..Len(d)
    PROVE  SubSeq(f \o d, 1, Len(f \o d) - (Len(d) - n)) = f \o SubSeq(d, 1, n)
<1>1. Len(f \o d) = Len(f) + Len(d) /\ Len(f) \in Nat /\ Len(d) \in Nat /\ n \in Nat /\ n <= Len(d)
  OBVIOUS
<1>2. Len(f \o d) - (Len(d) - n) = Len(f) + n
  BY <1>1
<1>3. SubSeq(f \o d, 1, Len(f) + n) \in Seq(R) /\ Len(SubSeq(f \o d, 1, Len(f) + n)) = Len(f) + n
  BY <1>1
<1>4. SubSeq(d, 1, n) \in Seq(R) /\ Len(SubSeq(d, 1, n)) = n
  BY <1>1
<1>5. Len(f \o SubSeq(d, 1, n)) = Len(f) + n /\ f \o SubSeq(d, 1, n) \in Seq(R)
  BY <1>1, <1>4
<1>6. ASSUME NEW i \in 1..(Len(f) + n)
      PROVE  SubSeq(f \o d, 1, Len(f) + n)[i] = (f \o SubSeq(d, 1, n))[i]
  BY <1>1, <1>4
<1>7. SubSeq(f \o d, 1, Len(f) + n) = f \o SubSeq(d, 1, n)
  BY <1>3, <1>5, <1>6, SeqEqual
<1> QED BY <1>2, <1>7

LEMMA RestoreInv ==
    ASSUME StorageInv, NEW target \in Nat, Restore(target)
    PROVE  StorageInv'
<1>1. /\ Quiet /\ ts' = target /\ delta' = [t \in Names |-> UpTo(delta[t], target)]
      /\ wal' = [t \in Names |-> UpTo(wal[t], target)]
      /\ facts' = [t \in Names |-> IF delta'[t] # delta[t] THEN None ELSE facts[t]]
      /\ truth' = [t \in Names |-> IF truth[t] = None THEN None
                                   ELSE SubSeq(truth[t], 1, Len(truth[t]) - Discarded(t, target))]
      /\ UNCHANGED <<files, tables, saved, frames, txn, ckpt>>
  BY DEF Restore
<1>2. wal = delta /\ wal' = delta' /\ ckpt = None /\ \A t \in Names : delta[t] \in Seq(Nat)
  BY <1>1 DEF StorageInv, StTypes, LogKept, Quiet
<1>3. ASSUME NEW t \in Names
      PROVE  /\ delta'[t] \in Seq(Nat) /\ \A i \in DOMAIN delta'[t] : delta'[t][i] <= target
             /\ delta[t] = <<>> => delta'[t] = <<>>
  <2>1. PICK c \in 0..Len(delta[t]) : /\ UpTo(delta[t], target) = SubSeq(delta[t], 1, c)
                                      /\ UpTo(delta[t], target) \in Seq(Nat)
                                      /\ \A i \in DOMAIN UpTo(delta[t], target) : UpTo(delta[t], target)[i] <= target
    BY <1>2, UpToPrefix
  <2>2. delta[t] = <<>> => SubSeq(delta[t], 1, c) = <<>>
    BY <1>2
  <2> QED BY <1>1, <2>1, <2>2
<1>4. ASSUME NEW t \in Names, tables[t] # None
      PROVE  /\ truth'[t] = files[tables[t].path] \o delta'[t] /\ truth'[t] \in Rows
             /\ truth[t] # None /\ (frames[t] # None => frames[t].rows = files[tables[t].path])
  <2> DEFINE f == files[tables[t].path]  d == delta[t]  R == Nat \cup Files
  <2>1. f \in Rows /\ f \o d = truth[t] /\ truth[t] # None /\ d \in Rows
    BY <1>1, <1>2, <1>4, BaseIsFile, NatRows DEF StorageInv, Placed
  <2>2. PICK c \in 0..Len(d) : UpTo(d, target) = SubSeq(d, 1, c) /\ Len(UpTo(d, target)) = c
    BY <1>2, UpToPrefix
  <2>3. Discarded(t, target) = Len(d) - c
    BY <2>2 DEF Discarded
  <2>4. truth'[t] = SubSeq(f \o d, 1, Len(f \o d) - (Len(d) - c))
    BY <1>1, <2>1, <2>3
  <2>5. Rows = Seq(R)
    BY DEF Rows
  <2> HIDE DEF f, d, R
  <2>6. truth'[t] = f \o SubSeq(d, 1, c)
    BY <2>1, <2>2, <2>4, <2>5, CutTail
  <2>7. truth'[t] = f \o delta'[t]
    BY <1>1, <2>2, <2>6 DEF d
  <2>8. f \o SubSeq(d, 1, c) \in Seq(R)
    BY <2>1, <2>2, <2>5
  <2>9. frames[t] # None => frames[t].rows = f
    BY <1>2, <1>4 DEF StorageInv, RowsKept, Intact, f
  <2> QED BY <2>1, <2>5, <2>6, <2>7, <2>8, <2>9 DEF f
<1>5. ASSUME NEW t \in Names, tables[t] = None
      PROVE  truth'[t] = None /\ truth[t] = None
  BY <1>1, <1>5 DEF StorageInv, Placed
<1>6. StTypes'
  <2>1. delta' \in [Names -> Seq(Nat)]
    BY <1>1, <1>3
  <2>2. truth' \in [Names -> Rows \cup {None}]
    <3>1. \A t \in Names : truth'[t] \in Rows \cup {None}
      BY <1>4, <1>5
    <3> QED BY <1>1, <3>1
  <2>3. facts' \in [Names -> Facts \cup {None}]
    BY <1>1 DEF StorageInv, StTypes
  <2> QED BY <1>1, <1>2, <2>1, <2>2, <2>3 DEF StorageInv, StTypes
<1>7. Stamped'
  BY <1>1, <1>2, <1>3 DEF Stamped
<1>8. Placed'
  <2>1. ASSUME NEW t \in Names PROVE truth'[t] = None <=> tables[t] = None
    BY <1>4, <1>5, StorageNone
  <2>2. \A t \in Names : Buffered(t)' = Buffered(t)
    BY <1>1 DEF Buffered
  <2>3. \A t \in Names : tables[t] = None => frames[t] = None /\ facts'[t] = None /\ delta'[t] = <<>> /\ Buffered(t) = <<>>
    BY <1>1, <1>3 DEF StorageInv, Placed, Settled
  <2> QED BY <1>1, <2>1, <2>2, <2>3 DEF StorageInv, Placed, Settled
<1>9. OwnDirs'
  BY <1>1 DEF StorageInv, OwnDirs, OwnDirectory
<1>10. RowsKept'
  BY <1>1, <1>4 DEF RowsKept
<1>11. LogKept'
  BY <1>1, <1>2 DEF LogKept
<1> QED BY <1>6, <1>7, <1>8, <1>9, <1>10, <1>11 DEF StorageInv

----------------------------------------------------------------------------
(***************************************************************************)
(* Checkpoint and restart.                                                 *)
(***************************************************************************)

LEMMA CheckpointInv ==
    ASSUME StorageInv, Checkpoint
    PROVE  StorageInv'
<1> DEFINE c == [todo |-> {t \in Names : delta[t] # <<>>}, table |-> None]
<1>1. /\ Quiet /\ txn = None /\ ckpt' = c
      /\ UNCHANGED <<files, tables, saved, delta, wal, frames, facts, txn, ts, truth>>
  BY DEF Checkpoint
<1>2. c \in Ckpt /\ c # None /\ c.table = None /\ c.todo = {t \in Names : delta[t] # <<>>}
  BY StorageNone DEF Ckpt
<1>3. wal = delta
  BY <1>1 DEF StorageInv, LogKept, Quiet
<1> HIDE DEF c
<1>4. StTypes'
  BY <1>1, <1>2 DEF StorageInv, StTypes
<1>5. Stamped'
  BY <1>1 DEF StorageInv, Stamped
<1>6. Placed'
  BY <1>1 DEF StorageInv, Placed, Settled, Buffered
<1>7. OwnDirs'
  BY <1>1 DEF StorageInv, OwnDirs, OwnDirectory
<1>8. RowsKept'
  BY <1>1 DEF StorageInv, RowsKept, Intact, Quiet
<1>9. LogKept'
  BY <1>1, <1>2, <1>3 DEF LogKept
<1> QED BY <1>4, <1>5, <1>6, <1>7, <1>8, <1>9 DEF StorageInv

\* The table being folded is registered, and its base is not the file of another table.
LEMMA FoldTable ==
    ASSUME StorageInv, ckpt # None, NEW t \in ckpt.todo
    PROVE  /\ ckpt \in Ckpt /\ t \in Names /\ tables[t] # None /\ truth[t] \in Rows
           /\ tables[t].path \in Files /\ Final(t) \in Files
           /\ \A u \in Names : u # t /\ tables[u] # None =>
                 tables[u].path \in Files \ {Final(t), tables[t].path}
<1>1. ckpt \in Ckpt /\ t \in Names
  BY DEF StorageInv, StTypes, Ckpt
<1>2. tables[t] # None
  BY <1>1 DEF StorageInv, LogKept, Placed, Settled
<1>3. truth[t] \in Rows
  BY <1>1, <1>2 DEF StorageInv, Placed, StTypes
<1>4. tables[t].path \in Files /\ Final(t) \in Files /\ DirOf[Final(t)] = DirOf[tables[t].path]
  BY <1>1, <1>2, FinalFile DEF StorageInv
<1>5. ASSUME NEW u \in Names, u # t, tables[u] # None
      PROVE  tables[u].path \in Files \ {Final(t), tables[t].path}
  <2>1. DirOf[tables[u].path] # DirOf[tables[t].path]
    BY <1>1, <1>2, <1>5 DEF StorageInv, OwnDirs, OwnDirectory
  <2>2. tables[u].path \in Files
    BY <1>5, FinalFile DEF StorageInv
  <2> QED BY <1>4, <2>1, <2>2
<1> QED BY <1>1, <1>2, <1>3, <1>4, <1>5

LEMMA PublishInv ==
    ASSUME StorageInv, NEW t \in Names, Publish(t)
    PROVE  StorageInv'
<1>1. /\ ckpt # None /\ ckpt.table = None /\ t \in ckpt.todo /\ tables[t] # None
      /\ files' = [files EXCEPT ![Final(t)] = View(t, FALSE)]
      /\ ckpt' = [ckpt EXCEPT !.table = t]
      /\ UNCHANGED <<tables, saved, delta, wal, frames, facts, txn, ts, truth>>
  BY DEF Publish
<1>2. /\ ckpt \in Ckpt /\ truth[t] \in Rows /\ tables[t].path \in Files /\ Final(t) \in Files
      /\ \A u \in Names : u # t /\ tables[u] # None => tables[u].path \in Files \ {Final(t), tables[t].path}
  BY <1>1, FoldTable
<1>3. \A u \in Names : Intact(u)
  BY <1>1, StorageNone DEF Intact
<1>4. View(t, FALSE) = truth[t]
  BY <1>1, <1>3 DEF StorageInv, RowsKept, View, Base
<1>5. ckpt' \in Ckpt /\ ckpt' # None /\ ckpt'.table = t /\ ckpt'.todo = ckpt.todo
  BY <1>1, <1>2, StorageNone DEF Ckpt
<1>6. files' \in [Files -> Rows \cup {None}] /\ files'[Final(t)] = truth[t] /\ truth[t] # None
  BY <1>1, <1>2, <1>4, StorageNone DEF StorageInv, StTypes
<1>7. \A u \in Names : tables[u] # None /\ (u # t \/ Final(t) # tables[t].path)
                          => files'[tables[u].path] = files[tables[u].path]
  BY <1>1, <1>2 DEF StorageInv, StTypes
<1>8. StTypes'
  BY <1>1, <1>5, <1>6 DEF StorageInv, StTypes
<1>9. Stamped'
  BY <1>1 DEF StorageInv, Stamped
<1>10. Placed'
  <2>1. ASSUME NEW u \in Names, tables[u] # None PROVE files'[tables[u].path] # None
    <3>1. CASE u = t /\ Final(t) = tables[t].path
      BY <1>6, <3>1
    <3>2. CASE u # t \/ Final(t) # tables[t].path
      BY <1>7, <2>1, <3>2 DEF StorageInv, Placed
    <3> QED BY <3>1, <3>2
  <2> QED BY <1>1, <2>1 DEF StorageInv, Placed, Settled, Buffered
<1>11. OwnDirs'
  BY <1>1 DEF StorageInv, OwnDirs, OwnDirectory
<1>12. RowsKept'
  <2> SUFFICES ASSUME NEW u \in Names, tables[u] # None, Intact(u)'
               PROVE  /\ files'[tables[u].path] \o delta[u] = truth[u]
                      /\ frames[u] # None => frames[u].rows = files'[tables[u].path]
    BY <1>1 DEF RowsKept
  <2>1. u # t \/ Final(t) # tables[t].path
    BY <1>1, <1>5 DEF Intact, Final
  <2> QED BY <1>3, <1>7, <2>1 DEF StorageInv, RowsKept
<1>13. LogKept'
  <2>1. Final(t)' = Final(t)
    BY <1>1 DEF Final
  <2>2. txn = None /\ \A u \in Names : /\ u \in ckpt.todo <=> delta[u] # <<>>
                                       /\ u \in ckpt.todo => wal[u] = delta[u]
    BY <1>1 DEF StorageInv, LogKept
  <2> QED BY <1>1, <1>5, <1>6, <2>1, <2>2 DEF LogKept
<1> QED BY <1>8, <1>9, <1>10, <1>11, <1>12, <1>13 DEF StorageInv

LEMMA FoldInv ==
    ASSUME StorageInv, Guaranteed, Fold
    PROVE  StorageInv'
<1> DEFINE t == ckpt.table  old == tables[t].path  new == Final(t)
           e == [path |-> new, cons |-> tables[t].cons]  c == [todo |-> ckpt.todo \ {t}, table |-> None]
<1>1. /\ ckpt # None /\ t # None /\ RegisterEntry(t, new) /\ delta' = [delta EXCEPT ![t] = <<>>]
      /\ files' = [files EXCEPT ![old] = IF old = new THEN @ ELSE None]
      /\ frames' = [frames EXCEPT ![t] = None] /\ facts' = [facts EXCEPT ![t] = None]
      /\ ckpt' = c /\ UNCHANGED <<wal, txn, ts, truth>>
  BY DEF Fold, DropCaches
<1>2. t \in ckpt.todo /\ files[new] = truth[t] /\ txn = None
  BY <1>1 DEF StorageInv, LogKept
<1>3. /\ ckpt \in Ckpt /\ t \in Names /\ tables[t] # None /\ truth[t] \in Rows /\ old \in Files /\ new \in Files
      /\ \A u \in Names : u # t /\ tables[u] # None => tables[u].path \in Files \ {new, old}
  BY <1>1, <1>2, FoldTable
<1>4. tables[t] \in Entry
  BY <1>3 DEF StorageInv, StTypes
<1>5. tables' = [tables EXCEPT ![t] = e] /\ saved' = tables'
  BY <1>1, <1>3, Saves DEF RegisterEntry, StorageInv, StTypes
<1>6. e \in Entry /\ e # None /\ e.path = new
  BY <1>3, <1>4, StorageNone DEF Entry
<1>7. c \in Ckpt /\ c # None /\ c.table = None /\ c.todo = ckpt.todo \ {t}
  BY <1>3, StorageNone DEF Ckpt
<1>8. DirOf[new] = DirOf[old]
  BY <1>3, FinalFile DEF StorageInv
<1> HIDE DEF t, old, new, e, c
<1>9. \A u \in Names : /\ tables'[u] = (IF u = t THEN e ELSE tables[u])
                        /\ delta'[u] = (IF u = t THEN <<>> ELSE delta[u])
                        /\ frames'[u] = (IF u = t THEN None ELSE frames[u])
                        /\ facts'[u] = (IF u = t THEN None ELSE facts[u])
  BY <1>1, <1>3, <1>5 DEF StorageInv, StTypes
<1>10. files'[new] = truth[t] /\ truth[t] # None
  BY <1>1, <1>2, <1>3, StorageNone DEF StorageInv, StTypes
<1>11. \A u \in Names : u # t /\ tables[u] # None => files'[tables[u].path] = files[tables[u].path]
  BY <1>1, <1>3 DEF StorageInv, StTypes
<1>12. StTypes'
  <2>1. tables' \in [Names -> Entry \cup {None}]
    BY <1>5, <1>6 DEF StorageInv, StTypes
  <2>2. files' \in [Files -> Rows \cup {None}]
    BY <1>1, <1>3 DEF StorageInv, StTypes
  <2>3. delta' \in [Names -> Seq(Nat)]
    <3>1. <<>> \in Seq(Nat)
      OBVIOUS
    <3> QED BY <1>1, <3>1 DEF StorageInv, StTypes
  <2>4. frames' \in [Names -> Frame \cup {None}] /\ facts' \in [Names -> Facts \cup {None}]
    BY <1>1 DEF StorageInv, StTypes
  <2> QED BY <1>1, <1>5, <1>7, <2>1, <2>2, <2>3, <2>4 DEF StorageInv, StTypes
<1>13. Stamped'
  BY <1>1, <1>9 DEF StorageInv, Stamped
<1>14. Placed'
  <2>1. ASSUME NEW u \in Names
        PROVE  /\ tables'[u] = None <=> truth[u] = None
               /\ tables'[u] = None => frames'[u] = None /\ facts'[u] = None /\ delta'[u] = <<>>
               /\ tables'[u] # None => files'[tables'[u].path] # None
    <3>1. CASE u = t
      BY <1>6, <1>9, <1>10, <3>1
    <3>2. CASE u # t
      <4>1. tables'[u] = tables[u] /\ delta'[u] = delta[u] /\ frames'[u] = frames[u] /\ facts'[u] = facts[u]
        BY <1>9, <3>2
      <4> QED BY <1>11, <3>2, <4>1 DEF StorageInv, Placed, Settled
    <3> QED BY <3>1, <3>2
  <2>2. \A u \in Names : Buffered(u)' = <<>>
    BY <1>1, <1>2 DEF Buffered
  <2> QED BY <1>1, <2>1, <2>2 DEF Placed, Settled
<1>15. OwnDirs'
  <2> SUFFICES ASSUME NEW u \in Names, NEW v \in Names, tables'[u] # None, tables'[v] # None, u # v
               PROVE  DirOf[tables'[v].path] # DirOf[tables'[u].path]
    BY DEF OwnDirs, OwnDirectory
  <2>1. \A w \in Names : tables'[w] # None => tables[w] # None /\ DirOf[tables'[w].path] = DirOf[tables[w].path]
    BY <1>3, <1>6, <1>8, <1>9 DEF old
  <2> QED BY <2>1 DEF StorageInv, OwnDirs, OwnDirectory
<1>16. RowsKept'
  <2> SUFFICES ASSUME NEW u \in Names, tables'[u] # None
               PROVE  /\ files'[tables'[u].path] \o delta'[u] = truth[u]
                      /\ frames'[u] # None => frames'[u].rows = files'[tables'[u].path]
    BY <1>1 DEF RowsKept
  <2>1. CASE u = t
    <3>1. truth[t] \o <<>> = truth[t]
      BY <1>3 DEF Rows
    <3>2. tables'[u].path = new /\ delta'[u] = <<>> /\ frames'[u] = None
      BY <1>6, <1>9, <2>1
    <3> QED BY <1>10, <2>1, <3>1, <3>2
  <2>2. CASE u # t
    <3>1. tables'[u] = tables[u] /\ delta'[u] = delta[u] /\ frames'[u] = frames[u]
      BY <1>9, <2>2
    <3>2. Intact(u)
      BY <2>2 DEF Intact, t
    <3>3. files'[tables[u].path] = files[tables[u].path]
      BY <1>11, <2>2, <3>1
    <3> QED BY <3>1, <3>2, <3>3 DEF StorageInv, RowsKept
  <2> QED BY <2>1, <2>2
<1>17. LogKept'
  <2>1. ASSUME NEW u \in Names
        PROVE  /\ u \in c.todo <=> delta'[u] # <<>>
               /\ u \in c.todo => wal[u] = delta'[u]
    BY <1>1, <1>7, <1>9 DEF StorageInv, LogKept
  <2> QED BY <1>1, <1>2, <1>7, <2>1 DEF LogKept
<1> QED BY <1>12, <1>13, <1>14, <1>15, <1>16, <1>17 DEF StorageInv

LEMMA EndCheckpointInv ==
    ASSUME StorageInv, EndCheckpoint
    PROVE  StorageInv'
<1>1. /\ ckpt # None /\ ckpt.table = None /\ ckpt.todo = {} /\ ckpt' = None /\ wal' = [t \in Names |-> <<>>]
      /\ UNCHANGED <<files, tables, saved, delta, frames, facts, txn, ts, truth>>
  BY DEF EndCheckpoint
<1>2. delta = [t \in Names |-> <<>>]
  <2>1. \A t \in Names : delta[t] = <<>>
    BY <1>1 DEF StorageInv, LogKept
  <2> QED BY <2>1 DEF StorageInv, StTypes
<1>3. \A t \in Names : Intact(t)
  BY <1>1, StorageNone DEF Intact
<1>4. StTypes'
  BY <1>1, <1>2 DEF StorageInv, StTypes
<1>5. Stamped'
  BY <1>1, <1>2 DEF Stamped
<1>6. Placed'
  BY <1>1 DEF StorageInv, Placed, Settled, Buffered
<1>7. OwnDirs'
  BY <1>1 DEF StorageInv, OwnDirs, OwnDirectory
<1>8. RowsKept'
  BY <1>1, <1>3 DEF StorageInv, RowsKept
<1>9. LogKept'
  BY <1>1, <1>2 DEF LogKept
<1> QED BY <1>4, <1>5, <1>6, <1>7, <1>8, <1>9 DEF StorageInv

LEMMA AbortCheckpointInv ==
    ASSUME StorageInv, Guaranteed, AbortCheckpoint
    PROVE  StorageInv'
<1>1. /\ Stoppable /\ ckpt' = None
      /\ UNCHANGED <<files, tables, saved, delta, wal, frames, facts, txn, ts, truth>>
  BY DEF AbortCheckpoint
<1>2. wal = delta /\ \A t \in Names : Intact(t)
  BY <1>1, StopsIntact
<1>3. StTypes'
  BY <1>1 DEF StorageInv, StTypes
<1>4. Stamped'
  BY <1>1 DEF StorageInv, Stamped
<1>5. Placed'
  BY <1>1 DEF StorageInv, Placed, Settled, Buffered
<1>6. OwnDirs'
  BY <1>1 DEF StorageInv, OwnDirs, OwnDirectory
<1>7. RowsKept'
  BY <1>1, <1>2 DEF StorageInv, RowsKept
<1>8. LogKept'
  BY <1>1, <1>2 DEF LogKept
<1> QED BY <1>3, <1>4, <1>5, <1>6, <1>7, <1>8 DEF StorageInv

\* The saved catalog and its files give the catalog in memory.
LEMMA LoadsTables ==
    ASSUME StorageInv
    PROVE  Loaded = tables
<1>1. \A t \in Names : Loaded[t] = tables[t]
  BY DEF StorageInv, StTypes, Placed, Loaded
<1> QED BY <1>1 DEF StorageInv, StTypes, Loaded

\* The counter after a restart covers the log again.
LEMMA RestartCounter ==
    ASSUME StorageInv
    PROVE  /\ Max({0} \cup LoggedTs) \in Nat
           /\ \A t \in Names : \A i \in DOMAIN wal[t] : wal[t][i] <= Max({0} \cup LoggedTs)
<1> DEFINE S == {0} \cup LoggedTs
<1>1. ts \in Nat /\ \A t \in Names : wal[t] \in Seq(Nat)
  BY DEF StorageInv, StTypes
<1>2. \A x \in LoggedTs : x \in Nat /\ x <= ts
  BY <1>1 DEF LoggedTs, StorageInv, Stamped
<1>3. S \in SUBSET Nat /\ S # {} /\ \A x \in S : x <= ts
  BY <1>1, <1>2
<1>4. \A t \in Names : \A i \in DOMAIN wal[t] : wal[t][i] \in S
  BY DEF LoggedTs
<1> HIDE DEF S
<1>5. Max(S) \in S /\ \A y \in S : Max(S) >= y
  BY <1>1, <1>3, BoundedMax
<1>6. Max(S) \in Nat /\ \A t \in Names : \A i \in DOMAIN wal[t] : wal[t][i] <= Max(S)
  BY <1>3, <1>4, <1>5
<1> QED BY <1>6 DEF S

LEMMA RestartInv ==
    ASSUME StorageInv, Guaranteed, Restart
    PROVE  StorageInv'
<1>1. wal = delta /\ \A t \in Names : Intact(t)
  BY StopsIntact DEF Restart
<1>2. /\ tables' = tables /\ delta' = delta /\ ts' = Max({0} \cup LoggedTs)
      /\ frames' = [t \in Names |-> None] /\ facts' = [t \in Names |-> None]
      /\ txn' = None /\ ckpt' = None /\ UNCHANGED <<files, saved, wal, truth>>
  BY <1>1, LoadsTables DEF Restart
<1>3. StTypes'
  BY <1>2, RestartCounter DEF StorageInv, StTypes
<1>4. Stamped'
  BY <1>1, <1>2, RestartCounter DEF Stamped
<1>5. Placed'
  BY <1>2 DEF StorageInv, Placed, Settled, Buffered
<1>6. OwnDirs'
  BY <1>2 DEF StorageInv, OwnDirs, OwnDirectory
<1>7. RowsKept'
  BY <1>1, <1>2 DEF StorageInv, RowsKept
<1>8. LogKept'
  BY <1>1, <1>2 DEF LogKept
<1> QED BY <1>3, <1>4, <1>5, <1>6, <1>7, <1>8 DEF StorageInv

----------------------------------------------------------------------------
(***************************************************************************)
(* The theorems.                                                           *)
(***************************************************************************)

LEMMA StorageNext == ASSUME StorageInv, Guaranteed, [Next]_stvars PROVE StorageInv'
<1>1. CASE UNCHANGED stvars
  <2>1. StTypes' /\ Stamped' /\ LogKept'
    BY <1>1 DEF stvars, StorageInv, StTypes, Stamped, LogKept, Final
  <2>2. Placed' /\ OwnDirs' /\ RowsKept'
    BY <1>1 DEF stvars, StorageInv, Placed, Settled, Buffered, OwnDirs, OwnDirectory, RowsKept, Intact, Final
  <2> QED BY <2>1, <2>2 DEF StorageInv
<1>2. ASSUME NEW t \in Names, NEW f \in Sources, Register(t, f) PROVE StorageInv'
  BY <1>2, RegisterInv
<1>3. ASSUME NEW t \in Names, NEW f \in Uploads, Upload(t, f) PROVE StorageInv'
  BY <1>3, UploadInv
<1>4. ASSUME NEW t \in Names, NEW u \in Names, Rename(t, u) PROVE StorageInv'
  BY <1>4, RenameInv
<1>5. ASSUME NEW t \in Names, NEW k \in Kinds, NEW on \in BOOLEAN, Alter(t, k, on) PROVE StorageInv'
  BY <1>5, AlterInv
<1>6. ASSUME NEW t \in Names, Drop(t) \/ ColdRead(t) \/ Insert(t) \/ BufferInsert(t) \/ Publish(t) PROVE StorageInv'
  BY <1>6, DropInv, ColdReadInv, InsertInv, BufferInsertInv, PublishInv
<1>7. ASSUME NEW t \in Names, NEW own \in BOOLEAN, Read(t, own) PROVE StorageInv'
  BY <1>7, ReadInv
<1>8. ASSUME NEW scan \in BOOLEAN, NEW code \in BOOLEAN, ClearCache(scan, code) PROVE StorageInv'
  BY <1>8, ClearCacheInv
<1>9. CASE Begin \/ Commit \/ Rollback \/ Checkpoint
  BY <1>9, BeginInv, CommitInv, RollbackInv, CheckpointInv
<1>10. CASE Fold \/ EndCheckpoint \/ AbortCheckpoint \/ Restart
  BY <1>10, FoldInv, EndCheckpointInv, AbortCheckpointInv, RestartInv
<1>11. ASSUME NEW target \in 0..MaxTs, Restore(target) PROVE StorageInv'
  BY <1>11, StorageAssumption, RestoreInv
<1> QED BY <1>1, <1>2, <1>3, <1>4, <1>5, <1>6, <1>7, <1>8, <1>9, <1>10, <1>11 DEF Next

LEMMA StorageAlways == ASSUME Guaranteed PROVE Spec => []StorageInv
<1>1. Guaranteed
  OBVIOUS
<1>2. StorageInv /\ [Next]_stvars => StorageInv'
  BY <1>1, StorageNext
<1> QED BY <1>2, InitInv, PTL DEF Spec

\* As long as two tables share no directory, names in use are not taken again or dropped, catalog
\* writes succeed and a checkpoint stops only where nothing is folded, a read returns exactly
\* the rows registered and committed under the name, however often it was cached, folded,
\* renamed or reloaded (_scan, checkpoint, _run_admin), and also beside an open transaction.
THEOREM StorageScanTruthful == ASSUME Guaranteed PROVE Spec => []ScanTruthful
<1>1. StorageInv => ScanTruthful
  <2> SUFFICES ASSUME StorageInv, Quiet, NEW t \in Names
               PROVE  /\ (tables[t] = None) <=> (truth[t] = None)
                      /\ tables[t] # None => files[tables[t].path] # None /\ View(t, FALSE) = truth[t]
    BY DEF ScanTruthful
  <2>1. (tables[t] = None) <=> (truth[t] = None)
    BY DEF StorageInv, Placed
  <2>2. ASSUME tables[t] # None PROVE files[tables[t].path] # None /\ View(t, FALSE) = truth[t]
    BY <2>2, BaseIsFile DEF StorageInv, Placed, View
  <2> QED BY <2>1, <2>2
<1> QED BY <1>1, StorageAlways, PTL

\* Under the same guarantees the saved catalog, the files it names and the log rebuild every
\* table after a crash between two operations (_load, _save, checkpoint, replay).
THEOREM StorageCrashSafe == ASSUME Guaranteed PROVE Spec => []CrashSafe
<1>1. StorageInv => CrashSafe
  <2> SUFFICES ASSUME StorageInv, Quiet, NEW t \in Names
               PROVE  /\ Loaded[t] = tables[t]
                      /\ tables[t] # None => files[tables[t].path] \o wal[t] = truth[t]
    BY DEF CrashSafe
  <2>1. wal = delta
    BY DEF StorageInv, LogKept, Quiet
  <2> QED BY <2>1, LoadsTables, BaseIsFile
<1> QED BY <1>1, StorageAlways, PTL

----------------------------------------------------------------------------
(***************************************************************************)
(* Cached facts, when sessions do not work beside an open transaction.     *)
(***************************************************************************)

\* Facts of a whole table are those of its committed rows and the buffer; and a transaction's snapshot
\* covers the delta, so that it sees all of it.
FactsKept ==
    /\ \A t \in Names : facts[t] \notin {None, Other} => facts[t] = truth[t] \o Buffered(t)
    /\ txn # None => \A t \in Names : \A i \in DOMAIN delta[t] : delta[t][i] <= txn.snap

\* A read inside the transaction sees the whole delta, hence all of the truth.
LEMMA ViewIsTruth ==
    ASSUME StorageInv, FactsKept, Quiet, NEW t \in Names, tables[t] # None
    PROVE  View(t, txn # None) = truth[t] \o Buffered(t)
<1> DEFINE d == delta[t]  b == files[tables[t].path]
<1>1. Base(t) = b /\ b \in Rows /\ b \o d = truth[t] /\ d \in Seq(Nat) /\ d \in Rows
  BY BaseIsFile, NatRows DEF StorageInv, StTypes
<1>2. Buffered(t) \in Rows
  BY DEF StorageInv, StTypes, Buffered, Txn, Rows
<1>3. txn # None => {i \in DOMAIN d : \A j \in 1..i : d[j] <= txn.snap} = 1..Len(d)
  BY <1>1 DEF FactsKept
<1>4. Cardinality(1..Len(d)) = Len(d)
  <2>1. Len(d) \in Nat
    BY <1>1
  <2> QED BY <2>1, FS_Interval
<1>5. txn # None => SeenDelta(t) = SubSeq(d, 1, Len(d))
  BY <1>3, <1>4 DEF SeenDelta, UpTo
<1> HIDE DEF d, b
<1>6. SubSeq(d, 1, Len(d)) = d
  BY <1>1
<1>7. (b \o d) \o Buffered(t) = b \o (d \o Buffered(t))
  <2>1. \A x, y, z \in Rows : (x \o y) \o z = x \o (y \o z)
    <3> DEFINE R == Nat \cup Files
    <3>1. Rows = Seq(R)
      BY DEF Rows
    <3> HIDE DEF R
    <3>2. \A x, y, z \in Seq(R) : (x \o y) \o z = x \o (y \o z)
      BY ConcatAssociative
    <3> QED BY <3>1, <3>2, Zenon
  <2> QED BY <1>1, <1>2, <2>1
<1>8. (b \o d) \o <<>> = b \o d
  BY <1>1 DEF Rows
<1>9. CASE txn = None
  <2>1. Buffered(t) = <<>>
    BY <1>9 DEF Buffered
  <2> QED BY <1>1, <1>8, <1>9, <2>1 DEF View, d
<1>10. CASE txn # None
  BY <1>1, <1>5, <1>6, <1>7, <1>10 DEF View
<1> QED BY <1>9, <1>10

LEMMA FactsInit == Init => FactsKept
  BY DEF Init, FactsKept

LEMMA FactsReads ==
    ASSUME StorageInv, FactsKept, Allow = {},
           \/ \E t \in Names, own \in BOOLEAN : Read(t, own)
           \/ \E t \in Names : ColdRead(t)
           \/ \E scan, code \in BOOLEAN : ClearCache(scan, code)
    PROVE  FactsKept'
<1>1. UNCHANGED <<files, tables, delta, txn, truth>>
  BY DEF Read, ColdRead, ClearCache
<1>2. ASSUME NEW t \in Names, NEW own \in BOOLEAN, Read(t, own), NEW u \in Names, facts'[u] \notin {None, Other}
      PROVE  facts'[u] = truth[u] \o Buffered(u)
  <2>1. PICK new \in {View(t, own), Other} :
            facts' = [facts EXCEPT ![t] = IF @ # None THEN @ ELSE new] /\ Quiet /\ tables[t] # None
    BY <1>2 DEF Read
  <2>2. own = (txn # None)
    BY <1>2 DEF Read, Outside
  <2>3. View(t, own) = truth[t] \o Buffered(t)
    BY <2>1, <2>2, ViewIsTruth
  <2> QED BY <1>2, <2>1, <2>3 DEF FactsKept, StorageInv, StTypes
<1>3. ASSUME NEW t \in Names, ColdRead(t), NEW u \in Names, facts'[u] \notin {None, Other}
      PROVE  facts'[u] = truth[u] \o Buffered(u)
  BY <1>3 DEF ColdRead, FactsKept
<1>4. ASSUME NEW scan \in BOOLEAN, NEW code \in BOOLEAN, ClearCache(scan, code),
             NEW u \in Names, facts'[u] \notin {None, Other}
      PROVE  facts'[u] = truth[u] \o Buffered(u)
  BY <1>4 DEF ClearCache, FactsKept
<1>5. \A u \in Names : facts'[u] \notin {None, Other} => facts'[u] = truth[u] \o Buffered(u)
  BY <1>2, <1>3, <1>4
<1>6. \A u \in Names : Buffered(u)' = Buffered(u)
  BY <1>1 DEF Buffered
<1> QED BY <1>1, <1>5, <1>6 DEF FactsKept

LEMMA FactsCatalog ==
    ASSUME StorageInv, FactsKept, Allow = {},
           \/ \E t \in Names, f \in Sources : Register(t, f)
           \/ \E t \in Names, f \in Uploads : Upload(t, f)
           \/ \E t, u \in Names : Rename(t, u)
           \/ \E t \in Names, k \in Kinds, on \in BOOLEAN : Alter(t, k, on)
           \/ \E t \in Names : Drop(t)
    PROVE  FactsKept'
<1>1. UNCHANGED <<delta, txn>>
  BY DEF Register, Upload, Rename, Alter, Drop
<1>2. \A v \in Names : Buffered(v)' = Buffered(v)
  BY <1>1 DEF Buffered
<1>3. \A v \in Names : tables[v] = None => facts[v] = None
  BY DEF StorageInv, Placed
<1>4. ASSUME NEW t \in Names, NEW f, Register(t, f) \/ Upload(t, f), NEW v \in Names, facts'[v] # None
      PROVE  facts'[v] = facts[v] /\ truth'[v] = truth[v]
  <2>1. tables[t] = None /\ facts' = facts
    BY <1>4 DEF Register, Upload
  <2>2. v # t
    BY <1>3, <1>4, <2>1
  <2> QED BY <1>4, <2>1, <2>2 DEF Register, Upload, StorageInv, StTypes
<1>5. ASSUME NEW t \in Names, NEW u \in Names, Rename(t, u), NEW v \in Names, facts'[v] # None
      PROVE  facts'[v] = facts[v] /\ truth'[v] = truth[v]
  <2>1. /\ tables[u] = None /\ facts' = [facts EXCEPT ![t] = None]
        /\ truth' = [truth EXCEPT ![t] = None, ![u] = truth[t]]
    BY <1>5 DEF Rename, DropCaches
  <2>2. v # t /\ v # u
    BY <1>3, <1>5, <2>1 DEF StorageInv, StTypes
  <2> QED BY <2>1, <2>2 DEF StorageInv, StTypes
<1>6. ASSUME NEW t \in Names, NEW k \in Kinds, NEW on \in BOOLEAN, Alter(t, k, on), NEW v \in Names
      PROVE  facts'[v] = facts[v] /\ truth'[v] = truth[v]
  BY <1>6 DEF Alter
<1>7. ASSUME NEW t \in Names, Drop(t), NEW v \in Names, facts'[v] # None
      PROVE  facts'[v] = facts[v] /\ truth'[v] = truth[v]
  <2>1. facts' = [facts EXCEPT ![t] = None] /\ truth' = [truth EXCEPT ![t] = None]
    BY <1>7 DEF Drop, DropCaches
  <2>2. v # t
    BY <1>7, <2>1 DEF StorageInv, StTypes
  <2> QED BY <2>1, <2>2 DEF StorageInv, StTypes
<1>8. \A v \in Names : facts'[v] # None => facts'[v] = facts[v] /\ truth'[v] = truth[v]
  BY <1>4, <1>5, <1>6, <1>7
<1> QED BY <1>1, <1>2, <1>8 DEF FactsKept

LEMMA FactsWrites ==
    ASSUME StorageInv, FactsKept, Allow = {},
           \/ (\E t \in Names : Insert(t) \/ BufferInsert(t)) \/ Begin \/ Commit \/ Rollback
           \/ \E target \in 0..MaxTs : Restore(target)
    PROVE  FactsKept'
<1>1. ASSUME NEW t \in Names, Insert(t) PROVE FactsKept'
  <2>1. txn = None /\ txn' = None /\ WriteCommit({t})
    BY <1>1 DEF Insert, Outside
  <2>2. \A u \in Names : facts'[u] # None => facts'[u] = facts[u] /\ truth'[u] = truth[u]
    BY <2>1 DEF WriteCommit
  <2>3. \A u \in Names : Buffered(u)' = Buffered(u)
    BY <2>1 DEF Buffered
  <2> QED BY <2>1, <2>2, <2>3 DEF FactsKept
<1>2. ASSUME NEW t \in Names, BufferInsert(t) PROVE FactsKept'
  <2>1. /\ txn # None /\ txn' = [txn EXCEPT !.buffer = [@ EXCEPT ![t] = <<MaxTs + 1>>]]
        /\ facts' = [facts EXCEPT ![t] = None] /\ UNCHANGED <<delta, truth>>
    BY <1>2 DEF BufferInsert
  <2>2. txn \in Txn
    BY <2>1 DEF StorageInv, StTypes
  <2>3. <<MaxTs + 1>> \in Rows
    BY StorageAssumption DEF Rows
  <2>4. txn' \in Txn /\ txn' # None /\ txn'.snap = txn.snap
    BY <2>1, <2>2, <2>3, StorageNone DEF Txn
  <2>5. \A u \in Names : u # t => Buffered(u)' = Buffered(u)
    BY <2>1, <2>2, <2>4 DEF Buffered, Txn
  <2>6. \A u \in Names : facts'[u] # None => facts'[u] = facts[u] /\ u # t
    BY <2>1 DEF StorageInv, StTypes
  <2> QED BY <2>1, <2>4, <2>5, <2>6 DEF FactsKept
<1>3. CASE Begin
  <2>1. txn = None /\ txn' = [snap |-> ts, buffer |-> [t \in Names |-> <<>>]] /\ UNCHANGED <<delta, facts, truth>>
    BY <1>3 DEF Begin
  <2>2. \A u \in Names : Buffered(u)' = Buffered(u)
    BY <2>1 DEF Buffered
  <2>3. txn'.snap = ts /\ \A t \in Names : \A i \in DOMAIN delta[t] : delta[t][i] <= ts
    BY <2>1 DEF StorageInv, Stamped
  <2> QED BY <2>1, <2>2, <2>3 DEF FactsKept
<1>4. CASE Commit
  <2>1. txn' = None /\ WriteCommit(Touched)
    BY <1>4 DEF Commit
  <2>2. ASSUME NEW u \in Names, facts'[u] # None
        PROVE  facts'[u] = facts[u] /\ truth'[u] = truth[u] /\ Buffered(u) = <<>>
    BY <2>1, <2>2 DEF WriteCommit, Touched
  <2>3. \A u \in Names : Buffered(u)' = <<>>
    BY <2>1 DEF Buffered
  <2> QED BY <2>1, <2>2, <2>3 DEF FactsKept
<1>5. CASE Rollback
  <2>1. /\ txn' = None /\ truth' = truth
        /\ facts' = [t \in Names |-> IF t \in Touched THEN None ELSE facts[t]]
    BY <1>5 DEF Rollback
  <2>2. ASSUME NEW u \in Names, facts'[u] # None
        PROVE  facts'[u] = facts[u] /\ Buffered(u) = <<>>
    BY <2>1, <2>2 DEF Touched
  <2>3. \A u \in Names : Buffered(u)' = <<>>
    BY <2>1 DEF Buffered
  <2> QED BY <2>1, <2>2, <2>3 DEF FactsKept
<1>6. ASSUME NEW target \in 0..MaxTs, Restore(target) PROVE FactsKept'
  <2>1. /\ txn = None /\ txn' = None /\ Quiet
        /\ delta' = [t \in Names |-> UpTo(delta[t], target)]
        /\ facts' = [t \in Names |-> IF delta'[t] # delta[t] THEN None ELSE facts[t]]
        /\ truth' = [t \in Names |-> IF truth[t] = None THEN None
                                     ELSE SubSeq(truth[t], 1, Len(truth[t]) - Discarded(t, target))]
    BY <1>6 DEF Restore, Outside
  <2>2. ASSUME NEW u \in Names, facts'[u] # None
        PROVE  facts'[u] = facts[u] /\ truth'[u] = truth[u]
    <3>1. facts'[u] = facts[u] /\ delta'[u] = delta[u] /\ delta'[u] = UpTo(delta[u], target)
      BY <2>1, <2>2
    <3>2. Discarded(u, target) = 0
      <4>1. Discarded(u, target) = Len(delta[u]) - Len(delta[u])
        BY <3>1 DEF Discarded
      <4>2. delta[u] \in Seq(Nat)
        BY DEF StorageInv, StTypes
      <4>3. Len(delta[u]) \in Nat
        BY <4>2
      <4> QED BY <4>1, <4>3
    <3>3. truth[u] # None => SubSeq(truth[u], 1, Len(truth[u]) - 0) = truth[u]
      BY DEF StorageInv, StTypes, Rows
    <3> QED BY <2>1, <3>1, <3>2, <3>3
  <2>3. \A u \in Names : Buffered(u)' = Buffered(u)
    BY <2>1 DEF Buffered
  <2> QED BY <2>1, <2>2, <2>3 DEF FactsKept
<1> QED BY <1>1, <1>2, <1>3, <1>4, <1>5, <1>6

LEMMA FactsCheckpoint ==
    ASSUME StorageInv, FactsKept, Allow = {},
           \/ Checkpoint \/ Fold \/ EndCheckpoint \/ AbortCheckpoint \/ Restart
           \/ \E t \in Names : Publish(t)
    PROVE  FactsKept'
<1>1. ASSUME ~Restart, ~Fold PROVE FactsKept'
  <2>1. UNCHANGED <<delta, facts, txn, truth>>
    BY <1>1 DEF Checkpoint, EndCheckpoint, AbortCheckpoint, Publish
  <2> QED BY <2>1 DEF FactsKept, Buffered
<1>2. CASE Fold
  <2>1. /\ ckpt # None /\ facts' = [facts EXCEPT ![ckpt.table] = None] /\ UNCHANGED <<txn, truth>>
    BY <1>2 DEF Fold, DropCaches
  <2>2. txn = None
    BY <2>1 DEF StorageInv, LogKept
  <2>3. \A u \in Names : facts'[u] # None => facts'[u] = facts[u]
    BY <2>1 DEF StorageInv, StTypes
  <2>4. \A u \in Names : Buffered(u)' = Buffered(u)
    BY <2>1 DEF Buffered
  <2> QED BY <2>1, <2>2, <2>3, <2>4 DEF FactsKept
<1>3. CASE Restart
  BY <1>3 DEF Restart, FactsKept
<1> QED BY <1>1, <1>2, <1>3

LEMMA FactsNext == ASSUME StorageInv, FactsKept, Allow = {}, [Next]_stvars PROVE FactsKept'
<1>1. CASE UNCHANGED stvars
  BY <1>1 DEF stvars, FactsKept, Buffered
<1>2. CASE Next
  BY <1>2, FactsReads, FactsCatalog, FactsWrites, FactsCheckpoint DEF Next
<1> QED BY <1>1, <1>2

\* When in addition no session works beside an open transaction, the codes and uniqueness
\* facts a scan of a whole table left cached are those of the rows a read is about to combine
\* them with: every commit, buffered write, rollback, restore, drop, rename and fold drops them
\* in time (_invalidate_table_caches).  Nothing is claimed of those the fused paths compute
\* from filtered or joined rows and file under the table.
THEOREM StorageFactsFresh == ASSUME Allow = {} PROVE Spec => []FactsFresh
<1>1. Guaranteed /\ Allow = {}
  BY DEF Guaranteed
<1>2. StorageInv /\ FactsKept => FactsFresh
  <2> SUFFICES ASSUME StorageInv, FactsKept, Quiet, NEW t \in Names, facts[t] # None
               PROVE  tables[t] # None /\ facts[t] \in {Other, View(t, txn # None)}
    BY DEF FactsFresh
  <2>1. tables[t] # None
    BY DEF StorageInv, Placed
  <2> QED BY <2>1, ViewIsTruth DEF FactsKept
<1>3. StorageInv /\ FactsKept /\ [Next]_stvars => FactsKept'
  BY <1>1, FactsNext
<1>4. Spec => []StorageInv
  BY <1>1, StorageAlways
<1> QED BY <1>2, <1>3, <1>4, FactsInit, PTL DEF Spec
=============================================================================
