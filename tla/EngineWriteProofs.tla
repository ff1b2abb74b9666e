------------------------- MODULE EngineWriteProofs --------------------------
(***************************************************************************)
(* Theorems of Engine about what _merge_delta makes of tombstones and rows *)
(* that share a timestamp: a transaction reads its own writes, and a       *)
(* commit replaces exactly the rows of the keys it touched.                *)
(***************************************************************************)
EXTENDS EngineProofs, SequenceTheorems

----------------------------------------------------------------------------
(***************************************************************************)
(* The merge of a commit into older entries.                               *)
(***************************************************************************)

Ins(E, t)   == {e \in E : e.batch.table = t /\ e.batch.kind = "insert"}
Tombs(E, t) == {e \in E : e.batch.table = t /\ e.batch.kind # "insert"}
\* The inserts of r into t that survive the tombstones of E, and E's own such inserts.
Surviving(E, t, r) == {e \in Ins(E, t) : r \in e.batch.rows /\ Keep(t, Tombs(E, t), r.k, e.ts)}

\* Do the batches of one commit carry a tombstone of that kind for key k of t?
Marked(bs, t, kind, k) == \E i \in DOMAIN bs : bs[i].table = t /\ bs[i].kind = kind /\ k \in bs[i].keys
\* The stamped inserts of r into t, and the positions of the batches they come from.
StampedRows(c, bs, t, r) == {e \in Ins(Stamp(c, bs), t) : r \in e.batch.rows}
NewIn(bs, t, r) == {i \in DOMAIN bs : bs[i].table = t /\ bs[i].kind = "insert" /\ r \in bs[i].rows}

LEMMA MergeAt ==
    ASSUME NEW t, NEW B, NEW E, NEW r \in Row
    PROVE  MergeDelta(t, B, E)[r] = (IF Keep(t, Tombs(E, t), r.k, 0) THEN B[r] ELSE 0)
                                    + Cardinality(Surviving(E, t, r))
<1> DEFINE mine  == {e \in E : e.batch.table = t}
           ins   == {e \in mine : e.batch.kind = "insert"}
           tombs == mine \ ins
<1>1. ins = Ins(E, t) /\ tombs = Tombs(E, t)
  BY DEF Ins, Tombs
<1>2. MergeDelta(t, B, E)[r] = (IF Keep(t, tombs, r.k, 0) THEN B[r] ELSE 0)
           + Cardinality({e \in ins : r \in e.batch.rows /\ Keep(t, tombs, r.k, e.ts)})
  BY DEF MergeDelta
<1> HIDE DEF ins, tombs
<1> QED BY <1>1, <1>2 DEF Surviving

\* A bounded set of numbers has a largest one, which Max picks.
LEMMA MaxBounded ==
    ASSUME NEW S \in SUBSET Nat, S # {}, NEW b \in Nat, \A x \in S : x <= b
    PROVE  Max(S) \in S /\ \A y \in S : Max(S) >= y
<1> DEFINE Above == {n \in Nat : \A x \in S : x <= n}
<1>1. Above \in SUBSET Nat /\ Above # {}
  OBVIOUS
<1> DEFINE m == Min(Above)
<1>2. m \in Above /\ \A n \in Above : m <= n
  <2> HIDE DEF Above
  <2> QED BY <1>1, MinNat
<1> HIDE DEF m
<1>3. m \in Nat /\ \A x \in S : x <= m
  BY <1>2
<1>4. m \in S
  <2>1. SUFFICES ASSUME m \notin S PROVE FALSE
    OBVIOUS
  <2>2. PICK x \in S : TRUE
    OBVIOUS
  <2>3. x \in Nat /\ x <= m /\ x # m
    BY <1>3, <2>1, <2>2
  <2>4. m - 1 \in Nat /\ ~(m <= m - 1)
    BY <1>3, <2>3
  <2>5. ASSUME NEW y \in S PROVE y <= m - 1
    <3>1. y \in Nat /\ y <= m /\ y # m
      BY <1>3, <2>1
    <3> QED BY <1>3, <3>1
  <2>6. m - 1 \in Above
    BY <2>4, <2>5
  <2> HIDE DEF Above
  <2> QED BY <1>2, <2>4, <2>6
<1>5. \A y \in S : m >= y
  BY <1>3
<1>6. \E x \in S : \A y \in S : x >= y
  BY <1>4, <1>5
<1> QED BY <1>6 DEF Max

\* The newest tombstone lies between -1, when no tombstone matches, and the newest entry.
LEMMA NewestRange ==
    ASSUME NEW T, NEW b \in Nat, \A e \in T : e.ts \in Nat /\ e.ts <= b, NEW kind, NEW key
    PROVE  /\ NewestTomb(T, kind, key) \in Int
           /\ -1 <= NewestTomb(T, kind, key) /\ NewestTomb(T, kind, key) <= b
           /\ (\A e \in T : ~(e.batch.kind = kind /\ key \in e.batch.keys)) => NewestTomb(T, kind, key) = -1
           /\ \A e \in T : e.batch.kind = kind /\ key \in e.batch.keys => e.ts <= NewestTomb(T, kind, key)
<1> DEFINE M == {x \in T : x.batch.kind = kind /\ key \in x.batch.keys}
           S == {e.ts : e \in M}
<1>1. NewestTomb(T, kind, key) = IF S = {} THEN -1 ELSE Max(S)
  BY DEF NewestTomb
<1>2. S \in SUBSET Nat /\ \A x \in S : x <= b
  OBVIOUS
<1>3. \A e \in T : e.batch.kind = kind /\ key \in e.batch.keys => e.ts \in S
  OBVIOUS
<1>4. S # {} => \E e \in T : e.batch.kind = kind /\ key \in e.batch.keys
  OBVIOUS
<1> HIDE DEF S, M
<1>5. CASE S = {}
  BY <1>1, <1>3, <1>5
<1>6. CASE S # {}
  <2>1. Max(S) \in S /\ \A y \in S : Max(S) >= y
    BY <1>2, <1>6, MaxBounded
  <2>2. Max(S) \in Nat /\ Max(S) <= b
    BY <1>2, <2>1
  <2>3. \A x \in S : x \in Nat /\ x <= Max(S)
    BY <1>2, <2>1, <2>2
  <2> QED BY <1>1, <1>3, <1>4, <1>6, <2>2, <2>3
<1> QED BY <1>5, <1>6

LEMMA StampParts ==
    ASSUME NEW c, NEW bs \in Seq(Batch)
    PROVE  /\ \A e \in Stamp(c, bs) : e.ts = c /\ e.n \in DOMAIN bs /\ e.batch = bs[e.n]
           /\ \A i \in DOMAIN bs : [ts |-> c, n |-> i, batch |-> bs[i]] \in Stamp(c, bs)
BY DEF Stamp

\* The stamped inserts of a row are as many as its batches.
LEMMA StampCount ==
    ASSUME NEW c, NEW bs \in Seq(Batch), NEW t, NEW r
    PROVE  /\ IsFiniteSet(StampedRows(c, bs, t, r))
           /\ Cardinality(StampedRows(c, bs, t, r)) = Cardinality(NewIn(bs, t, r))
           /\ Cardinality(NewIn(bs, t, r)) \in Nat
<1> DEFINE S == {e \in Ins(Stamp(c, bs), t) : r \in e.batch.rows}
           I == NewIn(bs, t, r)
           f == [i \in I |-> [ts |-> c, n |-> i, batch |-> bs[i]]]
<1>1. \A i \in I : i \in DOMAIN bs /\ bs[i].table = t /\ bs[i].kind = "insert" /\ r \in bs[i].rows
  BY DEF NewIn
<1>2. \A i \in I : f[i] \in S
  BY <1>1, StampParts DEF Ins
<1>3. \A e \in S : e.n \in I /\ e = [ts |-> c, n |-> e.n, batch |-> bs[e.n]]
  BY DEF Ins, Stamp, NewIn
<1>4. \A i, j \in I : f[i] = f[j] => i = j
  OBVIOUS
<1>5. f \in Bijection(I, S)
  <2>1. f \in [I -> S]
    BY <1>2
  <2>2. \A e \in S : \E i \in I : f[i] = e
    <3> TAKE e \in S
    <3>1. e.n \in I /\ f[e.n] = e
      BY <1>3
    <3> QED BY <3>1
  <2> HIDE DEF f, S, I
  <2>3. f \in Injection(I, S)
    BY <1>4, <2>1 DEF Injection, IsInjective
  <2>4. f \in Surjection(I, S)
    BY <2>1, <2>2 DEF Surjection
  <2> QED BY <2>3, <2>4 DEF Bijection
<1>6. IsFiniteSet(I)
  <2>1. Len(bs) \in Nat /\ DOMAIN bs = 1..Len(bs)
    OBVIOUS
  <2>2. I \in SUBSET (1..Len(bs))
    BY <1>1, <2>1
  <2>3. IsFiniteSet(1..Len(bs))
    BY <2>1, FS_Interval
  <2> HIDE DEF I
  <2> QED BY <2>2, <2>3, FS_Subset
<1> HIDE DEF f, S, I
<1>7. ExistsBijection(I, S)
  BY <1>5 DEF ExistsBijection
<1>8. IsFiniteSet(S) /\ Cardinality(S) = Cardinality(I) /\ Cardinality(S) \in Nat
  BY <1>6, <1>7, FS_Bijection, FS_CardinalityType
<1> QED BY <1>8 DEF S, I, StampedRows

\* The filter of _merge_delta, when a commit stamped c is merged with older entries: a deleted
\* key loses its rows up to c, an updated one its older rows, any other key none.
LEMMA KeepCommit ==
    ASSUME NEW t, NEW c \in Nat, NEW E, \A e \in E : e.ts \in Nat /\ e.ts < c,
           NEW bs \in Seq(Batch), NEW k, NEW ts \in 0..c
    PROVE  LET F == E \cup Stamp(c, bs) IN
           /\ t \notin PKTables => Keep(t, Tombs(F, t), k, ts) /\ Keep(t, Tombs(E, t), k, ts)
           /\ t \in PKTables /\ Marked(bs, t, "tombstone", k) => ~Keep(t, Tombs(F, t), k, ts)
           /\ t \in PKTables /\ Marked(bs, t, "tombstone_update", k) /\ ts < c => ~Keep(t, Tombs(F, t), k, ts)
           /\ ~Marked(bs, t, "tombstone", k) => Keep(t, Tombs(F, t), k, c)
           /\ ~Marked(bs, t, "tombstone", k) /\ ~Marked(bs, t, "tombstone_update", k)
                => (Keep(t, Tombs(F, t), k, ts) <=> Keep(t, Tombs(E, t), k, ts))
<1> DEFINE F == E \cup Stamp(c, bs)
           U == Tombs(Stamp(c, bs), t)
           TE == Tombs(E, t)
           TF == Tombs(F, t)
           N(T, kind) == NewestTomb(T, kind, k)
<1>1. TF = TE \cup U
  BY DEF Tombs
<1>2. /\ \A e \in TE : e.ts \in Nat /\ e.ts < c /\ e.ts <= c
      /\ \A e \in U : e.ts = c
  BY StampParts DEF Tombs
<1>3. \A e \in TF : e.ts \in Nat /\ e.ts <= c
  BY <1>1, <1>2
<1>4. ASSUME NEW kind PROVE Marked(bs, t, kind, k) /\ kind # "insert" => \E e \in TF : e.ts = c /\ e.batch.kind = kind /\ k \in e.batch.keys
  <2>1. SUFFICES ASSUME Marked(bs, t, kind, k), kind # "insert" PROVE \E e \in TF : e.ts = c /\ e.batch.kind = kind /\ k \in e.batch.keys
    OBVIOUS
  <2>2. PICK i \in DOMAIN bs : bs[i].table = t /\ bs[i].kind = kind /\ k \in bs[i].keys
    BY <2>1 DEF Marked
  <2> DEFINE e == [ts |-> c, n |-> i, batch |-> bs[i]]
  <2>3. e \in Stamp(c, bs) /\ e.ts = c /\ e.batch = bs[i]
    BY StampParts
  <2>4. e \in U
    BY <2>1, <2>2, <2>3 DEF Tombs
  <2> HIDE DEF e, U, TE, TF
  <2> QED BY <1>1, <2>2, <2>3, <2>4
<1>5. ASSUME NEW kind, ~Marked(bs, t, kind, k)
      PROVE  \A e \in U : ~(e.batch.kind = kind /\ k \in e.batch.keys)
  BY <1>5, StampParts DEF Tombs, Marked
<1> HIDE DEF F, U, TE, TF
<1>6. \A kind : /\ N(TF, kind) \in Int /\ -1 <= N(TF, kind) /\ N(TF, kind) <= c
                 /\ \A e \in TF : e.batch.kind = kind /\ k \in e.batch.keys => e.ts <= N(TF, kind)
  BY <1>3, NewestRange
<1>7. \A kind : /\ N(TE, kind) \in Int /\ -1 <= N(TE, kind) /\ N(TE, kind) <= c
                 /\ (TE = {} => N(TE, kind) = -1)
  <2> TAKE kind
  <2>1. N(TE, kind) \in Int /\ -1 <= N(TE, kind) /\ N(TE, kind) <= c
    BY <1>2, NewestRange
  <2>2. ASSUME TE = {} PROVE N(TE, kind) = -1
    <3>1. \A e \in TE : ~(e.batch.kind = kind /\ k \in e.batch.keys)
      BY <2>2
    <3> HIDE DEF N
    <3>2. NewestTomb(TE, kind, k) = -1
      BY <1>2, <3>1, NewestRange
    <3> QED BY <3>2 DEF N
  <2> QED BY <2>1, <2>2
<1>8. c > 0 => \A kind : N(TE, kind) < c
  <2>1. SUFFICES ASSUME c > 0, NEW kind PROVE N(TE, kind) < c
    OBVIOUS
  <2>2. c - 1 \in Nat /\ \A e \in TE : e.ts \in Nat /\ e.ts <= c - 1
    BY <1>2, <2>1
  <2>3. N(TE, kind) \in Int /\ N(TE, kind) <= c - 1
    BY <2>2, NewestRange
  <2> QED BY <2>3
<1>9. c = 0 => \A kind : N(TE, kind) < c
  <2>1. SUFFICES ASSUME c = 0, NEW kind PROVE N(TE, kind) < c
    OBVIOUS
  <2>2. TE = {}
    BY <1>2, <2>1
  <2>3. N(TE, kind) = -1
    BY <1>7, <2>2
  <2> QED BY <2>1, <2>3
<1>10. \A kind : ~Marked(bs, t, kind, k) => N(TF, kind) = N(TE, kind)
  <2> SUFFICES ASSUME NEW kind, ~Marked(bs, t, kind, k) PROVE N(TF, kind) = N(TE, kind)
    OBVIOUS
  <2>1. \A e \in U : ~(e.batch.kind = kind /\ k \in e.batch.keys)
    BY <1>5
  <2>2. N(TE \cup U, kind) = N(TE, kind)
    <3>1. {e \in TE \cup U : e.batch.kind = kind /\ k \in e.batch.keys}
          = {e \in TE : e.batch.kind = kind /\ k \in e.batch.keys}
      BY <2>1
    <3> QED BY <3>1 DEF NewestTomb
  <2> QED BY <1>1, <2>2
<1>11. \A kind : Marked(bs, t, kind, k) /\ kind # "insert" => N(TF, kind) = c
  <2> SUFFICES ASSUME NEW kind, Marked(bs, t, kind, k), kind # "insert" PROVE N(TF, kind) = c
    OBVIOUS
  <2>1. PICK e \in TF : e.ts = c /\ e.batch.kind = kind /\ k \in e.batch.keys
    BY <1>4
  <2>2. c <= N(TF, kind) /\ N(TF, kind) <= c /\ N(TF, kind) \in Int
    BY <1>6, <2>1
  <2> QED BY <2>2
<1>12. ASSUME NEW T, NEW x 
       PROVE  Keep(t, T, k, x) <=> (T = {} \/ t \notin PKTables
                                    \/ (N(T, "tombstone") < x /\ N(T, "tombstone_update") <= x))
  BY DEF Keep
<1>13. t \notin PKTables => Keep(t, TF, k, ts) /\ Keep(t, TE, k, ts)
  BY <1>12
<1>14. t \in PKTables /\ Marked(bs, t, "tombstone", k) => ~Keep(t, TF, k, ts)
  <2> SUFFICES ASSUME t \in PKTables, Marked(bs, t, "tombstone", k) PROVE ~Keep(t, TF, k, ts)
    OBVIOUS
  <2>1. TF # {}
    BY <1>4
  <2>2. N(TF, "tombstone") = c /\ ~(c < ts)
    BY <1>11
  <2> QED BY <1>12, <2>1, <2>2
<1>15. t \in PKTables /\ Marked(bs, t, "tombstone_update", k) /\ ts < c => ~Keep(t, TF, k, ts)
  <2> SUFFICES ASSUME t \in PKTables, Marked(bs, t, "tombstone_update", k), ts < c PROVE ~Keep(t, TF, k, ts)
    OBVIOUS
  <2>1. TF # {}
    BY <1>4
  <2>2. N(TF, "tombstone_update") = c /\ ~(c <= ts)
    BY <1>11
  <2> QED BY <1>12, <2>1, <2>2
<1>16. ~Marked(bs, t, "tombstone", k) => Keep(t, TF, k, c)
  <2>1. ~Marked(bs, t, "tombstone", k) => N(TF, "tombstone") < c
    BY <1>8, <1>9, <1>10
  <2>2. N(TF, "tombstone_update") <= c
    BY <1>6
  <2> QED BY <1>12, <2>1, <2>2
<1>17. ~Marked(bs, t, "tombstone", k) /\ ~Marked(bs, t, "tombstone_update", k)
         => (Keep(t, TF, k, ts) <=> Keep(t, TE, k, ts))
  <2> SUFFICES ASSUME ~Marked(bs, t, "tombstone", k), ~Marked(bs, t, "tombstone_update", k)
               PROVE  Keep(t, TF, k, ts) <=> Keep(t, TE, k, ts)
    OBVIOUS
  <2>1. N(TF, "tombstone") = N(TE, "tombstone") /\ N(TF, "tombstone_update") = N(TE, "tombstone_update")
    BY <1>10
  <2>2. CASE TE = {}
    <3>1. N(TE, "tombstone") = -1 /\ N(TE, "tombstone_update") = -1
      BY <1>7, <2>2
    <3>2. N(TF, "tombstone") < ts /\ N(TF, "tombstone_update") <= ts
      BY <2>1, <3>1
    <3> QED BY <1>12, <2>2, <3>2
  <2>3. CASE TE # {}
    <3>1. TF # {}
      BY <1>1, <2>3
    <3> QED BY <1>12, <2>1, <2>3, <3>1
  <2> QED BY <2>2, <2>3
<1> QED BY <1>13, <1>14, <1>15, <1>16, <1>17 DEF F, TE, TF

\* What a scan returns of row r once a commit stamped c is merged with older entries.
CommitMerged(t, B, E, c, bs, r) ==
    LET m   == MergeDelta(t, B, E \cup Stamp(c, bs))[r]
        old == MergeDelta(t, B, E)[r]
        new == Cardinality(NewIn(bs, t, r))
        del == Marked(bs, t, "tombstone", r.k)
        upd == Marked(bs, t, "tombstone_update", r.k)
    IN  /\ new \in Nat /\ old \in Nat
        /\ t \in PKTables /\ del => m = 0
        /\ t \in PKTables /\ ~del /\ upd => m = new
        /\ t \notin PKTables \/ (~del /\ ~upd) => m = old + new

LEMMA MergeCommit ==
    ASSUME NEW t, NEW B \in Bag, NEW c \in Nat, c > 0, NEW E, IsFiniteSet(E),
           \A e \in E : e.ts \in Nat /\ e.ts < c,
           NEW bs \in Seq(Batch), NEW r \in Row
    PROVE  CommitMerged(t, B, E, c, bs, r)
<1> DEFINE F == E \cup Stamp(c, bs)
           new == Cardinality(NewIn(bs, t, r))
           del == Marked(bs, t, "tombstone", r.k)
           upd == Marked(bs, t, "tombstone_update", r.k)
           S == StampedRows(c, bs, t, r)
           TE == Tombs(E, t)
           TF == Tombs(F, t)
<1>1. IsFiniteSet(S) /\ Cardinality(S) = new /\ new \in Nat
  BY StampCount
<1>2. \A e \in Ins(E, t) : e.ts \in 0..c /\ e.ts < c /\ e \in E
  BY DEF Ins
<1>3. \A e \in Ins(Stamp(c, bs), t) : e.ts = c
  BY StampParts DEF Ins
<1>4. 0 \in 0..c /\ c \in 0..c /\ 0 < c
  OBVIOUS
<1>5. MergeDelta(t, B, F)[r] = (IF Keep(t, TF, r.k, 0) THEN B[r] ELSE 0) + Cardinality(Surviving(F, t, r))
  BY MergeAt
<1>6. MergeDelta(t, B, E)[r] = (IF Keep(t, TE, r.k, 0) THEN B[r] ELSE 0) + Cardinality(Surviving(E, t, r))
  BY MergeAt
<1>7. Surviving(F, t, r) = {e \in Ins(E, t) : r \in e.batch.rows /\ Keep(t, TF, r.k, e.ts)}
                           \cup {e \in S : Keep(t, TF, r.k, c)}
  BY <1>3 DEF Surviving, Ins, StampedRows
<1>8. B[r] \in Nat
  BY DEF Bag
<1>9. Surviving(E, t, r) \in SUBSET E /\ Surviving(E, t, r) \cap S = {}
  BY <1>2, <1>3 DEF Surviving, Ins, StampedRows
<1>10. IsFiniteSet(Surviving(E, t, r)) /\ Cardinality(Surviving(E, t, r)) \in Nat
  BY <1>9, FS_Subset, FS_CardinalityType
<1>11. \A ts \in 0..c :
         /\ t \notin PKTables => Keep(t, TF, r.k, ts) /\ Keep(t, TE, r.k, ts)
         /\ t \in PKTables /\ del => ~Keep(t, TF, r.k, ts)
         /\ t \in PKTables /\ upd /\ ts < c => ~Keep(t, TF, r.k, ts)
         /\ ~del => Keep(t, TF, r.k, c)
         /\ ~del /\ ~upd => (Keep(t, TF, r.k, ts) <=> Keep(t, TE, r.k, ts))
  BY KeepCommit
<1> HIDE DEF F, S, TE, TF, new, del, upd
<1>12. ASSUME t \in PKTables, del PROVE MergeDelta(t, B, F)[r] = 0
  <2>1. Surviving(F, t, r) = {} /\ ~Keep(t, TF, r.k, 0)
    BY <1>2, <1>4, <1>7, <1>11, <1>12
  <2> QED BY <1>5, <2>1, FS_EmptySet
<1>13. ASSUME t \in PKTables, ~del, upd PROVE MergeDelta(t, B, F)[r] = new
  <2>1. Surviving(F, t, r) = S /\ ~Keep(t, TF, r.k, 0)
    BY <1>2, <1>4, <1>7, <1>11, <1>13
  <2> QED BY <1>1, <1>5, <2>1
<1>14. ASSUME t \notin PKTables \/ (~del /\ ~upd) PROVE MergeDelta(t, B, F)[r] = MergeDelta(t, B, E)[r] + new
  <2>1. \A ts \in 0..c : Keep(t, TF, r.k, ts) <=> Keep(t, TE, r.k, ts)
    BY <1>11, <1>14
  <2>2. Keep(t, TF, r.k, c)
    BY <1>4, <1>11, <1>14
  <2>3. Surviving(F, t, r) = Surviving(E, t, r) \cup S
    BY <1>2, <1>7, <2>1, <2>2 DEF Surviving, TE
  <2>4. Cardinality(Surviving(F, t, r)) = Cardinality(Surviving(E, t, r)) + new
    <3>1. Cardinality(Surviving(E, t, r) \cup S) =
            Cardinality(Surviving(E, t, r)) + Cardinality(S) - Cardinality(Surviving(E, t, r) \cap S)
      BY <1>1, <1>10, FS_Union
    <3>2. Cardinality(Surviving(E, t, r) \cap S) = 0
      BY <1>9, FS_EmptySet
    <3> QED BY <1>1, <1>10, <2>3, <3>1, <3>2
  <2>5. Keep(t, TF, r.k, 0) <=> Keep(t, TE, r.k, 0)
    BY <1>4, <2>1
  <2> QED BY <1>1, <1>5, <1>6, <1>8, <1>10, <2>4, <2>5
<1>15. MergeDelta(t, B, E)[r] \in Nat
  BY <1>6, <1>8, <1>10
<1> QED BY <1>1, <1>12, <1>13, <1>14, <1>15 DEF F, new, del, upd, CommitMerged

----------------------------------------------------------------------------
(***************************************************************************)
(* Read-your-writes.  Invariant whatever Allow contains: a transaction's   *)
(* buffer holds inserts and its tombstones are those of DELETE, and no     *)
(* timestamp reaches _INS_INF.                                             *)
(***************************************************************************)
TxnInv ==
    \A s \in Sessions : txn[s] # NoTxn =>
        /\ \A i \in DOMAIN txn[s].buffer : txn[s].buffer[i] \in InsertOnly
        /\ \A i \in DOMAIN txn[s].tombstones : txn[s].tombstones[i] \in TombOnly("tombstone")

CapInv == commit_ts <= MaxTs

LEMMA WriteInit == Init => TxnInv /\ CapInv
BY BoundsAssumption DEF Init, TxnInv, CapInv

\* Buffering an INSERT or a DELETE keeps the two lists apart.
LEMMA BufferKeepsTxn ==
    ASSUME CoreInv, TxnInv, NEW s \in Sessions,
           \/ \E b \in InsertOnly : Buffer(s, "insert", b)
           \/ \E b \in TombOnly("tombstone") : Buffer(s, "tombstone", b)
    PROVE  TxnInv'
<1> DEFINE x == txn[s]
<1>1. x # NoTxn /\ x \in Txn /\ x.buffer \in Seq(Batch) /\ x.tombstones \in Seq(Batch) /\ txn \in [Sessions -> Txn \cup {NoTxn}]
  BY TxnParts DEF Buffer, CoreInv, TypeOK
<1>2. /\ \A i \in DOMAIN x.buffer : x.buffer[i] \in InsertOnly
      /\ \A i \in DOMAIN x.tombstones : x.tombstones[i] \in TombOnly("tombstone")
  BY <1>1 DEF TxnInv
<1>3. ASSUME NEW b \in InsertOnly, Buffer(s, "insert", b)
      PROVE  TxnInv'
  <2>1. b \in Batch
    BY DEF InsertOnly
  <2>2. BufferAppend(x, b).buffer = Append(x.buffer, b) /\ BufferAppend(x, b).tombstones = x.tombstones
    BY <1>1 DEF BufferAppend, Txn
  <2>3. \A i \in DOMAIN Append(x.buffer, b) : Append(x.buffer, b)[i] \in InsertOnly
    BY <1>1, <1>2, <2>1
  <2>4. txn' = [txn EXCEPT ![s] = BufferAppend(x, b)]
    BY <1>3 DEF Buffer
  <2> HIDE DEF x
  <2> QED BY <1>1, <1>2, <2>2, <2>3, <2>4 DEF TxnInv
<1>4. ASSUME NEW b \in TombOnly("tombstone"), Buffer(s, "tombstone", b)
      PROVE  TxnInv'
  <2>1. b \in Batch
    BY DEF TombOnly
  <2>2. TombstoneAppend(x, b).buffer = x.buffer /\ TombstoneAppend(x, b).tombstones = Append(x.tombstones, b)
    BY <1>1 DEF TombstoneAppend, Txn
  <2>3. \A i \in DOMAIN Append(x.tombstones, b) : Append(x.tombstones, b)[i] \in TombOnly("tombstone")
    BY <1>1, <1>2, <2>1
  <2>4. txn' = [txn EXCEPT ![s] = TombstoneAppend(x, b)]
    BY <1>4 DEF Buffer
  <2> HIDE DEF x
  <2> QED BY <1>1, <1>2, <2>2, <2>3, <2>4 DEF TxnInv
<1> QED BY <1>3, <1>4

LEMMA TxnStep ==
    ASSUME "truncate_fails" \notin Allow, CoreInv, TxnInv, [Next]_vars
    PROVE  TxnInv'
<1>0. txn \in [Sessions -> Txn \cup {NoTxn}]
  BY DEF CoreInv, TypeOK
<1>1. ASSUME txn' = txn
      PROVE  TxnInv'
  BY <1>1 DEF TxnInv
<1>2. ASSUME NEW s, txn' = [txn EXCEPT ![s] = NoTxn]
      PROVE  TxnInv'
  BY <1>0, <1>2 DEF TxnInv
<1>3. ASSUME NEW s \in Sessions, Statement(s)
      PROVE  TxnInv'
  <2>1. CASE Begin(s)
    <3>1. txn' = [txn EXCEPT ![s] = BeginTxn(commit_ts)] /\ BeginTxn(commit_ts).buffer = <<>>
          /\ BeginTxn(commit_ts).tombstones = <<>>
      BY <2>1 DEF Begin, BeginTxn
    <3> QED BY <1>0, <3>1 DEF TxnInv
  <2>2. CASE Rollback(s)
    BY <1>2, <2>2 DEF Rollback
  <2>3. CASE \/ Commit(s)
             \/ \E n \in Names : RestoreSql(s, n)
             \/ \E bs \in Seq(Batch) : AllocateTs(s, bs)
    BY <1>1, <2>3 DEF Commit, RestoreSql, RestoreTo, TruncateFails, AllocateTs
  <2> QED BY <1>3, <2>1, <2>2, <2>3, StatementBatches, BufferKeepsTxn
<1>4. CASE Admin
  BY <1>1, <1>4 DEF Admin, Snapshot, AdminRestore, AdminRestoreTo, RestoreTo, CheckpointTable,
                    CheckpointEnd, TruncateFails, CheckpointCancel
<1>5. CASE WalWrite \/ WalFail \/ DeltaApply
  BY <1>1, <1>2, <1>5 DEF WalWrite, WalFail, DeltaApply
<1>6. CASE Crash
  BY <1>6 DEF Crash, TxnInv
<1> QED BY <1>1, <1>3, <1>4, <1>5, <1>6 DEF Next, vars

LEMMA CapStep ==
    ASSUME "truncate_fails" \notin Allow, CoreInv, CapInv, [Next]_vars
    PROVE  CapInv'
<1>0. TypeOK /\ commit_ts \in Int /\ MaxTs \in Nat
  BY BoundsAssumption DEF CoreInv, TypeOK
<1>1. ASSUME commit_ts' = commit_ts
      PROVE  CapInv'
  BY <1>1 DEF CapInv
<1>2. ASSUME NEW m \in Int, RestoreTo(m)
      PROVE  CapInv'
  BY <1>0, <1>2 DEF RestoreTo, TruncateFails, CapInv
<1>3. ASSUME NEW n \in Names, n \in DOMAIN snapshots, RestoreTo(snapshots[n])
      PROVE  CapInv'
  BY <1>0, <1>2, <1>3 DEF TypeOK
<1>4. ASSUME NEW s \in Sessions, Statement(s)
      PROVE  CapInv'
  <2>1. ASSUME NEW bs, AllocateTs(s, bs) PROVE CapInv'
    BY <1>0, <2>1 DEF AllocateTs, CapInv
  <2> QED BY <1>0, <1>1, <1>3, <1>4, <2>1, StatementShape DEF Begin, Rollback, Buffer, RestoreSql
<1>5. CASE Admin
  <2>1. ASSUME NEW ts \in RestoreTargets, AdminRestoreTo(ts) PROVE CapInv'
    BY <1>2, <2>1, TargetsAssumption DEF AdminRestoreTo
  <2> QED BY <1>1, <1>3, <1>5, <2>1 DEF Admin, Snapshot, AdminRestore, CheckpointTable, CheckpointEnd, TruncateFails, CheckpointCancel
<1>6. CASE Crash
  <2>1. commit_ts' = ReplayedTs
    BY <1>6 DEF Crash
  <2>2. ReplayedTs = 0 \/ \E i \in DOMAIN wal : ReplayedTs = wal[i].ts
    BY ReplayedTsMax
  <2>3. \A i \in DOMAIN wal : wal[i].ts <= commit_ts /\ wal[i].ts \in Int
    BY <1>0, RecordParts DEF CoreInv, WalOrdered, TypeOK
  <2> QED BY <1>0, <2>1, <2>2, <2>3 DEF CapInv
<1> QED BY <1>1, <1>4, <1>5, <1>6 DEF Next, WalWrite, WalFail, DeltaApply, vars

\* Every entry readers can see is newer than no record of the log and older than _INS_INF.
LEMMA DeltaTs ==
    ASSUME CoreInv, CoveredInv, SignInv
    PROVE  \A e \in delta : e.ts \in Nat /\ e.ts <= commit_ts
<1>1. \A i \in DOMAIN wal : wal[i].ts \in Int /\ wal[i].ts >= 0 /\ wal[i].ts <= commit_ts
  <2>1. wal \in Seq(Record) /\ commit_ts \in Int
    BY DEF CoreInv, TypeOK
  <2>2. \A i \in DOMAIN wal : wal[i].ts \in Int
    BY <2>1, RecordParts
  <2> QED BY <2>1, <2>2 DEF CoreInv, WalOrdered, SignInv
<1> TAKE e \in delta
<1>2. PICK i \in DOMAIN wal : e \in Stamp(wal[i].ts, wal[i].batches)
  BY ReplayedMember DEF CoveredInv, NothingVisibleLost
<1>3. e.ts = wal[i].ts
  BY <1>2 DEF Stamp
<1> QED BY <1>1, <1>3

\* The buffered inserts of r into t by the transaction of s.
Buffered(s, t, r) == {i \in DOMAIN txn[s].buffer : txn[s].buffer[i].table = t /\ r \in txn[s].buffer[i].rows}

\* What the batches of a transaction insert and delete.
LEMMA TxnWrites ==
    ASSUME CoreInv, TxnInv, NEW s \in Sessions, txn[s] # NoTxn, NEW t, NEW r \in Row
    PROVE  /\ TxnBatches(txn[s]) \in Seq(Batch)
           /\ Marked(TxnBatches(txn[s]), t, "tombstone", r.k) <=> r.k \in DeletedKeys(s, t)
           /\ ~Marked(TxnBatches(txn[s]), t, "tombstone_update", r.k)
           /\ t \notin PKTables => r.k \notin DeletedKeys(s, t)
           /\ NewIn(TxnBatches(txn[s]), t, r) = Buffered(s, t, r)
<1> DEFINE buf == txn[s].buffer
           del == txn[s].tombstones
           bs  == buf \o del
<1>1. buf \in Seq(Batch) /\ del \in Seq(Batch) /\ bs = TxnBatches(txn[s])
  BY TxnParts DEF CoreInv, TxnBatches
<1>2. /\ \A i \in DOMAIN buf : buf[i].kind = "insert" /\ buf[i].keys = {}
      /\ \A i \in DOMAIN del : del[i].kind = "tombstone" /\ del[i].rows = {} /\ del[i].table \in PKTables
  BY DEF TxnInv, InsertOnly, TombOnly
<1>3. \A k : k \in DeletedKeys(s, t) <=> \E i \in DOMAIN del : del[i].table = t /\ k \in del[i].keys
  BY DEF DeletedKeys
<1> HIDE DEF buf, del
<1>4. /\ bs \in Seq(Batch)
      /\ \A i \in DOMAIN buf : i \in DOMAIN bs /\ bs[i] = buf[i]
      /\ \A i \in DOMAIN del : Len(buf) + i \in DOMAIN bs /\ bs[Len(buf) + i] = del[i]
      /\ \A i \in DOMAIN bs : \/ (i \in DOMAIN buf /\ bs[i] = buf[i])
                              \/ \E j \in DOMAIN del : bs[i] = del[j]
  <2>1. /\ bs \in Seq(Batch)
        /\ \A i \in DOMAIN buf : i \in DOMAIN bs /\ bs[i] = buf[i]
        /\ \A i \in DOMAIN del : Len(buf) + i \in DOMAIN bs /\ bs[Len(buf) + i] = del[i]
    BY <1>1, ConcatParts
  <2>2. \A i \in DOMAIN bs : (i \in DOMAIN buf /\ bs[i] = buf[i])
                             \/ (i - Len(buf) \in DOMAIN del /\ bs[i] = del[i - Len(buf)])
    BY <1>1, ConcatParts
  <2> HIDE DEF bs
  <2> QED BY <2>1, <2>2
<1> HIDE DEF bs
<1>5. Marked(bs, t, "tombstone", r.k) <=> r.k \in DeletedKeys(s, t)
  BY <1>2, <1>3, <1>4 DEF Marked
<1>6. ~Marked(bs, t, "tombstone_update", r.k)
  BY <1>2, <1>4 DEF Marked
<1>7. t \notin PKTables => r.k \notin DeletedKeys(s, t)
  BY <1>2, <1>3
<1>8. NewIn(bs, t, r) = Buffered(s, t, r)
  <2>1. NewIn(bs, t, r) = {i \in DOMAIN buf : buf[i].table = t /\ r \in buf[i].rows}
    BY <1>2, <1>4 DEF NewIn
  <2> QED BY <2>1 DEF Buffered, buf
<1> QED BY <1>1, <1>4, <1>5, <1>6, <1>7, <1>8

\* Read-your-writes is a property of every state that satisfies the invariant.
LEMMA OwnWritesHold ==
    ASSUME CoreInv, CoveredInv, SignInv, TxnInv, CapInv
    PROVE  OwnWrites
<1> SUFFICES ASSUME NEW s \in Sessions, NEW t \in Tables, txn[s] # NoTxn
             PROVE  Visible(s, t) =
                      [r \in Row |-> IF r.k \in DeletedKeys(s, t) THEN 0
                         ELSE CommittedAt(t, txn[s].snapshot_ts)[r]
                              + Cardinality(Buffered(s, t, r))]
  BY DEF OwnWrites, Buffered
<1> DEFINE E  == EntriesAt(delta, txn[s].snapshot_ts)
           bs == TxnBatches(txn[s])
           F  == E \cup Stamp(InsInf, bs)
           n(r) == Cardinality(Buffered(s, t, r))
<1>1. base[t] \in Bag /\ bs \in Seq(Batch) /\ commit_ts \in Int
  BY TxnParts DEF CoreInv, TypeOK
<1>2. E \in SUBSET delta /\ IsFiniteSet(E)
  <2>1. E \in SUBSET delta
    BY DEF EntriesAt
  <2> QED BY <2>1, FS_Subset DEF CoreInv
<1>3. InsInf \in Nat /\ InsInf > 0 /\ \A e \in E : e.ts \in Nat /\ e.ts < InsInf
  <2>1. InsInf \in Nat /\ MaxTs \in Nat /\ InsInf > MaxTs
    BY InsInfAssumption, BoundsAssumption, NoneAssumption
  <2>2. \A e \in E : e.ts \in Nat /\ e.ts <= MaxTs
    BY <1>1, <1>2, <2>1, DeltaTs DEF CapInv
  <2> QED BY <2>1, <2>2
<1>4. Visible(s, t) = MergeDelta(t, base[t], F) /\ CommittedAt(t, txn[s].snapshot_ts) = MergeDelta(t, base[t], E)
  BY DEF Visible, CommittedAt
<1>5. MergeDelta(t, base[t], F) \in Bag
  <2>1. IsFiniteSet(Stamp(InsInf, bs))
    BY <1>1, StampFinite
  <2>2. IsFiniteSet(F)
    BY <1>2, <2>1, FS_Union
  <2> HIDE DEF F
  <2> QED BY <1>1, <2>2, MergeType
<1>6. ASSUME NEW r \in Row
      PROVE  MergeDelta(t, base[t], F)[r] =
               (IF r.k \in DeletedKeys(s, t) THEN 0 ELSE MergeDelta(t, base[t], E)[r] + n(r))
  <2> DEFINE old == MergeDelta(t, base[t], E)[r]
             m   == MergeDelta(t, base[t], E \cup Stamp(InsInf, bs))[r]
             new == Cardinality(NewIn(bs, t, r))
             dl  == Marked(bs, t, "tombstone", r.k)
             up  == Marked(bs, t, "tombstone_update", r.k)
  <2>1. /\ (dl <=> r.k \in DeletedKeys(s, t)) /\ ~up
        /\ (t \notin PKTables => r.k \notin DeletedKeys(s, t))
        /\ new = n(r)
    BY TxnWrites
  <2>2. /\ (t \in PKTables /\ dl => m = 0)
        /\ (t \notin PKTables \/ (~dl /\ ~up) => m = old + new)
    <3>1. CommitMerged(t, base[t], E, InsInf, bs, r)
      <4> HIDE DEF E, bs
      <4> QED BY <1>1, <1>2, <1>3, MergeCommit
    <3> HIDE DEF E, bs
    <3> QED BY <3>1 DEF CommitMerged
  <2> HIDE DEF E, bs, n, dl, up, old, new
  <2>3. CASE r.k \in DeletedKeys(s, t)
    BY <2>1, <2>2, <2>3
  <2>4. CASE r.k \notin DeletedKeys(s, t)
    BY <2>1, <2>2, <2>4 DEF old
  <2> QED BY <2>3, <2>4
<1> HIDE DEF E, F, bs, n
<1>7. MergeDelta(t, base[t], F) = [r \in Row |-> MergeDelta(t, base[t], F)[r]]
  BY <1>5 DEF Bag
<1>8. MergeDelta(t, base[t], F) =
        [r \in Row |-> IF r.k \in DeletedKeys(s, t) THEN 0 ELSE MergeDelta(t, base[t], E)[r] + n(r)]
  BY <1>6, <1>7
<1> QED BY <1>4, <1>8 DEF n

\* Read-your-writes, whatever Allow has besides a failing truncate: whatever others commit and
\* the administrator restores or folds, a transaction reads its snapshot without the keys it
\* deleted plus the rows it inserted and did not delete.
THEOREM EngineOwnWrites ==
    ASSUME "truncate_fails" \notin Allow
    PROVE  Spec => []OwnWrites
<1> DEFINE I == CoreInv /\ CoveredInv /\ SignInv /\ TxnInv /\ CapInv
<1>1. Init => I
  BY CoreInit, CoveredInit, WriteInit DEF Init, SignInv
<1>2. I /\ [Next]_vars => I'
  BY CoreStep, CoveredStep, SignStep, TxnStep, CapStep
<1>3. I => OwnWrites
  BY OwnWritesHold
<1> QED BY <1>1, <1>2, <1>3, PTL DEF Spec

----------------------------------------------------------------------------
(***************************************************************************)
(* What a commit means.  The batches in flight are those of the owner's    *)
(* open transaction or of one autocommit statement, and when they reach    *)
(* the delta their timestamp is positive and newer than every entry.       *)
(***************************************************************************)
JobOf(s, bs) == IF txn[s] = NoTxn THEN OneStatement(bs) ELSE bs = TxnBatches(txn[s])
JobInv == pc \in {"wal", "apply"} => owner \in Sessions /\ JobOf(owner, job)

ApplyInv == pc = "apply" => 1 <= commit_ts /\ \A e \in delta : e.ts < commit_ts

LEMMA JobStep ==
    ASSUME "truncate_fails" \notin Allow, JobInv, [Next]_vars
    PROVE  JobInv'
<1>1. ASSUME pc' \notin {"wal", "apply"}
      PROVE  JobInv'
  BY <1>1 DEF JobInv
<1>2. ASSUME NEW s \in Sessions, Statement(s)
      PROVE  JobInv'
  <2>1. Idle
    BY <1>2, StatementBatches
  <2>2. CASE Commit(s)
    BY <2>2 DEF Commit, AllocateTs, JobInv, JobOf
  <2>3. CASE txn[s] = NoTxn /\ \E bs \in Seq(Batch) : OneStatement(bs) /\ AllocateTs(s, bs)
    BY <2>3 DEF AllocateTs, JobInv, JobOf
  <2>4. CASE \/ Begin(s) \/ Rollback(s)
             \/ \E n \in Names : RestoreSql(s, n)
             \/ \E b \in InsertOnly : Buffer(s, "insert", b)
             \/ \E b \in TombOnly("tombstone") : Buffer(s, "tombstone", b)
    BY <1>1, <2>1, <2>4 DEF Begin, Rollback, RestoreSql, RestoreTo, TruncateFails, Buffer, Idle
  <2> QED BY <1>2, <2>2, <2>3, <2>4, StatementBatches
<1>3. CASE Admin
  BY <1>1, <1>3 DEF Admin, Snapshot, AdminRestore, AdminRestoreTo, RestoreTo, CheckpointTable,
                    CheckpointEnd, TruncateFails, CheckpointCancel, Idle
<1>4. CASE WalWrite
  BY <1>4 DEF WalWrite, JobInv, JobOf
<1>5. CASE WalFail \/ DeltaApply \/ Crash
  BY <1>1, <1>5 DEF WalFail, DeltaApply, Crash
<1>6. CASE UNCHANGED vars
  BY <1>6 DEF vars, JobInv, JobOf
<1> QED BY <1>2, <1>3, <1>4, <1>5, <1>6 DEF Next

LEMMA ApplyStep ==
    ASSUME "truncate_fails" \notin Allow, CoreInv, DurableInv, ApplyInv, [Next]_vars
    PROVE  ApplyInv'
<1>1. ASSUME pc' # "apply"
      PROVE  ApplyInv'
  BY <1>1 DEF ApplyInv
<1>2. ASSUME NEW s \in Sessions, Statement(s)
      PROVE  ApplyInv'
  <2>1. Idle
    BY <1>2, StatementBatches
  <2> QED BY <1>1, <1>2, <2>1, StatementBatches DEF Begin, Rollback, Commit, AllocateTs, RestoreSql,
                                                   RestoreTo, TruncateFails, Buffer, Idle
<1>3. CASE Admin
  BY <1>1, <1>3 DEF Admin, Snapshot, AdminRestore, AdminRestoreTo, RestoreTo, CheckpointTable,
                    CheckpointEnd, TruncateFails, CheckpointCancel, Idle
<1>4. CASE WalWrite
  <2>1. pc = "wal" /\ delta' = delta /\ commit_ts' = commit_ts /\ Replayed = delta /\ 1 <= commit_ts
    BY <1>4 DEF WalWrite, DurableInv, DurableDelta, CounterInv
  <2>2. \A e \in delta : e.ts < commit_ts
    <3> TAKE e \in delta
    <3>1. PICK i \in DOMAIN wal : e \in Stamp(wal[i].ts, wal[i].batches)
      BY <2>1, ReplayedMember
    <3>2. e.ts = wal[i].ts
      BY <3>1 DEF Stamp
    <3> QED BY <2>1, <3>2 DEF CoreInv, WalOrdered
  <2> QED BY <2>1, <2>2 DEF ApplyInv
<1>5. CASE WalFail \/ DeltaApply \/ Crash
  BY <1>1, <1>5 DEF WalFail, DeltaApply, Crash
<1>6. CASE UNCHANGED vars
  BY <1>6 DEF vars, ApplyInv
<1> QED BY <1>2, <1>3, <1>4, <1>5, <1>6 DEF Next

\* The keys that a commit of bs touches in t, the batches that put row r there, and what a
\* scan of t returns once session s has committed bs.
Touched(bs, t) == UNION {bs[i].keys : i \in {j \in DOMAIN bs : bs[j].table = t}}
Written(bs, t, r) == {i \in {j \in DOMAIN bs : bs[j].table = t} : r \in bs[i].rows}
Outcome(s, bs, t) ==
    [r \in Row |-> IF r.k \notin Touched(bs, t)
                   THEN MergeDelta(t, base[t], delta)[r] + Cardinality(Written(bs, t, r))
                   ELSE IF txn[s] = NoTxn THEN Cardinality(Written(bs, t, r)) ELSE 0]

\* The batches of a commit, whoever wrote them: a row batch has no keys, a tombstone no rows.
LEMMA JobShape ==
    ASSUME CoreInv, TxnInv, NEW s \in Sessions, NEW bs, JobOf(s, bs)
    PROVE  \A i \in DOMAIN bs :
             \/ bs[i].kind = "insert" /\ bs[i].keys = {}
             \/ /\ bs[i].kind \in {"tombstone", "tombstone_update"}
                /\ bs[i].rows = {} /\ bs[i].table \in PKTables
                /\ (txn[s] # NoTxn => bs[i].kind = "tombstone")
<1>1. CASE txn[s] = NoTxn
  BY <1>1 DEF JobOf, OneStatement, InsertOnly, TombOnly
<1>2. CASE txn[s] # NoTxn
  <2> DEFINE buf == txn[s].buffer
             del == txn[s].tombstones
  <2>1. buf \in Seq(Batch) /\ del \in Seq(Batch) /\ bs = buf \o del
    BY <1>2, TxnParts DEF CoreInv, JobOf, TxnBatches
  <2>2. /\ \A i \in DOMAIN buf : buf[i].kind = "insert" /\ buf[i].keys = {}
        /\ \A i \in DOMAIN del : del[i].kind = "tombstone" /\ del[i].rows = {} /\ del[i].table \in PKTables
    BY <1>2 DEF TxnInv, InsertOnly, TombOnly
  <2> HIDE DEF buf, del
  <2>3. \A i \in DOMAIN bs : (i \in DOMAIN buf /\ bs[i] = buf[i])
                             \/ (i - Len(buf) \in DOMAIN del /\ bs[i] = del[i - Len(buf)])
    BY <2>1, ConcatParts
  <2> QED BY <2>2, <2>3
<1> QED BY <1>1, <1>2

LEMMA JobWrites ==
    ASSUME CoreInv, TxnInv, NEW s \in Sessions, NEW bs, JobOf(s, bs), NEW t, NEW r \in Row
    PROVE  /\ r.k \in Touched(bs, t) <=> Marked(bs, t, "tombstone", r.k) \/ Marked(bs, t, "tombstone_update", r.k)
           /\ r.k \in Touched(bs, t) => t \in PKTables
           /\ NewIn(bs, t, r) = Written(bs, t, r)
           /\ txn[s] # NoTxn => ~Marked(bs, t, "tombstone_update", r.k)
           /\ txn[s] = NoTxn /\ Marked(bs, t, "tombstone", r.k) => Written(bs, t, r) = {}
<1>1. \A i \in DOMAIN bs :
         \/ bs[i].kind = "insert" /\ bs[i].keys = {}
         \/ /\ bs[i].kind \in {"tombstone", "tombstone_update"}
            /\ bs[i].rows = {} /\ bs[i].table \in PKTables
            /\ (txn[s] # NoTxn => bs[i].kind = "tombstone")
  BY JobShape
<1>2. r.k \in Touched(bs, t) <=> \E i \in DOMAIN bs : bs[i].table = t /\ r.k \in bs[i].keys
  BY DEF Touched
<1>3. r.k \in Touched(bs, t) <=> Marked(bs, t, "tombstone", r.k) \/ Marked(bs, t, "tombstone_update", r.k)
  BY <1>1, <1>2 DEF Marked
<1>4. r.k \in Touched(bs, t) => t \in PKTables
  BY <1>1, <1>2
<1>5. NewIn(bs, t, r) = Written(bs, t, r)
  BY <1>1 DEF NewIn, Written
<1>6. txn[s] # NoTxn => ~Marked(bs, t, "tombstone_update", r.k)
  BY <1>1 DEF Marked
<1>7. txn[s] = NoTxn /\ Marked(bs, t, "tombstone", r.k) => Written(bs, t, r) = {}
  <2>1. SUFFICES ASSUME txn[s] = NoTxn, Marked(bs, t, "tombstone", r.k), NEW j \in Written(bs, t, r)
                 PROVE  FALSE
    OBVIOUS
  <2>2. OneStatement(bs)
    BY <2>1 DEF JobOf
  <2>3. PICK i \in DOMAIN bs : bs[i].table = t /\ bs[i].kind = "tombstone" /\ r.k \in bs[i].keys
    BY <2>1 DEF Marked
  <2>4. j \in DOMAIN bs /\ bs[j].table = t /\ r \in bs[j].rows
    BY <2>1 DEF Written
  <2> QED BY <2>2, <2>3, <2>4 DEF OneStatement
<1> QED BY <1>3, <1>4, <1>5, <1>6, <1>7

\* The step relation that CommitApplied boxes.
AppliedStep ==
    pc = "apply" =>
         \A t \in Tables :
            LET mine   == {i \in DOMAIN job : job[i].table = t}
                gone   == UNION {job[i].keys : i \in mine}
                new(r) == Cardinality({i \in mine : r \in job[i].rows})
                old    == MergeDelta(t, base[t], delta)
            IN  MergeDelta(t, base'[t], delta') =
                  [r \in Row |-> IF r.k \notin gone THEN old[r] + new(r)
                                 ELSE IF txn[owner] = NoTxn THEN new(r) ELSE 0]

LEMMA AppliedMerge ==
    ASSUME CoreInv, TxnInv, owner \in Sessions, JobOf(owner, job), NEW t \in Tables,
           1 <= commit_ts, \A e \in delta : e.ts \in Nat /\ e.ts < commit_ts
    PROVE  MergeDelta(t, base[t], delta \cup Stamp(commit_ts, job)) = Outcome(owner, job, t)
<1> DEFINE F == delta \cup Stamp(commit_ts, job)
           n(r) == Cardinality(Written(job, t, r))
<1>1. base[t] \in Bag /\ job \in Seq(Batch) /\ IsFiniteSet(delta)
  BY DEF CoreInv, TypeOK
<1>2. commit_ts \in Nat /\ commit_ts > 0
  BY DEF CoreInv, TypeOK
<1>3. MergeDelta(t, base[t], F) \in Bag
  <2>1. IsFiniteSet(Stamp(commit_ts, job))
    BY <1>1, StampFinite
  <2>2. IsFiniteSet(F)
    BY <1>1, <2>1, FS_Union
  <2> HIDE DEF F
  <2> QED BY <1>1, <2>2, MergeType
<1>4. ASSUME NEW r \in Row
      PROVE  MergeDelta(t, base[t], F)[r] =
               (IF r.k \notin Touched(job, t) THEN MergeDelta(t, base[t], delta)[r] + n(r)
                ELSE IF txn[owner] = NoTxn THEN n(r) ELSE 0)
  <2> DEFINE old == MergeDelta(t, base[t], delta)[r]
             m   == MergeDelta(t, base[t], delta \cup Stamp(commit_ts, job))[r]
             new == Cardinality(NewIn(job, t, r))
             dl  == Marked(job, t, "tombstone", r.k)
             up  == Marked(job, t, "tombstone_update", r.k)
  <2>1. /\ (r.k \in Touched(job, t) <=> (dl \/ up)) /\ (r.k \in Touched(job, t) => t \in PKTables)
        /\ new = n(r) /\ (txn[owner] # NoTxn => ~up)
        /\ (txn[owner] = NoTxn /\ dl => Written(job, t, r) = {})
    BY <1>1, JobWrites
  <2>2. /\ (t \in PKTables /\ dl => m = 0)
        /\ (t \in PKTables /\ ~dl /\ up => m = new)
        /\ (t \notin PKTables \/ (~dl /\ ~up) => m = old + new)
    <3>1. CommitMerged(t, base[t], delta, commit_ts, job, r)
      BY <1>1, <1>2, MergeCommit
    <3> QED BY <3>1 DEF CommitMerged
  <2>3. Written(job, t, r) = {} => n(r) = 0
    BY FS_EmptySet
  <2> HIDE DEF n, dl, up, old, new
  <2>4. CASE r.k \notin Touched(job, t)
    BY <2>1, <2>2, <2>4 DEF old
  <2>5. CASE r.k \in Touched(job, t) /\ dl
    BY <2>1, <2>2, <2>3, <2>5
  <2>6. CASE r.k \in Touched(job, t) /\ ~dl
    BY <2>1, <2>2, <2>6
  <2> QED BY <2>4, <2>5, <2>6
<1> HIDE DEF F, n
<1>5. MergeDelta(t, base[t], F) = [r \in Row |-> MergeDelta(t, base[t], F)[r]]
  BY <1>3 DEF Bag
<1>6. MergeDelta(t, base[t], F) =
        [r \in Row |-> IF r.k \notin Touched(job, t) THEN MergeDelta(t, base[t], delta)[r] + n(r)
                       ELSE IF txn[owner] = NoTxn THEN n(r) ELSE 0]
  BY <1>4, <1>5
<1> QED BY <1>6 DEF F, n, Outcome

\* The commit in flight can only reach the delta, through its own last step or a replay.
LEMMA AppliedNext ==
    ASSUME "truncate_fails" \notin Allow,
           CoreInv, DurableInv, CoveredInv, SignInv, TxnInv, JobInv, ApplyInv, Next
    PROVE  AppliedStep
<1>1. SUFFICES ASSUME pc = "apply" PROVE AppliedStep
  BY DEF AppliedStep
<1>2. DeltaApply \/ Crash
  <2>1. \A s \in Sessions : ~Statement(s)
    BY <1>1, StatementBatches DEF Idle
  <2>2. ~Admin
    BY <1>1 DEF Admin, Snapshot, AdminRestore, AdminRestoreTo, CheckpointTable, CheckpointEnd, TruncateFails,
                CheckpointCancel, Idle
  <2>3. ~WalWrite /\ ~WalFail
    BY <1>1 DEF WalWrite, WalFail
  <2> QED BY <2>1, <2>2, <2>3 DEF Next
<1>3. base' = base /\ delta' = delta \cup Stamp(commit_ts, job)
  BY <1>1, <1>2 DEF DeltaApply, Crash, DurableInv, DurableDelta
<1>4. \A e \in delta : e.ts \in Nat
  BY DeltaTs
<1>5. ASSUME NEW t \in Tables
      PROVE  MergeDelta(t, base'[t], delta') = Outcome(owner, job, t)
  BY <1>1, <1>3, <1>4, AppliedMerge DEF JobInv, ApplyInv
<1> QED BY <1>5 DEF AppliedStep, Outcome, Touched, Written

\* What a commit means, as long as no checkpoint is interrupted, no truncate fails and
\* restore_to is not asked for a timestamp before the last one: although its rows and its
\* tombstones share one timestamp, an autocommit statement replaces the rows of the keys it
\* touches by its new ones, a transaction leaves none for the keys it deleted, and every
\* other row stays; also when the process dies between the fsync and the in-memory append.
THEOREM EngineCommitApplied ==
    ASSUME "truncate_fails" \notin Allow, Orderly
    PROVE  Spec => CommitApplied
<1> DEFINE I == CoreInv /\ DurableInv /\ CoveredInv /\ SignInv /\ TxnInv /\ JobInv /\ ApplyInv
<1>1. Init => I
  BY CoreInit, DurableInit, CoveredInit, WriteInit DEF Init, SignInv, JobInv, ApplyInv
<1>2. I /\ [Next]_vars => I'
  BY CoreStep, DurableStep, CoveredStep, SignStep, TxnStep, JobStep, ApplyStep
<1>3. I /\ [Next]_vars => [AppliedStep]_vars
  BY AppliedNext
<1>4. Spec => [][AppliedStep]_vars
  BY <1>1, <1>2, <1>3, PTL DEF Spec
<1> QED BY <1>4, PTL DEF CommitApplied, AppliedStep

----------------------------------------------------------------------------
(***************************************************************************)
(* Uniqueness of keys.  _enforce_unique looks at what the writer can see,  *)
(* so it suffices as long as nobody else writes while a transaction is     *)
(* open.  The invariant speaks of every timestamp, because a restore can   *)
(* bring back any of them.                                                 *)
(***************************************************************************)

\* Two rows that a declared constraint of t keeps apart.
Clash(t, r, q) == (t \in PKTables /\ r.k = q.k) \/ (t \in UniqueTables /\ r.v # Null /\ r.v = q.v)
UniqueBag(t, B) == \A r, q \in Row : B[r] > 0 /\ B[q] > 0 /\ Clash(t, r, q) => r = q /\ B[r] = 1

\* Rows that pass _enforce_unique against B can be added to it, each once.
LEMMA UniqueAdd ==
    ASSUME NEW t, NEW B \in Bag, UniqueBag(t, B), NEW frame, EnforceUnique(t, frame, B),
           NEW C, \A r \in Row : C[r] \in Nat,
           \A r \in Row : C[r] <= B[r] + (IF \E i \in DOMAIN frame : frame[i] = r THEN 1 ELSE 0)
    PROVE  UniqueBag(t, C)
<1> DEFINE New(r) == \E i \in DOMAIN frame : frame[i] = r
<1>1. \A r \in Row : B[r] \in Nat
  BY DEF Bag
<1>2. ASSUME NEW r \in Row, C[r] > 0 PROVE New(r) \/ B[r] > 0
  <2>1. CASE New(r)
    BY <2>1
  <2>2. CASE ~New(r)
    BY <1>1, <1>2, <2>2
  <2> QED BY <2>1, <2>2
<1>3. ASSUME NEW r \in Row, C[r] > 0 PROVE (New(r) /\ B[r] = 0 => C[r] = 1) /\ (~New(r) => C[r] <= B[r])
  BY <1>1, <1>3
<1>4. ASSUME NEW col, UniqueOn(col, frame, B), NEW r \in Row, NEW q \in Row, C[r] > 0, C[q] > 0,
             r[col] = q[col], r[col] # Null, B[r] > 0 /\ B[q] > 0 => r = q /\ B[r] = 1
      PROVE  r = q /\ C[r] = 1
  <2>1. \A i \in DOMAIN frame : frame[i][col] # Null =>
            /\ \A j \in DOMAIN frame : j # i => frame[j][col] # frame[i][col]
            /\ \A x \in Row : B[x] > 0 => x[col] # frame[i][col]
    BY <1>4 DEF UniqueOn, RowsOf
  <2>2. CASE New(r)
    <3>1. PICK i \in DOMAIN frame : frame[i] = r
      BY <2>2
    <3>2. ~(B[r] > 0) /\ ~(B[q] > 0)
      BY <1>4, <2>1, <3>1
    <3>3. New(q)
      BY <1>2, <1>4, <3>2
    <3>4. PICK j \in DOMAIN frame : frame[j] = q
      BY <3>3
    <3>5. r = q
      BY <1>4, <2>1, <3>1, <3>4
    <3>6. B[r] = 0
      BY <1>1, <3>2
    <3> QED BY <1>3, <1>4, <2>2, <3>5, <3>6
  <2>3. CASE ~New(r)
    <3>1. B[r] > 0
      BY <1>2, <1>4, <2>3
    <3>2. ~New(q)
      BY <1>4, <2>1, <3>1
    <3>3. B[q] > 0
      BY <1>2, <1>4, <3>2
    <3>4. r = q /\ B[r] = 1 /\ C[r] <= B[r]
      BY <1>3, <1>4, <2>3, <3>1, <3>3
    <3> QED BY <1>4, <3>4
  <2> QED BY <2>2, <2>3
<1> HIDE DEF New
<1> SUFFICES ASSUME NEW r \in Row, NEW q \in Row, C[r] > 0, C[q] > 0, Clash(t, r, q)
             PROVE  r = q /\ C[r] = 1
  BY DEF UniqueBag
<1>5. B[r] > 0 /\ B[q] > 0 => r = q /\ B[r] = 1
  BY DEF UniqueBag
<1>6. CASE t \in PKTables /\ r.k = q.k
  <2>1. r.k \in Keys /\ r.k # Null
    BY KeysAssumption DEF Row
  <2>2. UniqueOn("k", frame, B)
    BY <1>6 DEF EnforceUnique
  <2> QED BY <1>4, <1>5, <1>6, <2>1, <2>2
<1>7. CASE t \in UniqueTables /\ r.v # Null /\ r.v = q.v
  <2>1. UniqueOn("v", frame, B)
    BY <1>7 DEF EnforceUnique
  <2> QED BY <1>4, <1>5, <1>7, <2>1
<1> QED BY <1>6, <1>7 DEF Clash

\* Removing rows keeps a bag unique.
LEMMA UniqueSub ==
    ASSUME NEW t, NEW B \in Bag, UniqueBag(t, B), NEW C, \A r \in Row : C[r] \in Nat /\ C[r] <= B[r]
    PROVE  UniqueBag(t, C)
<1>1. \A r \in Row : B[r] \in Nat
  BY DEF Bag
<1> SUFFICES ASSUME NEW r \in Row, NEW q \in Row, C[r] > 0, C[q] > 0, Clash(t, r, q)
             PROVE  r = q /\ C[r] = 1
  BY DEF UniqueBag
<1>2. B[r] > 0 /\ B[q] > 0
  BY <1>1
<1>3. r = q /\ B[r] = 1
  BY <1>2 DEF UniqueBag
<1> QED BY <1>1, <1>3

\* The committed rows of a unique bag are what KeysUnique asks for.
LEMMA UniqueKeys ==
    ASSUME NEW t, NEW B \in Bag, UniqueBag(t, B),
           NEW o \in Occurrences(B, RowsOf(B)), NEW p \in Occurrences(B, RowsOf(B)), o # p
    PROVE  /\ t \in PKTables => o[1].k # p[1].k
           /\ t \in UniqueTables /\ o[1].v # Null => o[1].v # p[1].v
<1>1. PICK r \in RowsOf(B) : o \in {r} \X (1..B[r])
  BY DEF Occurrences
<1>2. PICK q \in RowsOf(B) : p \in {q} \X (1..B[q])
  BY DEF Occurrences
<1>3. r \in Row /\ q \in Row /\ B[r] > 0 /\ B[q] > 0 /\ B[r] \in Nat /\ B[q] \in Nat
  BY DEF RowsOf, Bag
<1>4. o[1] = r /\ p[1] = q /\ o[2] \in 1..B[r] /\ p[2] \in 1..B[q] /\ o = <<o[1], o[2]>> /\ p = <<p[1], p[2]>>
  BY <1>1, <1>2
<1>5. ~Clash(t, r, q)
  <2> SUFFICES ASSUME Clash(t, r, q) PROVE FALSE
    OBVIOUS
  <2>1. r = q /\ B[r] = 1 /\ B[q] = 1
    BY <1>3 DEF UniqueBag
  <2>2. o[2] = 1 /\ p[2] = 1
    BY <1>4, <2>1
  <2> QED BY <1>4, <2>1, <2>2
<1> QED BY <1>4, <1>5 DEF Clash

\* While a transaction is open no other is, and nobody else is committing.
Serial ==
    \A s \in Sessions : txn[s] # NoTxn =>
        /\ \A u \in Sessions : u # s => txn[u] = NoTxn
        /\ pc \in {"wal", "apply"} => owner = s

\* Unique at every timestamp a restore could return to, in what an open transaction sees,
\* and once the commit in flight is applied.
HistoryUnique == \A t \in Tables, ts \in Int : UniqueBag(t, CommittedAt(t, ts))
TxnUnique ==
    \A s \in Sessions : txn[s] # NoTxn =>
        /\ \A e \in delta : e.ts <= txn[s].snapshot_ts
        /\ \A t \in Tables : UniqueBag(t, Visible(s, t))
PendingUnique ==
    pc \in {"wal", "apply"} => \A t \in Tables : UniqueBag(t, Outcome(owner, job, t))

UniqueInv == HistoryUnique /\ TxnUnique /\ PendingUnique

\* The invariants of the engine that this argument rests on.
WriteInv == /\ CoreInv /\ DurableInv /\ CoveredInv /\ SignInv /\ IsolationInv
            /\ TxnInv /\ CapInv /\ JobInv /\ ApplyInv

LEMMA TipBag ==
    ASSUME WriteInv, NEW t \in Tables
    PROVE  EntriesAt(delta, commit_ts) = delta /\ MergeDelta(t, base[t], delta) \in Bag
<1>1. EntriesAt(delta, commit_ts) = delta
  BY DeltaTs DEF WriteInv, EntriesAt
<1>2. base[t] \in Bag /\ IsFiniteSet(delta)
  BY DEF WriteInv, CoreInv, TypeOK
<1> QED BY <1>1, <1>2, MergeType

LEMMA TipUnique ==
    ASSUME WriteInv, HistoryUnique, NEW t \in Tables
    PROVE  /\ EntriesAt(delta, commit_ts) = delta
           /\ MergeDelta(t, base[t], delta) \in Bag
           /\ UniqueBag(t, MergeDelta(t, base[t], delta))
<1>1. commit_ts \in Int
  BY DEF WriteInv, CoreInv, TypeOK
<1>2. UniqueBag(t, CommittedAt(t, commit_ts))
  BY <1>1 DEF HistoryUnique
<1> QED BY <1>2, TipBag DEF CommittedAt

\* bs writes the rows new into t and touches the keys of tombs, and no other table.
WritesOnly(bs, t, new, tombs) ==
    /\ Touched(bs, t) = Touched(tombs, t)
    /\ \A r \in Row : r \in new => Cardinality(Written(bs, t, r)) = 1
    /\ \A r \in Row \ new : Written(bs, t, r) = {}
    /\ \A u : u # t => Touched(bs, u) = {} /\ \A r \in Row : Written(bs, u, r) = {}

\* The batches of one statement on t: perhaps one of new rows, then tombstones.
LEMMA InsThenTombs ==
    ASSUME NEW t \in Tables, NEW new \in SUBSET Row, NEW ins, NEW tombs \in Seq(Batch),
           ins = <<InsertBatch(t, new)>> \/ (new = {} /\ ins = <<>>),
           \A i \in DOMAIN tombs : tombs[i].table = t /\ tombs[i].rows = {}
    PROVE  ins \o tombs \in Seq(Batch) /\ WritesOnly(ins \o tombs, t, new, tombs)
<1> DEFINE b == InsertBatch(t, new)
           bs == ins \o tombs
<1>1. b \in Batch /\ b.table = t /\ b.rows = new /\ b.keys = {}
  BY BatchTypes DEF InsertBatch
<1>2. ins = <<b>> \/ (new = {} /\ ins = <<>>)
  OBVIOUS
<1> HIDE DEF b
<1>3. ins \in Seq(Batch) /\ \A i \in DOMAIN ins : i = 1 /\ ins[i] = b
  <2>1. CASE ins = <<b>>
    BY <1>1, <2>1
  <2>2. CASE ins = <<>>
    BY <2>2
  <2> QED BY <1>2, <2>1, <2>2
<1>4. new # {} => 1 \in DOMAIN ins
  BY <1>1, <1>2
<1>5. /\ bs \in Seq(Batch)
      /\ \A i \in DOMAIN ins : i \in DOMAIN bs /\ bs[i] = ins[i]
      /\ \A i \in DOMAIN tombs : Len(ins) + i \in DOMAIN bs /\ bs[Len(ins) + i] = tombs[i]
  BY <1>3, ConcatParts
<1>6. \A i \in DOMAIN bs : (i \in DOMAIN ins /\ bs[i] = ins[i])
                           \/ (i - Len(ins) \in DOMAIN tombs /\ bs[i] = tombs[i - Len(ins)])
  BY <1>3, ConcatParts
<1> HIDE DEF bs
<1>7. \A i \in DOMAIN bs : (i = 1 /\ bs[i] = b) \/ \E j \in DOMAIN tombs : bs[i] = tombs[j]
  BY <1>3, <1>6
<1>8. \A i \in DOMAIN bs : bs[i].table = t
  BY <1>1, <1>7
<1>9. Touched(bs, t) = Touched(tombs, t)
  <2>1. \A k : k \in Touched(bs, t) <=> \E i \in DOMAIN bs : bs[i].table = t /\ k \in bs[i].keys
    BY DEF Touched
  <2>2. \A k : k \in Touched(tombs, t) <=> \E i \in DOMAIN tombs : tombs[i].table = t /\ k \in tombs[i].keys
    BY DEF Touched
  <2>3. \A k : k \in Touched(bs, t) => k \in Touched(tombs, t)
    BY <1>1, <1>7, <2>1, <2>2
  <2>4. \A k : k \in Touched(tombs, t) => k \in Touched(bs, t)
    BY <1>5, <2>1, <2>2
  <2> QED BY <2>3, <2>4
<1>10. ASSUME NEW r \in Row
       PROVE  /\ r \in new => Cardinality(Written(bs, t, r)) = 1
              /\ r \notin new => Written(bs, t, r) = {}
  <2>1. CASE r \in new
    <3>1. 1 \in DOMAIN bs /\ bs[1] = b
      BY <1>3, <1>4, <1>5, <2>1
    <3>2. Written(bs, t, r) = {1}
      BY <1>1, <1>7, <2>1, <3>1 DEF Written
    <3> QED BY <2>1, <3>2, FS_Singleton
  <2>2. CASE r \notin new
    <3>1. Written(bs, t, r) = {}
      BY <1>1, <1>7, <2>2 DEF Written
    <3> QED BY <2>2, <3>1
  <2> QED BY <2>1, <2>2
<1>11. \A u : u # t => Touched(bs, u) = {} /\ \A r \in Row : Written(bs, u, r) = {}
  BY <1>8 DEF Touched, Written
<1> QED BY <1>5, <1>9, <1>10, <1>11 DEF bs, WritesOnly

\* What an autocommit statement's constraint check looks at: the committed rows without the
\* keys its own tombstones name.
Checked(t, tombs) ==
    [r \in Row |-> IF r.k \in Touched(tombs, t) THEN 0 ELSE MergeDelta(t, base[t], delta)[r]]

\* What an autocommit statement commits: to its own table its new rows, each once, on top
\* of what its check looked at, and nothing to another table.
AddsTo(s, bs, t, new, tombs) ==
    /\ WritesOnly(bs, t, new, tombs)
    /\ Checked(t, tombs) \in Bag
    /\ \A r \in Row : Checked(t, tombs)[r] <= MergeDelta(t, base[t], delta)[r]
    /\ \A r \in Row : Outcome(s, bs, t)[r] = Checked(t, tombs)[r] + (IF r \in new THEN 1 ELSE 0)
    /\ \A u \in Tables \ {t} : \A r \in Row : Outcome(s, bs, u)[r] = MergeDelta(u, base[u], delta)[r]

LEMMA OutcomeAt ==
    ASSUME WriteInv, NEW s \in Sessions, txn[s] = NoTxn, NEW t \in Tables, NEW new \in SUBSET Row,
           NEW ins, NEW tombs \in Seq(Batch), NEW bs, bs = ins \o tombs,
           ins = <<InsertBatch(t, new)>> \/ (new = {} /\ ins = <<>>),
           \A i \in DOMAIN tombs : tombs[i].table = t /\ tombs[i].rows = {}
    PROVE  AddsTo(s, bs, t, new, tombs)
<1> DEFINE old(u) == MergeDelta(u, base[u], delta)
           B == Checked(t, tombs)
<1>1. WritesOnly(bs, t, new, tombs)
  BY InsThenTombs
<1>2. /\ Touched(bs, t) = Touched(tombs, t)
      /\ \A r \in Row : r \in new => Cardinality(Written(bs, t, r)) = 1
      /\ \A r \in Row : r \notin new => Cardinality(Written(bs, t, r)) = 0
      /\ \A u : u # t => Touched(bs, u) = {} /\ \A r \in Row : Written(bs, u, r) = {}
  <2>1. \A r \in Row : r \notin new => Written(bs, t, r) = {}
    BY <1>1 DEF WritesOnly
  <2>2. \A r \in Row : r \notin new => Cardinality(Written(bs, t, r)) = 0
    BY <2>1, FS_EmptySet
  <2> QED BY <1>1, <2>2 DEF WritesOnly
<1>3. \A u \in Tables : old(u) \in Bag /\ \A r \in Row : old(u)[r] \in Nat
  BY TipBag DEF Bag
<1>4. B = [r \in Row |-> IF r.k \in Touched(tombs, t) THEN 0 ELSE old(t)[r]]
  BY DEF Checked
<1> HIDE DEF old, B
<1>5. B \in Bag /\ \A r \in Row : B[r] \in Nat /\ B[r] <= old(t)[r]
  <2>1. \A r \in Row : (IF r.k \in Touched(tombs, t) THEN 0 ELSE old(t)[r]) \in Nat
    BY <1>3
  <2>2. \A r \in Row : B[r] \in Nat /\ B[r] <= old(t)[r]
    BY <1>3, <1>4
  <2> QED BY <1>4, <2>1, <2>2 DEF Bag
<1>6. ASSUME NEW r \in Row PROVE Outcome(s, bs, t)[r] = B[r] + (IF r \in new THEN 1 ELSE 0)
  <2>1. Outcome(s, bs, t)[r] =
          (IF r.k \notin Touched(tombs, t) THEN old(t)[r] + Cardinality(Written(bs, t, r))
           ELSE Cardinality(Written(bs, t, r)))
    BY <1>2 DEF Outcome, old
  <2>2. B[r] = (IF r.k \in Touched(tombs, t) THEN 0 ELSE old(t)[r])
    BY <1>4
  <2> QED BY <1>2, <1>3, <2>1, <2>2
<1>7. ASSUME NEW u \in Tables \ {t}, NEW r \in Row PROVE Outcome(s, bs, u)[r] = old(u)[r]
  <2>1. r.k \notin Touched(bs, u) /\ Written(bs, u, r) = {}
    BY <1>2
  <2>2. Cardinality(Written(bs, u, r)) = 0
    BY <2>1, FS_EmptySet
  <2>3. Outcome(s, bs, u)[r] = old(u)[r] + Cardinality(Written(bs, u, r))
    BY <2>1 DEF Outcome, old
  <2> QED BY <1>3, <2>2, <2>3
<1> QED BY <1>1, <1>5, <1>6, <1>7 DEF AddsTo, old, B

\* An autocommit statement that passed its check leaves every table unique.
LEMMA OutcomeUnique ==
    ASSUME WriteInv, HistoryUnique, NEW s \in Sessions, txn[s] = NoTxn,
           NEW t \in Tables, NEW frame, \A i \in DOMAIN frame : frame[i] \in Row,
           NEW new, new = {frame[i] : i \in DOMAIN frame}, NEW ins, NEW tombs \in Seq(Batch),
           ins = <<InsertBatch(t, new)>> \/ (new = {} /\ ins = <<>>),
           \A i \in DOMAIN tombs : tombs[i].table = t /\ tombs[i].rows = {},
           DOMAIN frame # {} => EnforceUnique(t, frame, Checked(t, tombs))
    PROVE  \A u \in Tables : UniqueBag(u, Outcome(s, ins \o tombs, u))
<1> DEFINE bs == ins \o tombs
           old(u) == MergeDelta(u, base[u], delta)
           B == Checked(t, tombs)
<1>1. new \in SUBSET Row /\ bs = ins \o tombs
  OBVIOUS
<1> HIDE DEF bs
<1>2. /\ B \in Bag
      /\ \A r \in Row : B[r] <= old(t)[r]
      /\ \A r \in Row : Outcome(s, bs, t)[r] = B[r] + (IF r \in new THEN 1 ELSE 0)
      /\ \A u \in Tables \ {t} : \A r \in Row : Outcome(s, bs, u)[r] = old(u)[r]
  <2>1. AddsTo(s, bs, t, new, tombs)
    BY <1>1, OutcomeAt
  <2> QED BY <2>1 DEF AddsTo
<1>3. \A u \in Tables : old(u) \in Bag /\ UniqueBag(u, old(u))
  BY TipUnique
<1> HIDE DEF B, old
<1>4. \A r \in Row : B[r] \in Nat
  BY <1>2 DEF Bag
<1>5. UniqueBag(t, B)
  BY <1>2, <1>3, <1>4, UniqueSub
<1>6. ASSUME NEW u \in Tables, u # t PROVE UniqueBag(u, Outcome(s, bs, u))
  BY <1>2, <1>3, <1>6 DEF UniqueBag
<1>7. UniqueBag(t, Outcome(s, bs, t))
  <2> DEFINE C == Outcome(s, bs, t)
  <2>1. \A r \in Row : C[r] = B[r] + (IF r \in new THEN 1 ELSE 0)
    BY <1>2
  <2>2. \A r \in Row : (r \in new) <=> (\E i \in DOMAIN frame : frame[i] = r)
    OBVIOUS
  <2> HIDE DEF C
  <2>3. \A r \in Row : C[r] \in Nat /\ C[r] <= B[r] + (IF \E i \in DOMAIN frame : frame[i] = r THEN 1 ELSE 0)
    BY <1>4, <2>1, <2>2
  <2>4. CASE DOMAIN frame # {}
    <3>1. EnforceUnique(t, frame, B)
      BY <2>4 DEF B
    <3> QED BY <1>2, <1>5, <2>3, <3>1, UniqueAdd DEF C
  <2>5. CASE DOMAIN frame = {}
    <3>1. \A r \in Row : C[r] <= B[r]
      BY <1>4, <2>3, <2>5
    <3> QED BY <1>2, <1>5, <2>3, <3>1, UniqueSub DEF C
  <2> QED BY <2>4, <2>5
<1> QED BY <1>6, <1>7 DEF bs

\* Autocommit INSERT and DELETE.
LEMMA SingleUnique ==
    ASSUME WriteInv, HistoryUnique, NEW s \in Sessions, txn[s] = NoTxn, NEW t \in Tables
    PROVE  /\ \A rows \in SUBSET Row : EnforceUnique(t, [r \in rows |-> r], Visible(s, t)) =>
                 \A u \in Tables : UniqueBag(u, Outcome(s, <<InsertBatch(t, rows)>>, u))
           /\ \A keys \in SUBSET Keys :
                 \A u \in Tables : UniqueBag(u, Outcome(s, <<Tombstone(t, keys, FALSE)>>, u))
<1>1. ASSUME NEW rows \in SUBSET Row, EnforceUnique(t, [r \in rows |-> r], Visible(s, t)), NEW u \in Tables
      PROVE  UniqueBag(u, Outcome(s, <<InsertBatch(t, rows)>>, u))
  <2> DEFINE frame == [r \in rows |-> r]
             ins == <<InsertBatch(t, rows)>>
             tombs == <<>>
  <2>1. Visible(s, t) = MergeDelta(t, base[t], delta) /\ MergeDelta(t, base[t], delta) \in Bag
    BY TipUnique DEF Visible
  <2>2. Touched(tombs, t) = {}
    BY DEF Touched
  <2>3. Checked(t, tombs) = Visible(s, t)
    BY <2>1, <2>2 DEF Checked, Bag
  <2>4. EnforceUnique(t, frame, Checked(t, tombs))
    BY <1>1, <2>3
  <2>5. rows = {frame[i] : i \in DOMAIN frame} /\ \A i \in DOMAIN frame : frame[i] \in Row
    OBVIOUS
  <2>6. tombs \in Seq(Batch) /\ (\A i \in DOMAIN tombs : tombs[i].table = t /\ tombs[i].rows = {})
    OBVIOUS
  <2>7. ins \o tombs = ins
    <3>1. InsertBatch(t, rows) \in Batch
      BY BatchTypes
    <3> QED BY <3>1
  <2>8. ins = <<InsertBatch(t, rows)>>
    OBVIOUS
  <2> HIDE DEF frame, ins, tombs
  <2>9. UniqueBag(u, Outcome(s, ins \o tombs, u))
    BY <2>4, <2>5, <2>6, <2>8, OutcomeUnique
  <2> QED BY <2>7, <2>8, <2>9
<1>2. ASSUME NEW keys \in SUBSET Keys, NEW u \in Tables
      PROVE  UniqueBag(u, Outcome(s, <<Tombstone(t, keys, FALSE)>>, u))
  <2> DEFINE frame == [r \in {} |-> r]
             ins == <<>>
             new == {}
             tombs == <<Tombstone(t, keys, FALSE)>>
  <2>1. Tombstone(t, keys, FALSE) \in Batch /\ Tombstone(t, keys, FALSE).table = t /\ Tombstone(t, keys, FALSE).rows = {}
    BY BatchTypes DEF Tombstone
  <2>2. tombs \in Seq(Batch) /\ (\A i \in DOMAIN tombs : tombs[i].table = t /\ tombs[i].rows = {}) /\ ins \o tombs = tombs
    <3> DEFINE b == Tombstone(t, keys, FALSE)
    <3> HIDE DEF b
    <3>1. b \in Batch /\ b.table = t /\ b.rows = {} /\ tombs = <<b>>
      BY <2>1 DEF b
    <3>2. tombs \in Seq(Batch) /\ (\A i \in DOMAIN tombs : tombs[i].table = t /\ tombs[i].rows = {})
      <4> HIDE DEF tombs
      <4> QED BY <3>1
    <3> DEFINE S == Batch
    <3>3. tombs \in Seq(S)
      BY <3>2
    <3>4. <<>> \o tombs = tombs
      <4> HIDE DEF tombs, S
      <4> QED BY <3>3, ConcatEmptySeq
    <3> QED BY <3>2, <3>4
  <2>3. new = {frame[i] : i \in DOMAIN frame} /\ (\A i \in DOMAIN frame : frame[i] \in Row) /\ DOMAIN frame = {}
        /\ new = {} /\ ins = <<>>
    OBVIOUS
  <2>4. tombs = <<Tombstone(t, keys, FALSE)>>
    OBVIOUS
  <2> HIDE DEF frame, ins, new, tombs
  <2>5. UniqueBag(u, Outcome(s, ins \o tombs, u))
    BY <2>2, <2>3, OutcomeUnique
  <2> QED BY <2>2, <2>4, <2>5
<1> QED BY <1>1, <1>2

\* What UPDATE and MERGE check their new rows against: the buffered tombstones hide exactly
\* the rows of their keys.
LEMMA SeenChecked ==
    ASSUME WriteInv, NEW s \in Sessions, txn[s] = NoTxn, NEW t \in Tables,
           NEW tombs \in Seq(Batch),
           \A i \in DOMAIN tombs : tombs[i] \in TombOnly("tombstone") \cup TombOnly("tombstone_update")
    PROVE  MergeDelta(t, base[t], EntriesAt(delta, commit_ts) \cup Stamp(InsInf, tombs)) = Checked(t, tombs)
<1> DEFINE E == delta
           F == E \cup Stamp(InsInf, tombs)
           old == MergeDelta(t, base[t], E)
<1>1. base[t] \in Bag /\ IsFiniteSet(E) /\ EntriesAt(delta, commit_ts) = E /\ old \in Bag /\ commit_ts \in Int
  BY TipBag DEF WriteInv, CoreInv, TypeOK
<1>2. InsInf \in Nat /\ InsInf > 0 /\ \A e \in E : e.ts \in Nat /\ e.ts < InsInf
  <2>1. InsInf \in Nat /\ MaxTs \in Nat /\ InsInf > MaxTs
    BY InsInfAssumption, BoundsAssumption, NoneAssumption
  <2>2. \A e \in E : e.ts \in Nat /\ e.ts <= MaxTs
    BY <1>1, <2>1, DeltaTs DEF WriteInv, CapInv
  <2> QED BY <2>1, <2>2
<1>3. OneStatement(tombs) /\ \A i \in DOMAIN tombs : tombs[i].rows = {} /\ tombs[i].kind # "insert"
  BY DEF OneStatement, TombOnly
<1>4. CoreInv /\ TxnInv /\ JobOf(s, tombs)
  BY <1>3 DEF WriteInv, JobOf
<1>5. MergeDelta(t, base[t], F) \in Bag
  <2>1. IsFiniteSet(Stamp(InsInf, tombs))
    BY StampFinite
  <2>2. IsFiniteSet(F)
    BY <1>1, <2>1, FS_Union
  <2> HIDE DEF F
  <2> QED BY <1>1, <2>2, MergeType
<1> HIDE DEF E
<1>6. ASSUME NEW r \in Row
      PROVE  MergeDelta(t, base[t], F)[r] = (IF r.k \in Touched(tombs, t) THEN 0 ELSE old[r])
  <2> DEFINE D == Marked(tombs, t, "tombstone", r.k)
             U == Marked(tombs, t, "tombstone_update", r.k)
             n == Cardinality(NewIn(tombs, t, r))
             m == MergeDelta(t, base[t], F)[r]
  <2>1. (r.k \in Touched(tombs, t) <=> (D \/ U)) /\ (r.k \in Touched(tombs, t) => t \in PKTables)
    BY <1>4, JobWrites
  <2>2. n = 0
    <3>1. NewIn(tombs, t, r) = {}
      BY <1>3 DEF NewIn
    <3> QED BY <3>1, FS_EmptySet
  <2>3. old[r] \in Nat
    BY <1>1 DEF Bag
  <2>4. CommitMerged(t, base[t], E, InsInf, tombs, r)
    BY <1>1, <1>2, MergeCommit
  <2>5. /\ (t \in PKTables /\ D => m = 0)
        /\ (t \in PKTables /\ ~D /\ U => m = n)
        /\ (t \notin PKTables \/ (~D /\ ~U) => m = old[r] + n)
    BY <2>4 DEF CommitMerged
  <2> HIDE DEF D, U, n, m, old
  <2>7. m = (IF r.k \in Touched(tombs, t) THEN 0 ELSE old[r])
    BY <2>1, <2>2, <2>3, <2>5
  <2> QED BY <2>7 DEF m
<1> HIDE DEF F, old
<1>7. MergeDelta(t, base[t], F) = [r \in Row |-> IF r.k \in Touched(tombs, t) THEN 0 ELSE old[r]]
  <2>1. MergeDelta(t, base[t], F) = [r \in Row |-> MergeDelta(t, base[t], F)[r]]
    BY <1>5 DEF Bag
  <2> QED BY <1>6, <2>1
<1> QED BY <1>1, <1>7 DEF Checked, F, old, E

\* UPDATE and MERGE.
LEMMA ImplicitUnique ==
    ASSUME WriteInv, HistoryUnique, NEW s \in Sessions, txn[s] = NoTxn, NEW t \in Tables,
           NEW tombs, NEW frame, ImplicitArgs(t, tombs, frame), ImplicitTxn(s, t, tombs, frame)
    PROVE  \E bs : AllocateTs(s, bs) /\ \A u \in Tables : UniqueBag(u, Outcome(s, bs, u))
<1> DEFINE new == {frame[i] : i \in DOMAIN frame}
           ins == IF new = {} THEN <<>> ELSE <<InsertBatch(t, new)>>
           seen == MergeDelta(t, base[t], EntriesAt(delta, commit_ts) \cup Stamp(InsInf, tombs))
<1>1. tombs \in Seq(Batch) /\ (\A i \in DOMAIN frame : frame[i] \in Row)
  BY DEF ImplicitArgs
<1>2. \A i \in DOMAIN tombs : /\ tombs[i] \in TombOnly("tombstone") \cup TombOnly("tombstone_update")
                              /\ tombs[i].table = t /\ tombs[i].rows = {}
  <2>1. tombs = <<>> \/ \E b \in TombOnly("tombstone") \cup TombOnly("tombstone_update") : b.table = t /\ tombs = <<b>>
    BY DEF ImplicitArgs
  <2> QED BY <2>1 DEF TombOnly
<1>3. (DOMAIN frame # {} => EnforceUnique(t, frame, seen)) /\ AllocateTs(s, ins \o tombs)
  BY DEF ImplicitTxn
<1>4. seen = Checked(t, tombs)
  BY <1>1, <1>2, SeenChecked
<1>5. DOMAIN frame # {} => EnforceUnique(t, frame, Checked(t, tombs))
  BY <1>3, <1>4
<1>6. ins = <<InsertBatch(t, new)>> \/ (new = {} /\ ins = <<>>)
  OBVIOUS
<1>7. new = {frame[i] : i \in DOMAIN frame}
  OBVIOUS
<1> HIDE DEF new, ins, seen
<1>8. \A u \in Tables : UniqueBag(u, Outcome(s, ins \o tombs, u))
  BY <1>1, <1>2, <1>5, <1>6, <1>7, OutcomeUnique
<1> QED BY <1>3, <1>8

\* Read-your-writes, row by row.
LEMMA OwnWritesAt ==
    ASSUME OwnWrites, NEW s \in Sessions, txn[s] # NoTxn, NEW t \in Tables, NEW r \in Row
    PROVE  Visible(s, t)[r] = (IF r.k \in DeletedKeys(s, t) THEN 0
                               ELSE CommittedAt(t, txn[s].snapshot_ts)[r] + Cardinality(Buffered(s, t, r)))
BY DEF OwnWrites, Buffered

\* What the commit of a transaction does to one row.
LEMMA TxnOutcome ==
    ASSUME WriteInv, NEW s \in Sessions, txn[s] # NoTxn, NEW t \in Tables, NEW r \in Row
    PROVE  Outcome(s, TxnBatches(txn[s]), t)[r] =
             (IF r.k \in DeletedKeys(s, t) THEN 0
              ELSE MergeDelta(t, base[t], delta)[r] + Cardinality(Buffered(s, t, r)))
<1> DEFINE bs == TxnBatches(txn[s])
<1>1. CoreInv /\ TxnInv /\ JobOf(s, bs)
  BY DEF WriteInv, JobOf
<1>2. /\ (Marked(bs, t, "tombstone", r.k) <=> r.k \in DeletedKeys(s, t))
      /\ ~Marked(bs, t, "tombstone_update", r.k) /\ NewIn(bs, t, r) = Buffered(s, t, r)
  BY <1>1, TxnWrites
<1>3. /\ (r.k \in Touched(bs, t) <=> (Marked(bs, t, "tombstone", r.k) \/ Marked(bs, t, "tombstone_update", r.k)))
      /\ NewIn(bs, t, r) = Written(bs, t, r)
  BY <1>1, JobWrites
<1>4. (r.k \in Touched(bs, t) <=> r.k \in DeletedKeys(s, t)) /\ Written(bs, t, r) = Buffered(s, t, r)
  BY <1>2, <1>3
<1>5. Outcome(s, bs, t)[r] = (IF r.k \notin Touched(bs, t)
                              THEN MergeDelta(t, base[t], delta)[r] + Cardinality(Written(bs, t, r)) ELSE 0)
  BY DEF Outcome
<1> HIDE DEF bs
<1>6. Outcome(s, bs, t)[r] = (IF r.k \in DeletedKeys(s, t) THEN 0
                              ELSE MergeDelta(t, base[t], delta)[r] + Cardinality(Buffered(s, t, r)))
  BY <1>4, <1>5
<1> QED BY <1>6 DEF bs

\* The commit of a transaction makes what it sees the committed state.
LEMMA CommitUnique ==
    ASSUME WriteInv, OwnWrites, TxnUnique, NEW s \in Sessions, txn[s] # NoTxn, NEW t \in Tables
    PROVE  UniqueBag(t, Outcome(s, TxnBatches(txn[s]), t))
<1>1. EntriesAt(delta, txn[s].snapshot_ts) = delta
  BY DEF TxnUnique, EntriesAt
<1>2. CommittedAt(t, txn[s].snapshot_ts) = MergeDelta(t, base[t], delta)
  BY <1>1 DEF CommittedAt
<1>3. ASSUME NEW r \in Row PROVE Outcome(s, TxnBatches(txn[s]), t)[r] = Visible(s, t)[r]
  BY <1>2, OwnWritesAt, TxnOutcome
<1>4. UniqueBag(t, Visible(s, t))
  BY DEF TxnUnique
<1> QED BY <1>3, <1>4 DEF UniqueBag

\* Each row of what a transaction sees is counted by a number.
LEMMA VisibleBag ==
    ASSUME WriteInv, NEW s \in Sessions, txn[s] # NoTxn, NEW t \in Tables
    PROVE  /\ Visible(s, t) \in Bag
           /\ \A r \in Row : CommittedAt(t, txn[s].snapshot_ts)[r] \in Nat
           /\ \A r \in Row : IsFiniteSet(Buffered(s, t, r)) /\ Cardinality(Buffered(s, t, r)) \in Nat
<1> DEFINE E  == EntriesAt(delta, txn[s].snapshot_ts)
           bs == TxnBatches(txn[s])
<1>1. base[t] \in Bag /\ bs \in Seq(Batch) /\ IsFiniteSet(delta) /\ txn[s].buffer \in Seq(Batch)
  BY TxnParts DEF WriteInv, CoreInv, TypeOK
<1>2. E \in SUBSET delta
  BY DEF EntriesAt
<1>3. IsFiniteSet(E) /\ IsFiniteSet(Stamp(InsInf, bs))
  BY <1>1, <1>2, FS_Subset, StampFinite
<1>4. IsFiniteSet(E \cup Stamp(InsInf, bs))
  BY <1>3, FS_Union
<1> HIDE DEF E, bs
<1>5. MergeDelta(t, base[t], E) \in Bag /\ MergeDelta(t, base[t], E \cup Stamp(InsInf, bs)) \in Bag
  BY <1>1, <1>3, <1>4, MergeType
<1>6. Visible(s, t) \in Bag /\ \A r \in Row : CommittedAt(t, txn[s].snapshot_ts)[r] \in Nat
  BY <1>5 DEF Visible, CommittedAt, E, bs, Bag
<1>7. ASSUME NEW r \in Row PROVE IsFiniteSet(Buffered(s, t, r)) /\ Cardinality(Buffered(s, t, r)) \in Nat
  <2>1. Len(txn[s].buffer) \in Nat /\ DOMAIN txn[s].buffer = 1..Len(txn[s].buffer)
    BY <1>1
  <2>2. Buffered(s, t, r) \in SUBSET (1..Len(txn[s].buffer))
    BY <2>1 DEF Buffered
  <2>3. IsFiniteSet(1..Len(txn[s].buffer))
    BY <2>1, FS_Interval
  <2> QED BY <2>2, <2>3, FS_Subset, FS_CardinalityType
<1> QED BY <1>6, <1>7

\* What buffering a batch changes: an INSERT adds one occurrence of each of its rows, a
\* DELETE adds its keys, and the snapshot stays.
InsertBuffered(s, t, rows, u) ==
    /\ DeletedKeys(s, u)' = DeletedKeys(s, u)
    /\ \A r \in Row : Cardinality(Buffered(s, u, r)') = Cardinality(Buffered(s, u, r)) + (IF u = t /\ r \in rows THEN 1 ELSE 0)
DeleteBuffered(s, t, keys, u) ==
    /\ DeletedKeys(s, u)' = DeletedKeys(s, u) \cup (IF u = t THEN keys ELSE {})
    /\ \A r \in Row : Buffered(s, u, r)' = Buffered(s, u, r)

LEMMA BufferFrame ==
    ASSUME WriteInv, NEW s \in Sessions, NEW field \in {"insert", "tombstone"}, NEW b \in Batch, Buffer(s, field, b)
    PROVE  /\ txn[s] # NoTxn /\ txn'[s] # NoTxn /\ base' = base /\ delta' = delta
           /\ txn'[s].snapshot_ts = txn[s].snapshot_ts
           /\ field = "insert" => txn'[s].buffer = Append(txn[s].buffer, b) /\ txn'[s].tombstones = txn[s].tombstones
           /\ field = "tombstone" => txn'[s].tombstones = Append(txn[s].tombstones, b) /\ txn'[s].buffer = txn[s].buffer
<1> DEFINE x == txn[s]
<1>1. x # NoTxn /\ x \in Txn /\ txn \in [Sessions -> Txn \cup {NoTxn}]
  BY TxnParts DEF Buffer, WriteInv, CoreInv, TypeOK
<1>2. BufferAppend(x, b) \in Txn /\ BufferAppend(x, b).buffer = Append(x.buffer, b)
      /\ BufferAppend(x, b).tombstones = x.tombstones /\ BufferAppend(x, b).snapshot_ts = x.snapshot_ts
  BY <1>1, AppendTypes DEF BufferAppend, Txn
<1>3. TombstoneAppend(x, b) \in Txn /\ TombstoneAppend(x, b).tombstones = Append(x.tombstones, b)
      /\ TombstoneAppend(x, b).buffer = x.buffer /\ TombstoneAppend(x, b).snapshot_ts = x.snapshot_ts
  BY <1>1, AppendTypes DEF TombstoneAppend, Txn
<1>4. txn'[s] = (IF field = "insert" THEN BufferAppend(x, b) ELSE TombstoneAppend(x, b)) /\ base' = base /\ delta' = delta
  BY <1>1 DEF Buffer
<1> QED BY <1>1, <1>2, <1>3, <1>4, NoTxnAssumption

LEMMA InsertBuffers ==
    ASSUME WriteInv, NEW s \in Sessions, NEW t \in Tables, NEW rows \in SUBSET Row,
           Buffer(s, "insert", InsertBatch(t, rows)), NEW u \in Tables
    PROVE  InsertBuffered(s, t, rows, u)
<1> DEFINE x == txn[s]
           b == InsertBatch(t, rows)
           n == Len(x.buffer) + 1
<1>1. b \in Batch /\ b.table = t /\ b.rows = rows
  BY BatchTypes DEF InsertBatch
<1> HIDE DEF b
<1>2. /\ x # NoTxn /\ txn'[s] # NoTxn /\ txn'[s].buffer = Append(x.buffer, b)
      /\ txn'[s].tombstones = x.tombstones /\ x.buffer \in Seq(Batch)
  BY <1>1, BufferFrame, TxnParts DEF b, WriteInv, CoreInv
<1>3. DeletedKeys(s, u)' = DeletedKeys(s, u)
  BY <1>2 DEF DeletedKeys
<1>4. DOMAIN Append(x.buffer, b) = 1..n /\ DOMAIN x.buffer = 1..(n - 1) /\ n \in Nat
      /\ Append(x.buffer, b)[n] = b /\ \A i \in 1..(n - 1) : Append(x.buffer, b)[i] = x.buffer[i]
  BY <1>1, <1>2
<1>5. ASSUME NEW r \in Row
      PROVE  Cardinality(Buffered(s, u, r)') = Cardinality(Buffered(s, u, r)) + (IF u = t /\ r \in rows THEN 1 ELSE 0)
  <2>1. Buffered(s, u, r)' = {i \in 1..n : Append(x.buffer, b)[i].table = u /\ r \in Append(x.buffer, b)[i].rows}
    BY <1>2, <1>4 DEF Buffered
  <2>2. Buffered(s, u, r) = {i \in 1..(n - 1) : x.buffer[i].table = u /\ r \in x.buffer[i].rows}
    BY <1>4 DEF Buffered
  <2>3. \A i : i \in 1..n <=> (i \in 1..(n - 1) \/ i = n)
    BY <1>2, <1>4
  <2>4. n \notin 1..(n - 1)
    BY <1>4
  <2>5. IsFiniteSet(Buffered(s, u, r)) /\ Cardinality(Buffered(s, u, r)) \in Nat
    BY <1>2, VisibleBag
  <2> HIDE DEF n, x
  <2>6. CASE u = t /\ r \in rows
    <3>1. Buffered(s, u, r)' = Buffered(s, u, r) \cup {n} /\ n \notin Buffered(s, u, r)
      BY <1>1, <1>4, <2>1, <2>2, <2>3, <2>4, <2>6
    <3>2. Cardinality(Buffered(s, u, r)') = Cardinality(Buffered(s, u, r)) + 1
      BY <2>5, <3>1, FS_AddElement
    <3> QED BY <2>6, <3>2
  <2>7. CASE ~(u = t /\ r \in rows)
    <3>1. Buffered(s, u, r)' = Buffered(s, u, r)
      BY <1>1, <1>4, <2>1, <2>2, <2>3, <2>4, <2>7
    <3> QED BY <2>5, <2>7, <3>1
  <2> QED BY <2>6, <2>7
<1> QED BY <1>3, <1>5 DEF InsertBuffered

LEMMA DeleteBuffers ==
    ASSUME WriteInv, NEW s \in Sessions, NEW b \in Batch, Buffer(s, "tombstone", b), NEW u \in Tables
    PROVE  DeleteBuffered(s, b.table, b.keys, u)
<1> DEFINE x == txn[s]
           del == x.tombstones
           n == Len(del) + 1
<1>1. /\ x # NoTxn /\ txn'[s] # NoTxn /\ txn'[s].tombstones = Append(del, b)
      /\ txn'[s].buffer = x.buffer /\ del \in Seq(Batch)
  BY BufferFrame, TxnParts DEF WriteInv, CoreInv
<1>2. \A k : k \in DeletedKeys(s, u) <=> \E i \in DOMAIN del : del[i].table = u /\ k \in del[i].keys
  BY <1>1 DEF DeletedKeys
<1>3. \A k : k \in DeletedKeys(s, u)' <=> \E i \in DOMAIN Append(del, b) :
                Append(del, b)[i].table = u /\ k \in Append(del, b)[i].keys
  BY <1>1 DEF DeletedKeys
<1>4. /\ n \in DOMAIN Append(del, b) /\ Append(del, b)[n] = b
      /\ \A i \in DOMAIN del : i \in DOMAIN Append(del, b) /\ Append(del, b)[i] = del[i]
      /\ \A i \in DOMAIN Append(del, b) : i = n \/ i \in DOMAIN del
  BY <1>1
<1> HIDE DEF n, del
<1>5. \A k : k \in DeletedKeys(s, u)' <=> (k \in DeletedKeys(s, u) \/ (u = b.table /\ k \in b.keys))
  BY <1>2, <1>3, <1>4
<1>6. DeletedKeys(s, u)' = DeletedKeys(s, u) \cup (IF u = b.table THEN b.keys ELSE {})
  BY <1>5
<1>7. \A r \in Row : Buffered(s, u, r)' = Buffered(s, u, r)
  BY <1>1 DEF Buffered
<1> QED BY <1>6, <1>7 DEF DeleteBuffered

\* An INSERT in a transaction whose rows passed the check against what it sees.
LEMMA BufferInsertUnique ==
    ASSUME WriteInv, OwnWrites, OwnWrites', TxnUnique, NEW s \in Sessions,
           NEW t \in Tables, NEW rows \in SUBSET Row,
           EnforceUnique(t, [r \in rows |-> r], Visible(s, t)),
           Buffer(s, "insert", InsertBatch(t, rows)), NEW u \in Tables
    PROVE  UniqueBag(u, Visible(s, u)')
<1> DEFINE x == txn[s]
           frame == [r \in rows |-> r]
<1>1. /\ x # NoTxn /\ txn'[s] # NoTxn /\ base' = base /\ delta' = delta /\ txn'[s].snapshot_ts = x.snapshot_ts
  BY BufferFrame, BatchTypes
<1>2. InsertBuffered(s, t, rows, u)
  BY InsertBuffers
<1>3. CommittedAt(u, txn[s].snapshot_ts)' = CommittedAt(u, txn[s].snapshot_ts)
  BY <1>1 DEF CommittedAt
<1>4. Visible(s, u) \in Bag /\ (\A r \in Row : CommittedAt(u, x.snapshot_ts)[r] \in Nat)
      /\ (\A r \in Row : Cardinality(Buffered(s, u, r)) \in Nat)
  BY <1>1, VisibleBag
<1>5. \A r \in Row : Visible(s, u)[r] = (IF r.k \in DeletedKeys(s, u) THEN 0
                        ELSE CommittedAt(u, x.snapshot_ts)[r] + Cardinality(Buffered(s, u, r)))
  BY <1>1, OwnWritesAt
<1>6. \A r \in Row : Visible(s, u)'[r] = (IF r.k \in DeletedKeys(s, u)' THEN 0
                        ELSE CommittedAt(u, txn[s].snapshot_ts)'[r] + Cardinality(Buffered(s, u, r)'))
  BY <1>1 DEF OwnWrites, Buffered
<1>7. UniqueBag(u, Visible(s, u))
  BY <1>1 DEF TxnUnique
<1> HIDE DEF x
<1>8. ASSUME NEW r \in Row
      PROVE  /\ Visible(s, u)'[r] \in Nat
             /\ u = t /\ r \in rows => Visible(s, u)'[r] <= Visible(s, u)[r] + 1
             /\ ~(u = t /\ r \in rows) => Visible(s, u)'[r] <= Visible(s, u)[r]
  <2>1. Visible(s, u)'[r] = (IF r.k \in DeletedKeys(s, u) THEN 0
                             ELSE CommittedAt(u, x.snapshot_ts)[r] + Cardinality(Buffered(s, u, r)'))
    BY <1>2, <1>3, <1>6 DEF InsertBuffered, x
  <2>2. Cardinality(Buffered(s, u, r)') = Cardinality(Buffered(s, u, r)) + (IF u = t /\ r \in rows THEN 1 ELSE 0)
    BY <1>2 DEF InsertBuffered
  <2> QED BY <1>4, <1>5, <2>1, <2>2
<1>9. CASE u = t
  <2>1. EnforceUnique(u, frame, Visible(s, u))
    BY <1>9
  <2>2. \A r \in Row : (\E i \in DOMAIN frame : frame[i] = r) <=> r \in rows
    OBVIOUS
  <2> HIDE DEF frame
  <2>3. \A r \in Row : Visible(s, u)[r] \in Nat
    BY <1>4 DEF Bag
  <2>4. \A r \in Row : Visible(s, u)'[r] <= Visible(s, u)[r] + (IF \E i \in DOMAIN frame : frame[i] = r THEN 1 ELSE 0)
    BY <1>8, <1>9, <2>2, <2>3
  <2>5. \A r \in Row : Visible(s, u)'[r] \in Nat
    BY <1>8
  <2> QED BY <1>4, <1>7, <2>1, <2>4, <2>5, UniqueAdd
<1>10. CASE u # t
  BY <1>4, <1>7, <1>8, <1>10, UniqueSub
<1> QED BY <1>9, <1>10

\* A DELETE in a transaction only hides rows.
LEMMA BufferDeleteUnique ==
    ASSUME WriteInv, OwnWrites, OwnWrites', TxnUnique, NEW s \in Sessions,
           NEW b \in Batch, Buffer(s, "tombstone", b), NEW u \in Tables
    PROVE  UniqueBag(u, Visible(s, u)')
<1> DEFINE x == txn[s]
<1>1. /\ x # NoTxn /\ txn'[s] # NoTxn /\ base' = base /\ delta' = delta /\ txn'[s].snapshot_ts = x.snapshot_ts
  BY BufferFrame
<1>2. DeletedKeys(s, u) \subseteq DeletedKeys(s, u)' /\ \A r \in Row : Buffered(s, u, r)' = Buffered(s, u, r)
  <2>1. DeleteBuffered(s, b.table, b.keys, u)
    BY DeleteBuffers
  <2> QED BY <2>1 DEF DeleteBuffered
<1>3. CommittedAt(u, txn[s].snapshot_ts)' = CommittedAt(u, txn[s].snapshot_ts)
  BY <1>1 DEF CommittedAt
<1>4. Visible(s, u) \in Bag /\ (\A r \in Row : CommittedAt(u, x.snapshot_ts)[r] \in Nat)
      /\ (\A r \in Row : Cardinality(Buffered(s, u, r)) \in Nat)
  BY <1>1, VisibleBag
<1>5. \A r \in Row : Visible(s, u)[r] = (IF r.k \in DeletedKeys(s, u) THEN 0
                        ELSE CommittedAt(u, x.snapshot_ts)[r] + Cardinality(Buffered(s, u, r)))
  BY <1>1, OwnWritesAt
<1>6. \A r \in Row : Visible(s, u)'[r] = (IF r.k \in DeletedKeys(s, u)' THEN 0
                        ELSE CommittedAt(u, txn[s].snapshot_ts)'[r] + Cardinality(Buffered(s, u, r)'))
  BY <1>1 DEF OwnWrites, Buffered
<1>7. UniqueBag(u, Visible(s, u))
  BY <1>1 DEF TxnUnique
<1>8. ASSUME NEW r \in Row PROVE Visible(s, u)'[r] \in Nat /\ Visible(s, u)'[r] <= Visible(s, u)[r]
  <2>1. Visible(s, u)'[r] = (IF r.k \in DeletedKeys(s, u)' THEN 0
                             ELSE CommittedAt(u, x.snapshot_ts)[r] + Cardinality(Buffered(s, u, r)))
    BY <1>2, <1>3, <1>6
  <2> QED BY <1>2, <1>4, <1>5, <2>1
<1> QED BY <1>4, <1>7, <1>8, UniqueSub

\* A merge depends only on the entries of its table; without any it returns the base.
LEMMA MergeSame ==
    ASSUME NEW t, NEW b, NEW E, NEW F,
           {e \in E : e.batch.table = t} = {e \in F : e.batch.table = t}
    PROVE  MergeDelta(t, b, E) = MergeDelta(t, b, F)
BY DEF MergeDelta

LEMMA MergeNone ==
    ASSUME NEW t, NEW b \in Bag, NEW E, \A e \in E : e.batch.table # t
    PROVE  MergeDelta(t, b, E) = b
<1> DEFINE mine  == {e \in E : e.batch.table = t}
           ins   == {e \in mine : e.batch.kind = "insert"}
           tombs == mine \ ins
           kept(r) == {e \in ins : r \in e.batch.rows /\ Keep(t, tombs, r.k, e.ts)}
           at(r) == (IF Keep(t, tombs, r.k, 0) THEN b[r] ELSE 0) + Cardinality(kept(r))
<1>1. MergeDelta(t, b, E) = [r \in Row |-> at(r)]
  BY DEF MergeDelta
<1>2. ins = {} /\ tombs = {}
  OBVIOUS
<1>3. ASSUME NEW r \in Row PROVE at(r) = b[r]
  <2>1. Keep(t, tombs, r.k, 0)
    BY <1>2 DEF Keep
  <2>2. kept(r) = {}
    BY <1>2
  <2>3. Cardinality(kept(r)) = 0
    BY <2>2, FS_EmptySet
  <2>4. b[r] \in Nat
    BY DEF Bag
  <2> HIDE DEF kept, tombs
  <2> QED BY <2>1, <2>3, <2>4
<1> HIDE DEF at
<1>4. [r \in Row |-> at(r)] = [r \in Row |-> b[r]]
  BY <1>3
<1>5. b = [r \in Row |-> b[r]]
  BY DEF Bag
<1> QED BY <1>1, <1>4, <1>5

LEMMA UniqueInit == Init => UniqueInv
<1> SUFFICES ASSUME Init PROVE UniqueInv
  OBVIOUS
<1>1. TxnUnique /\ PendingUnique
  BY DEF Init, TxnUnique, PendingUnique
<1>2. ASSUME NEW t \in Tables, NEW ts \in Int PROVE UniqueBag(t, CommittedAt(t, ts))
  <2>1. base[t] \in [Row -> {0, 1}] /\ EntriesAt(delta, ts) = {}
    BY DEF Init, EntriesAt
  <2>2. base[t] \in Bag
    BY <2>1 DEF Bag
  <2>3. CommittedAt(t, ts) = base[t]
    BY <2>1, <2>2, MergeNone DEF CommittedAt
  <2>4. ASSUME NEW col, UniqueOn(col, [r \in RowsOf(base[t]) |-> r], [r \in Row |-> 0]),
               NEW r \in Row, NEW q \in Row, base[t][r] > 0, base[t][q] > 0, r[col] # Null, r[col] = q[col]
        PROVE  r = q
    <3>1. r \in RowsOf(base[t]) /\ q \in RowsOf(base[t])
      BY <2>4 DEF RowsOf
    <3> DEFINE f == [x \in RowsOf(base[t]) |-> x]
    <3>2. DOMAIN f = RowsOf(base[t]) /\ f[r] = r /\ f[q] = q
      BY <3>1
    <3>3. UniqueOn(col, f, [x \in Row |-> 0])
      BY <2>4
    <3> HIDE DEF f
    <3>4. f[r][col] # Null => \A j \in DOMAIN f \ {r} : f[j][col] # f[r][col]
      BY <3>1, <3>2, <3>3 DEF UniqueOn
    <3> QED BY <2>4, <3>1, <3>2, <3>4
  <2>5. ASSUME NEW r \in Row, NEW q \in Row, base[t][r] > 0, base[t][q] > 0, Clash(t, r, q)
        PROVE  r = q /\ base[t][r] = 1
    <3>1. base[t][r] = 1
      BY <2>1, <2>5
    <3>2. CASE t \in PKTables /\ r.k = q.k
      <4>1. r.k \in Keys /\ r.k # Null
        BY KeysAssumption DEF Row
      <4>2. UniqueOn("k", [x \in RowsOf(base[t]) |-> x], [x \in Row |-> 0])
        BY <3>2 DEF Init
      <4> QED BY <2>4, <2>5, <3>1, <3>2, <4>1, <4>2
    <3>3. CASE t \in UniqueTables /\ r.v # Null /\ r.v = q.v
      <4>1. UniqueOn("v", [x \in RowsOf(base[t]) |-> x], [x \in Row |-> 0])
        BY <3>3 DEF Init
      <4> QED BY <2>4, <2>5, <3>1, <3>3, <4>1
    <3> QED BY <2>5, <3>2, <3>3 DEF Clash
  <2> QED BY <2>3, <2>5 DEF UniqueBag
<1> QED BY <1>1, <1>2 DEF UniqueInv, HistoryUnique

\* The steps that change the history: a restore forgets its end, a checkpoint folds it into
\* the base, a commit that is applied (or replayed after a crash) adds to it.
LEMMA RestoreHistory ==
    ASSUME "truncate_fails" \notin Allow,
           HistoryUnique, NEW m \in Int, RestoreTo(m), delta \subseteq Entry
    PROVE  HistoryUnique'
<1>1. base' = base /\ delta' = {e \in delta : e.ts <= m}
  BY DEF RestoreTo, TruncateFails, Rewind
<1>2. ASSUME NEW t \in Tables, NEW ts \in Int PROVE UniqueBag(t, CommittedAt(t, ts)')
  <2>1. \A e \in delta : e.ts \in Int
    BY DEF Entry
  <2>2. PICK x \in Int : (ts <= m => x = ts) /\ (~(ts <= m) => x = m)
    OBVIOUS
  <2>3. EntriesAt(delta', ts) = EntriesAt(delta, x)
    BY <1>1, <2>1, <2>2 DEF EntriesAt
  <2>4. CommittedAt(t, ts)' = CommittedAt(t, x)
    BY <1>1, <2>3 DEF CommittedAt
  <2> QED BY <2>4 DEF HistoryUnique
<1> QED BY <1>2 DEF HistoryUnique

LEMMA CheckpointHistory ==
    ASSUME WriteInv, HistoryUnique, NEW u \in Tables, CheckpointTable(u)
    PROVE  HistoryUnique'
<1>1. base' = [base EXCEPT ![u] = MergeDelta(u, base[u], delta)] /\ delta' = {e \in delta : e.batch.table # u}
      /\ base \in [Tables -> Bag]
  BY DEF CheckpointTable, Clear, WriteInv, CoreInv, TypeOK
<1>2. ASSUME NEW t \in Tables, NEW ts \in Int PROVE UniqueBag(t, CommittedAt(t, ts)')
  <2>1. CASE t = u
    <3>1. base'[t] = MergeDelta(t, base[t], delta)
      BY <1>1, <2>1
    <3>2. base'[t] \in Bag /\ UniqueBag(t, base'[t])
      BY <3>1, TipUnique
    <3>3. \A e \in EntriesAt(delta', ts) : e.batch.table # t
      BY <1>1, <2>1 DEF EntriesAt
    <3>4. CommittedAt(t, ts)' = base'[t]
      BY <3>2, <3>3, MergeNone DEF CommittedAt
    <3> QED BY <3>2, <3>4
  <2>2. CASE t # u
    <3>1. base'[t] = base[t]
      BY <1>1, <2>2
    <3>2. {e \in EntriesAt(delta', ts) : e.batch.table = t} = {e \in EntriesAt(delta, ts) : e.batch.table = t}
      BY <1>1, <2>2 DEF EntriesAt
    <3>3. CommittedAt(t, ts)' = CommittedAt(t, ts)
      BY <3>1, <3>2, MergeSame DEF CommittedAt
    <3> QED BY <3>3 DEF HistoryUnique
  <2> QED BY <2>1, <2>2
<1> QED BY <1>2 DEF HistoryUnique

LEMMA ApplyHistory ==
    ASSUME WriteInv, UniqueInv, pc = "apply", base' = base, delta' = delta \cup Stamp(commit_ts, job)
    PROVE  HistoryUnique'
<1>1. commit_ts \in Int /\ \A e \in delta : e.ts \in Nat /\ e.ts < commit_ts
  BY DeltaTs DEF WriteInv, ApplyInv, CoreInv, TypeOK
<1>2. \A e \in Stamp(commit_ts, job) : e.ts = commit_ts
  BY DEF Stamp
<1>3. ASSUME NEW t \in Tables, NEW ts \in Int PROVE UniqueBag(t, CommittedAt(t, ts)')
  <2>1. CASE commit_ts <= ts
    <3>1. EntriesAt(delta', ts) = delta \cup Stamp(commit_ts, job)
      BY <1>1, <1>2, <2>1 DEF EntriesAt
    <3>2. MergeDelta(t, base[t], delta \cup Stamp(commit_ts, job)) = Outcome(owner, job, t)
      BY <1>1, AppliedMerge DEF WriteInv, JobInv, ApplyInv
    <3>3. CommittedAt(t, ts)' = Outcome(owner, job, t)
      BY <3>1, <3>2 DEF CommittedAt
    <3> QED BY <3>3 DEF UniqueInv, PendingUnique
  <2>2. CASE ~(commit_ts <= ts)
    <3>1. EntriesAt(delta', ts) = EntriesAt(delta, ts)
      BY <1>1, <1>2, <2>2 DEF EntriesAt
    <3>2. CommittedAt(t, ts)' = CommittedAt(t, ts)
      BY <3>1 DEF CommittedAt
    <3> QED BY <3>2 DEF UniqueInv, HistoryUnique
  <2> QED BY <2>1, <2>2
<1> QED BY <1>3 DEF HistoryUnique

LEMMA HistoryStep ==
    ASSUME "truncate_fails" \notin Allow, Orderly, WriteInv, UniqueInv, [Next]_vars
    PROVE  HistoryUnique'
<1>0. TypeOK /\ HistoryUnique
  BY DEF WriteInv, CoreInv, UniqueInv
<1>1. ASSUME base' = base, delta' = delta
      PROVE  HistoryUnique'
  BY <1>0, <1>1 DEF HistoryUnique, CommittedAt
<1>2. ASSUME NEW m \in Int, RestoreTo(m)
      PROVE  HistoryUnique'
  BY <1>0, <1>2, RestoreHistory DEF TypeOK
<1>3. ASSUME NEW n \in Names, n \in DOMAIN snapshots, RestoreTo(snapshots[n])
      PROVE  HistoryUnique'
  <2>1. snapshots[n] \in Int
    BY <1>0, <1>3 DEF TypeOK
  <2> QED BY <1>2, <1>3, <2>1
<1>4. ASSUME NEW s \in Sessions, Statement(s)
      PROVE  HistoryUnique'
  BY <1>0, <1>1, <1>3, <1>4, StatementShape DEF Begin, Rollback, Buffer, AllocateTs, RestoreSql
<1>5. CASE Admin
  <2>1. ASSUME NEW n \in Names, Snapshot(n) \/ AdminRestore(n)
        PROVE  HistoryUnique'
    BY <1>1, <1>3, <2>1 DEF Snapshot, AdminRestore
  <2>2. ASSUME NEW ts \in RestoreTargets, AdminRestoreTo(ts)
        PROVE  HistoryUnique'
    BY <1>2, <2>2, TargetsAssumption DEF AdminRestoreTo
  <2>3. ASSUME NEW t \in Tables, CheckpointTable(t)
        PROVE  HistoryUnique'
    BY <1>0, <2>3, CheckpointHistory
  <2> QED BY <1>1, <1>5, <2>1, <2>2, <2>3 DEF Admin, CheckpointEnd, TruncateFails, CheckpointCancel
<1>6. CASE DeltaApply
  BY <1>6, ApplyHistory DEF DeltaApply
<1>7. CASE Crash
  <2>1. pc \in {"idle", "wal", "apply"} /\ base' = base /\ delta' = Replayed
    BY <1>0, <1>7 DEF Crash, TypeOK, Orderly
  <2>2. DurableDelta
    BY DEF WriteInv, DurableInv
  <2>3. CASE pc = "apply"
    BY <2>1, <2>2, <2>3, ApplyHistory DEF DurableDelta
  <2>4. CASE pc \in {"idle", "wal"}
    BY <1>1, <2>1, <2>2, <2>4 DEF DurableDelta
  <2> QED BY <2>1, <2>3, <2>4
<1> QED BY <1>1, <1>4, <1>5, <1>6, <1>7 DEF Next, WalWrite, WalFail, vars

\* A new transaction sees what is committed.
LEMMA BeginUnique ==
    ASSUME WriteInv, HistoryUnique, NEW s \in Sessions, Begin(s)
    PROVE  /\ \A e \in delta' : e.ts <= txn'[s].snapshot_ts
           /\ \A t \in Tables : UniqueBag(t, Visible(s, t)')
<1>1. txn'[s] = BeginTxn(commit_ts) /\ base' = base /\ delta' = delta
  BY DEF Begin, WriteInv, CoreInv, TypeOK
<1>2. txn'[s].snapshot_ts = commit_ts /\ txn'[s].buffer = <<>> /\ txn'[s].tombstones = <<>>
  BY <1>1 DEF BeginTxn
<1>3. txn'[s] # NoTxn
  <2>1. BeginTxn(commit_ts) \in Txn
    BY DEF BeginTxn, Txn, WriteInv, CoreInv, TypeOK
  <2> QED BY <1>1, <2>1, NoTxnAssumption
<1>4. Stamp(InsInf, TxnBatches(txn'[s])) = {}
  <2>1. TxnBatches(txn'[s]) = <<>>
    BY <1>2 DEF TxnBatches
  <2> QED BY <2>1 DEF Stamp
<1>5. ASSUME NEW t \in Tables PROVE UniqueBag(t, Visible(s, t)')
  <2>1. Visible(s, t)' = MergeDelta(t, base[t], EntriesAt(delta, commit_ts))
    BY <1>1, <1>2, <1>3, <1>4 DEF Visible
  <2> QED BY <2>1, TipUnique
<1>6. \A e \in delta' : e.ts <= txn'[s].snapshot_ts
  BY <1>1, <1>2, DeltaTs DEF WriteInv
<1> QED BY <1>5, <1>6

LEMMA TxnUniqueStep ==
    ASSUME "truncate_fails" \notin Allow,
           "sql_restore" \notin Allow, WriteInv, UniqueInv, Serial, OwnWrites, OwnWrites', [Next]_vars
    PROVE  TxnUnique'
<1>0. TypeOK /\ HistoryUnique /\ TxnUnique /\ (pc = "ckpt" => NoOpenTxn)
  BY DEF WriteInv, CoreInv, UniqueInv, IsolationInv
<1> SUFFICES ASSUME NEW s \in Sessions, txn'[s] # NoTxn
             PROVE  /\ \A e \in delta' : e.ts <= txn'[s].snapshot_ts
                    /\ \A t \in Tables : UniqueBag(t, Visible(s, t)')
  BY DEF TxnUnique
<1> DEFINE Goal == /\ \A e \in delta' : e.ts <= txn'[s].snapshot_ts
                   /\ \A t \in Tables : UniqueBag(t, Visible(s, t)')
<1>1. ASSUME base' = base, delta' = delta, txn'[s] = txn[s]
      PROVE  Goal
  <2>1. \A t \in Tables : Visible(s, t)' = Visible(s, t)
    BY <1>1 DEF Visible
  <2> QED BY <1>0, <1>1, <2>1 DEF TxnUnique
<1>2. NoOpenTxn => txn[s] = NoTxn
  BY DEF NoOpenTxn
<1>3. ASSUME NEW u \in Sessions, Statement(u)
      PROVE  Goal
  <2>1. CASE Begin(u)
    <3>1. CASE s = u
      BY <1>0, <2>1, <3>1, BeginUnique
    <3>2. CASE s # u
      BY <1>0, <1>1, <2>1, <3>2 DEF Begin, TypeOK
    <3> QED BY <3>1, <3>2
  <2>2. CASE Rollback(u)
    BY <1>0, <1>1, <2>2 DEF Rollback, TypeOK
  <2>3. CASE \E bs : AllocateTs(u, bs)
    BY <1>1, <2>3 DEF AllocateTs
  <2>4. CASE \E n \in Names : RestoreSql(u, n)
    <3>1. NoOpenTxn /\ txn' = txn
      BY <2>4 DEF RestoreSql, RestoreTo, TruncateFails
    <3> QED BY <1>2, <3>1
  <2>5. ASSUME NEW field, NEW b, Buffer(u, field, b), s # u
        PROVE  Goal
    BY <1>0, <1>1, <2>5 DEF Buffer, TypeOK
  <2>6. ASSUME NEW field, NEW b, Buffer(u, field, b), s = u, \A t \in Tables : UniqueBag(t, Visible(s, t)'),
               field = "insert" \/ field = "tombstone", b \in Batch
        PROVE  Goal
    <3>1. txn[s] \in Txn /\ delta' = delta /\ txn[s] # NoTxn
      BY <1>0, <2>6, TxnParts DEF Buffer
    <3>2. txn'[s] = BufferAppend(txn[s], b) \/ txn'[s] = TombstoneAppend(txn[s], b)
      BY <1>0, <2>6 DEF Buffer, TypeOK
    <3>3. txn'[s].snapshot_ts = txn[s].snapshot_ts
      BY <3>1, <3>2 DEF BufferAppend, TombstoneAppend, Txn
    <3> QED BY <1>0, <2>6, <3>1, <3>3 DEF TxnUnique
  <2>7. ASSUME NEW t \in Tables, NEW rows \in SUBSET Row,
               EnforceUnique(t, [r \in rows |-> r], Visible(u, t)), WriteOut(u, "insert", InsertBatch(t, rows))
        PROVE  Goal
    <3>1. CASE Buffer(u, "insert", InsertBatch(t, rows)) /\ s = u
      <4>1. \A x \in Tables : UniqueBag(x, Visible(s, x)')
        BY <1>0, <2>7, <3>1, BufferInsertUnique
      <4>2. InsertBatch(t, rows) \in Batch
        BY BatchTypes
      <4> QED BY <2>6, <3>1, <4>1, <4>2
    <3> QED BY <2>3, <2>5, <2>7, <3>1 DEF WriteOut
  <2>8. ASSUME NEW t \in PKTables, NEW keys \in SUBSET Keys, WriteOut(u, "tombstone", Tombstone(t, keys, FALSE))
        PROVE  Goal
    <3>1. CASE Buffer(u, "tombstone", Tombstone(t, keys, FALSE)) /\ s = u
      <4>1. Tombstone(t, keys, FALSE) \in Batch
        BY BatchTypes, TablesAssumption
      <4>2. \A x \in Tables : UniqueBag(x, Visible(s, x)')
        BY <1>0, <3>1, <4>1, BufferDeleteUnique
      <4> QED BY <2>6, <3>1, <4>1, <4>2
    <3> QED BY <2>3, <2>5, <2>8, <3>1 DEF WriteOut
  <2>9. CASE \E t \in Tables : \E tombs, frame : ImplicitArgs(t, tombs, frame) /\ ImplicitTxn(u, t, tombs, frame)
    BY <2>3, <2>9 DEF ImplicitTxn
  <2>10. CASE Commit(u)
    BY <2>3, <2>10 DEF Commit
  <2> HIDE DEF Goal
  <2> QED BY <1>3, <2>1, <2>2, <2>4, <2>7, <2>8, <2>9, <2>10, StatementKinds
<1>4. CASE Admin
  <2>1. ASSUME NEW n \in Names, Snapshot(n) \/ AdminRestore(n)
        PROVE  Goal
    BY <1>1, <1>2, <2>1 DEF Snapshot, AdminRestore, RestoreTo, TruncateFails
  <2>2. ASSUME NEW ts \in RestoreTargets, AdminRestoreTo(ts)
        PROVE  Goal
    BY <1>2, <2>2 DEF AdminRestoreTo, RestoreTo, TruncateFails
  <2>3. ASSUME NEW t \in Tables, CheckpointTable(t)
        PROVE  Goal
    BY <1>0, <1>2, <2>3 DEF CheckpointTable
  <2> QED BY <1>1, <1>4, <2>1, <2>2, <2>3 DEF Admin, CheckpointEnd, TruncateFails, CheckpointCancel
<1>5. CASE WalWrite \/ WalFail
  BY <1>1, <1>5 DEF WalWrite, WalFail
<1>6. CASE DeltaApply
  <2>1. owner \in Sessions /\ pc = "apply" /\ txn' = [txn EXCEPT ![owner] = NoTxn]
    BY <1>6 DEF DeltaApply, WriteInv, JobInv
  <2>2. txn[s] # NoTxn /\ s # owner
    BY <1>0, <2>1 DEF TypeOK
  <2> QED BY <2>1, <2>2 DEF Serial
<1>7. CASE Crash
  BY <1>7 DEF Crash
<1>8. CASE UNCHANGED vars
  BY <1>1, <1>8 DEF vars
<1> QED BY <1>3, <1>4, <1>5, <1>6, <1>7, <1>8 DEF Next

LEMMA PendingStep ==
    ASSUME "truncate_fails" \notin Allow, WriteInv, UniqueInv, OwnWrites, [Next]_vars
    PROVE  PendingUnique'
<1>0. HistoryUnique /\ TxnUnique /\ PendingUnique
  BY DEF UniqueInv
<1>1. ASSUME pc' \notin {"wal", "apply"}
      PROVE  PendingUnique'
  BY <1>1 DEF PendingUnique
<1>2. ASSUME NEW s, NEW bs, AllocateTs(s, bs), \A t \in Tables : UniqueBag(t, Outcome(s, bs, t))
      PROVE  PendingUnique'
  <2>1. \A t \in Tables : Outcome(owner, job, t)' = Outcome(s, bs, t)
    BY <1>2 DEF AllocateTs, Outcome
  <2> QED BY <1>2, <2>1 DEF PendingUnique
<1>3. ASSUME NEW s \in Sessions, Statement(s)
      PROVE  PendingUnique'
  <2>0. Idle
    BY <1>3, StatementKinds
  <2>1. CASE Begin(s) \/ Rollback(s) \/ \E n \in Names : RestoreSql(s, n)
    BY <1>1, <2>0, <2>1 DEF Begin, Rollback, RestoreSql, RestoreTo, TruncateFails, Idle
  <2>2. CASE Commit(s)
    BY <1>0, <1>2, <2>2, CommitUnique DEF Commit
  <2>3. ASSUME NEW field, NEW b, Buffer(s, field, b)
        PROVE  PendingUnique'
    BY <1>1, <2>0, <2>3 DEF Buffer, Idle
  <2>4. ASSUME NEW t \in Tables, NEW rows \in SUBSET Row,
               EnforceUnique(t, [r \in rows |-> r], Visible(s, t)), WriteOut(s, "insert", InsertBatch(t, rows))
        PROVE  PendingUnique'
    <3>1. CASE txn[s] = NoTxn /\ AllocateTs(s, <<InsertBatch(t, rows)>>)
      <4>1. \A u \in Tables : UniqueBag(u, Outcome(s, <<InsertBatch(t, rows)>>, u))
        BY <1>0, <2>4, <3>1, SingleUnique
      <4> QED BY <1>2, <3>1, <4>1
    <3> QED BY <2>3, <2>4, <3>1 DEF WriteOut
  <2>5. ASSUME NEW t \in PKTables, NEW keys \in SUBSET Keys, WriteOut(s, "tombstone", Tombstone(t, keys, FALSE))
        PROVE  PendingUnique'
    <3>1. CASE txn[s] = NoTxn /\ AllocateTs(s, <<Tombstone(t, keys, FALSE)>>)
      <4>1. \A u \in Tables : UniqueBag(u, Outcome(s, <<Tombstone(t, keys, FALSE)>>, u))
        BY <1>0, <3>1, SingleUnique, TablesAssumption
      <4> QED BY <1>2, <3>1, <4>1
    <3> QED BY <2>3, <2>5, <3>1 DEF WriteOut
  <2>6. ASSUME txn[s] = NoTxn, NEW t \in Tables, NEW tombs, NEW frame,
               ImplicitArgs(t, tombs, frame), ImplicitTxn(s, t, tombs, frame)
        PROVE  PendingUnique'
    BY <1>0, <1>2, <2>6, ImplicitUnique
  <2> QED BY <1>3, <2>1, <2>2, <2>4, <2>5, <2>6, StatementKinds
<1>4. CASE Admin
  BY <1>1, <1>4 DEF Admin, Snapshot, AdminRestore, AdminRestoreTo, RestoreTo, CheckpointTable,
                    CheckpointEnd, TruncateFails, CheckpointCancel, Idle
<1>5. CASE WalWrite \/ UNCHANGED vars
  <2>1. /\ base' = base /\ delta' = delta /\ txn' = txn /\ owner' = owner /\ job' = job
        /\ pc' \in {"wal", "apply"} => pc \in {"wal", "apply"}
    BY <1>5 DEF WalWrite, vars
  <2>2. \A t \in Tables : Outcome(owner, job, t)' = Outcome(owner, job, t)
    BY <2>1 DEF Outcome
  <2> QED BY <1>0, <2>1, <2>2 DEF PendingUnique
<1>6. CASE WalFail \/ DeltaApply \/ Crash
  BY <1>1, <1>6 DEF WalFail, DeltaApply, Crash
<1> QED BY <1>3, <1>4, <1>5, <1>6 DEF Next

\* The invariants the argument rests on hold, and so does read-your-writes.
LEMMA WriteInvariant ==
    ASSUME "truncate_fails" \notin Allow, Orderly, "sql_restore" \notin Allow
    PROVE  Spec => [](WriteInv /\ OwnWrites)
<1>1. Init => WriteInv
  BY CoreInit, DurableInit, CoveredInit, IsolationInit, WriteInit DEF Init, WriteInv, SignInv, JobInv, ApplyInv
<1>2. WriteInv /\ [Next]_vars => WriteInv'
  BY CoreStep, DurableStep, CoveredStep, SignStep, IsolationStep, TxnStep, CapStep, JobStep, ApplyStep DEF WriteInv
<1>3. WriteInv => OwnWrites
  BY OwnWritesHold DEF WriteInv
<1> QED BY <1>1, <1>2, <1>3, PTL DEF Spec

LEMMA UniqueTip ==
    ASSUME WriteInv, HistoryUnique
    PROVE  KeysUnique
<1> SUFFICES ASSUME NEW t \in Tables,
                    NEW o \in Occurrences(MergeDelta(t, base[t], delta), RowsOf(MergeDelta(t, base[t], delta))),
                    NEW p \in Occurrences(MergeDelta(t, base[t], delta), RowsOf(MergeDelta(t, base[t], delta))),
                    o # p
             PROVE  /\ t \in PKTables => o[1].k # p[1].k
                    /\ t \in UniqueTables /\ o[1].v # Null => o[1].v # p[1].v
  BY DEF KeysUnique
<1>1. MergeDelta(t, base[t], delta) \in Bag /\ UniqueBag(t, MergeDelta(t, base[t], delta))
  BY TipUnique
<1> QED BY <1>1, UniqueKeys

\* No two committed rows share a declared primary key or a non-null UNIQUE value as long as
\* transactions do not overlap: the check of _enforce_unique against what the writer sees is
\* then enough, also across the several statements of a transaction, the shared timestamp of an
\* UPDATE's rows and tombstones, crashes, restores to any snapshot and whole checkpoints.  (The code
\* has no write-conflict check: two overlapping transactions may both insert one key.)
THEOREM EngineKeysUnique ==
    ASSUME "truncate_fails" \notin Allow, Orderly, "sql_restore" \notin Allow
    PROVE  Spec /\ []Serial => []KeysUnique
<1>1. Init => UniqueInv
  BY UniqueInit
<1>2. (WriteInv /\ OwnWrites) /\ (WriteInv /\ OwnWrites)' /\ Serial /\ UniqueInv /\ [Next]_vars => UniqueInv'
  BY HistoryStep, TxnUniqueStep, PendingStep DEF UniqueInv
<1>3. WriteInv /\ OwnWrites /\ UniqueInv => KeysUnique
  BY UniqueTip DEF UniqueInv
<1>4. Spec => [](WriteInv /\ OwnWrites)
  BY WriteInvariant
<1> QED BY <1>1, <1>2, <1>3, <1>4, PTL DEF Spec

\* With one session the condition is met by every behaviour: one client's keys stay unique
\* whatever it does and whatever the administrator restores and folds.
THEOREM EngineKeysUniqueOneSession ==
    ASSUME "truncate_fails" \notin Allow,
           Orderly, "sql_restore" \notin Allow, NEW c, Sessions = {c}
    PROVE  Spec => []KeysUnique
<1>1. WriteInv /\ OwnWrites => Serial
  BY DEF WriteInv, JobInv, Serial
<1>2. Spec => [](WriteInv /\ OwnWrites)
  BY WriteInvariant
<1>3. Spec /\ []Serial => []KeysUnique
  BY EngineKeysUnique
<1> QED BY <1>1, <1>2, <1>3, PTL
----------------------------------------------------------------------------
(***************************************************************************)
(* Named snapshots, whatever Allow contains.  Like the snapshot of an open *)
(* transaction, a named one is below the timestamp of a commit in flight;  *)
(* unlike it, it lives through restores and checkpoints.                   *)
(***************************************************************************)
NamedInv ==
    \A n \in DOMAIN snapshots :
        snapshots[n] <= commit_ts /\ (pc \in {"wal", "apply"} => snapshots[n] < commit_ts)

LEMMA NamedInit == Init => NamedInv
BY DEF Init, NamedInv

LEMMA NamedStep ==
    ASSUME "truncate_fails" \notin Allow, TypeOK, NamedInv, [Next]_vars
    PROVE  NamedInv'
<1>0. commit_ts \in Int /\ \A n \in DOMAIN snapshots : snapshots[n] \in Int
  BY DEF TypeOK
<1>1. ASSUME snapshots' = snapshots, commit_ts' = commit_ts, pc' \in {"idle", "ckpt", pc}
      PROVE  NamedInv'
  BY <1>1 DEF NamedInv
<1>2. ASSUME NEW m, RestoreTo(m), Idle
      PROVE  NamedInv'
  BY <1>2 DEF RestoreTo, TruncateFails, NamedInv, Idle
<1>3. ASSUME NEW s \in Sessions, Statement(s)
      PROVE  NamedInv'
  <2>1. ASSUME NEW bs, AllocateTs(s, bs)
        PROVE  NamedInv'
    <3>1. snapshots' = snapshots /\ commit_ts' = commit_ts + 1
      BY <2>1 DEF AllocateTs
    <3> QED BY <1>0, <3>1 DEF NamedInv
  <2> QED BY <1>1, <1>2, <1>3, <2>1, StatementShape DEF Begin, Rollback, Buffer, RestoreSql
<1>4. CASE Admin
  <2>1. ASSUME NEW n, Snapshot(n)
        PROVE  NamedInv'
    <3>1. /\ \A m \in DOMAIN snapshots' : snapshots'[m] = commit_ts \/ (m \in DOMAIN snapshots /\ snapshots'[m] = snapshots[m])
          /\ commit_ts' = commit_ts /\ pc' = "idle"
      BY <2>1 DEF Snapshot, Idle
    <3> QED BY <1>0, <3>1 DEF NamedInv
  <2>2. CASE CheckpointEnd
    BY <2>2 DEF CheckpointEnd, TruncateFails, NamedInv
  <2> QED BY <1>1, <1>2, <1>4, <2>1, <2>2 DEF Admin, AdminRestore, AdminRestoreTo, CheckpointTable, CheckpointCancel
<1>5. CASE WalWrite \/ WalFail \/ DeltaApply
  BY <1>5 DEF WalWrite, WalFail, DeltaApply, NamedInv
<1>6. CASE Crash
  BY <1>6 DEF Crash, NamedInv
<1>7. CASE UNCHANGED vars
  BY <1>7 DEF vars, NamedInv
<1> QED BY <1>3, <1>4, <1>5, <1>6, <1>7 DEF Next

\* The step relation that SnapshotsExact boxes.
ExactStep ==
    \A n \in DOMAIN snapshots \cap DOMAIN snapshots', t \in Tables :
        snapshots'[n] = snapshots[n] /\ (pc' = "ckpt" => snapshots[n] = commit_ts) =>
            MergeDelta(t, base'[t], EntriesAt(delta', snapshots[n])) = CommittedAt(t, snapshots[n])

\* A step that keeps the base and the entries up to each surviving snapshot keeps what they
\* restore.
LEMMA SameSnapshots ==
    ASSUME base' = base,
           \A n \in DOMAIN snapshots \cap DOMAIN snapshots' :
               EntriesAt(delta', snapshots[n]) = EntriesAt(delta, snapshots[n])
    PROVE  ExactStep
BY DEF ExactStep, CommittedAt

\* A restore drops the snapshots above its target, and no entry at or below it.
LEMMA RestoreExact ==
    ASSUME "truncate_fails" \notin Allow, TypeOK, NEW m \in Int, RestoreTo(m)
    PROVE  ExactStep
<1>1. base' = base /\ delta' = {e \in delta : e.ts <= m}
  BY DEF RestoreTo, TruncateFails, Rewind
<1>2. ASSUME NEW n \in DOMAIN snapshots \cap DOMAIN snapshots'
      PROVE  EntriesAt(delta', snapshots[n]) = EntriesAt(delta, snapshots[n])
  <2>1. snapshots[n] <= m /\ snapshots[n] \in Int
    BY <1>2 DEF RestoreTo, TruncateFails, TypeOK
  <2>2. \A e \in delta : e.ts \in Int
    BY DEF TypeOK, Entry
  <2> QED BY <1>1, <2>1, <2>2 DEF EntriesAt
<1> QED BY <1>1, <1>2, SameSnapshots

\* A fold keeps what a snapshot of now restores: it moves exactly the entries that snapshot
\* has from the delta to the base.
LEMMA FoldExact ==
    ASSUME CoreInv, CoveredInv, SignInv, NEW u \in Tables, CheckpointTable(u)
    PROVE  ExactStep
<1>1. /\ base' = [base EXCEPT ![u] = MergeDelta(u, base[u], delta)] /\ delta' = {e \in delta : e.batch.table # u}
      /\ base \in [Tables -> Bag] /\ pc' = "ckpt" /\ IsFiniteSet(delta)
  BY DEF CheckpointTable, Clear, CoreInv, TypeOK
<1>2. EntriesAt(delta, commit_ts) = delta /\ EntriesAt(delta', commit_ts) = delta'
  BY <1>1, DeltaTs DEF EntriesAt
<1>3. ASSUME NEW t \in Tables
      PROVE  MergeDelta(t, base'[t], delta') = MergeDelta(t, base[t], delta)
  <2>1. CASE t = u
    <3>1. base'[t] = MergeDelta(t, base[t], delta)
      BY <1>1, <2>1
    <3>2. base'[t] \in Bag
      BY <1>1, <3>1, MergeType
    <3>3. \A e \in delta' : e.batch.table # t
      BY <1>1, <2>1
    <3> QED BY <3>1, <3>2, <3>3, MergeNone
  <2>2. CASE t # u
    <3>1. base'[t] = base[t]
      BY <1>1, <2>2
    <3>2. {e \in delta' : e.batch.table = t} = {e \in delta : e.batch.table = t}
      BY <1>1, <2>2
    <3> QED BY <3>1, <3>2, MergeSame
  <2> QED BY <2>1, <2>2
<1> QED BY <1>1, <1>2, <1>3 DEF ExactStep, CommittedAt

LEMMA ExactNext ==
    ASSUME "truncate_fails" \notin Allow, CoreInv, CoveredInv, SignInv, NamedInv, Next
    PROVE  ExactStep
<1>0. TypeOK
  BY DEF CoreInv
<1>1. ASSUME base' = base, delta' = delta
      PROVE  ExactStep
  BY <1>1, SameSnapshots
<1>2. ASSUME NEW n \in Names, n \in DOMAIN snapshots, RestoreTo(snapshots[n])
      PROVE  ExactStep
  <2>1. snapshots[n] \in Int
    BY <1>0, <1>2 DEF TypeOK
  <2> QED BY <1>0, <1>2, <2>1, RestoreExact
<1>3. ASSUME NEW s \in Sessions, Statement(s)
      PROVE  ExactStep
  BY <1>0, <1>1, <1>2, <1>3, StatementShape DEF Begin, Rollback, Buffer, AllocateTs, RestoreSql
<1>4. CASE Admin
  <2>1. ASSUME NEW ts \in RestoreTargets, AdminRestoreTo(ts)
        PROVE  ExactStep
    BY <1>0, <2>1, TargetsAssumption, RestoreExact DEF AdminRestoreTo
  <2>2. ASSUME NEW n \in Names, Snapshot(n) \/ AdminRestore(n)
        PROVE  ExactStep
    BY <1>1, <1>2, <2>2 DEF Snapshot, AdminRestore
  <2>3. ASSUME NEW t \in Tables, CheckpointTable(t)
        PROVE  ExactStep
    BY <2>3, FoldExact
  <2> QED BY <1>1, <1>4, <2>1, <2>2, <2>3 DEF Admin, CheckpointEnd, TruncateFails, CheckpointCancel
<1>5. CASE DeltaApply
  <2>1. base' = base /\ delta' = delta \cup Stamp(commit_ts, job) /\ commit_ts \in Int
    BY <1>0, <1>5 DEF DeltaApply, TypeOK
  <2>2. ASSUME NEW n \in DOMAIN snapshots
        PROVE  EntriesAt(delta', snapshots[n]) = EntriesAt(delta, snapshots[n])
    <3>1. snapshots[n] < commit_ts /\ snapshots[n] \in Int
      BY <1>0, <1>5 DEF DeltaApply, NamedInv, TypeOK
    <3>2. \A e \in Stamp(commit_ts, job) : e.ts = commit_ts
      BY DEF Stamp
    <3>3. \A e \in Stamp(commit_ts, job) : ~(e.ts <= snapshots[n])
      BY <2>1, <3>1, <3>2
    <3> QED BY <2>1, <3>3 DEF EntriesAt
  <2> QED BY <2>1, <2>2, SameSnapshots
<1>6. CASE Crash
  BY <1>6 DEF Crash, ExactStep
<1>7. CASE WalWrite \/ WalFail
  BY <1>1, <1>7 DEF WalWrite, WalFail
<1> QED BY <1>3, <1>4, <1>5, <1>6, <1>7 DEF Next

\* What a named snapshot would restore never changes but by the fold of a later checkpoint,
\* whatever Allow has besides a failing truncate: restores to any timestamp, cancelled checkpoints,
\* failed commits and SQL restores under open transactions included.
THEOREM EngineSnapshotsExact ==
    ASSUME "truncate_fails" \notin Allow
    PROVE  Spec => SnapshotsExact
<1> DEFINE Inv == CoreInv /\ CoveredInv /\ SignInv /\ NamedInv
<1>1. Init => Inv
  BY CoreInit, CoveredInit, NamedInit DEF Init, SignInv
<1>2. Inv /\ [Next]_vars => Inv'
  BY CoreStep, CoveredStep, SignStep, NamedStep DEF CoreInv
<1>3. Inv /\ [Next]_vars => [ExactStep]_vars
  BY ExactNext
<1> HIDE DEF Inv
<1>4. Spec => [][ExactStep]_vars
  BY <1>1, <1>2, <1>3, PTL DEF Spec
<1> QED BY <1>4 DEF SnapshotsExact, ExactStep
=============================================================================
