------------------------------ MODULE WalProofs ------------------------------
(***************************************************************************)
(* Theorems about Wal, for logs of any length.  TypeOK and DroppedGone     *)
(* hold whatever fails; AckedDurable and TsOrdered need a restore whose    *)
(* truncate does not fail, because a failed one has lowered the counter    *)
(* already.                                                                *)
(***************************************************************************)
EXTENDS Wal, FiniteSetTheorems, WellFoundedInduction, TLAPS

----------------------------------------------------------------------------
(***************************************************************************)
(* Least and greatest elements.                                            *)
(***************************************************************************)

\* A non-empty set of naturals has a least element, which Min picks.
LEMMA MinNat ==
    ASSUME NEW S \in SUBSET Nat, S # {}
    PROVE  Min(S) \in S /\ \A y \in S : Min(S) <= y
<1> DEFINE Less == {p \in Nat \X Nat : p[1] < p[2]}
<1>0. IsWellFoundedOn(Less, Nat)
  BY NatLessThanWellFounded, Zenon DEF OpToRel
<1>1. PICK x \in S : \A y \in S : ~(<<y, x>> \in Less)
  <2> HIDE DEF Less
  <2> QED BY <1>0, WFMin
<1>2. \A y \in S : x <= y
  <2> TAKE y \in S
  <2>1. <<y, x>> \in Nat \X Nat
    OBVIOUS
  <2> QED BY <1>1, <2>1
<1> QED BY <1>2 DEF Min

\* A finite non-empty set of naturals has a greatest element, which Max picks: a smallest
\* subset without one could lose no element.
LEMMA MaxNat ==
    ASSUME NEW S \in SUBSET Nat, IsFiniteSet(S), S # {}
    PROVE  Max(S) \in S /\ \A y \in S : Max(S) >= y
<1> DEFINE HasMax(T) == \E x \in T : \A y \in T : x >= y
           Without == {T \in SUBSET S : T # {} /\ ~HasMax(T)}
<1>1. SUFFICES HasMax(S)
  BY DEF Max
<1>2. SUFFICES ASSUME Without # {} PROVE FALSE
  OBVIOUS
<1>3. IsWellFoundedOn(StrictSubsetOrdering(S), SUBSET S)
  BY FS_StrictSubsetOrderingWellFounded, FS_FiniteSubsetsOfFinite
<1>4. PICK T \in Without : \A U \in Without : ~(<<U, T>> \in StrictSubsetOrdering(S))
  <2>1. Without \subseteq SUBSET S
    OBVIOUS
  <2> HIDE DEF Without
  <2> QED BY <1>2, <1>3, <2>1, WFMin
<1>5. PICK x \in T : TRUE
  OBVIOUS
<1>6. T \ {x} \notin Without
  BY <1>4, <1>5 DEF StrictSubsetOrdering
<1>7. CASE T \ {x} = {}
  <2>1. \A y \in T : y = x
    BY <1>7
  <2>2. x \in Nat
    OBVIOUS
  <2> QED BY <1>5, <2>1, <2>2
<1>8. CASE T \ {x} # {}
  <2>1. PICK m \in T \ {x} : \A y \in T \ {x} : m >= y
    BY <1>6, <1>8
  <2>2. m \in Nat /\ x \in Nat /\ \A y \in T : y \in Nat
    OBVIOUS
  <2>3. CASE m >= x
    BY <1>5, <2>1, <2>2, <2>3
  <2>4. CASE x >= m
    BY <1>5, <2>1, <2>2, <2>4
  <2> QED BY <2>2, <2>3, <2>4
<1> QED BY <1>7, <1>8

----------------------------------------------------------------------------
(***************************************************************************)
(* The cuts replay and truncate make.                                      *)
(***************************************************************************)

\* The records of a file and the records of one of its prefixes.
LEMMA PrefixParts ==
    ASSUME NEW f \in Seq(Rec), NEW n \in 0..Len(f)
    PROVE  /\ SubSeq(f, 1, n) \in Seq(Rec)
           /\ Len(SubSeq(f, 1, n)) = n
           /\ \A i \in 1..n : SubSeq(f, 1, n)[i] = f[i]
OBVIOUS

\* What is before the first position of a set of them.
LEMMA CutPrefix ==
    ASSUME NEW f \in Seq(Rec), NEW bad \in SUBSET (1..Len(f))
    PROVE  \E n \in 0..Len(f) :
               /\ (IF bad = {} THEN f ELSE SubSeq(f, 1, Min(bad) - 1)) = SubSeq(f, 1, n)
               /\ \A i \in 1..n : i \notin bad
               /\ n < Len(f) => n + 1 \in bad
<1> DEFINE cut == IF bad = {} THEN f ELSE SubSeq(f, 1, Min(bad) - 1)
<1> SUFFICES \E n \in 0..Len(f) : /\ cut = SubSeq(f, 1, n)
                                  /\ \A i \in 1..n : i \notin bad
                                  /\ n < Len(f) => n + 1 \in bad
  OBVIOUS
<1>0. Len(f) \in Nat /\ \A i \in bad : i \in 1..Len(f)
  OBVIOUS
<1>1. CASE bad = {}
  <2>1. cut = SubSeq(f, 1, Len(f))
    BY <1>1
  <2>2. Len(f) \in 0..Len(f) /\ ~(Len(f) < Len(f)) /\ \A i \in 1..Len(f) : i \notin bad
    BY <1>0, <1>1
  <2> HIDE DEF cut
  <2> QED BY <2>1, <2>2
<1>2. CASE bad # {}
  <2>1. Min(bad) \in bad /\ \A y \in bad : Min(bad) <= y
    <3>1. bad \subseteq Nat
      OBVIOUS
    <3> QED BY <1>2, <3>1, MinNat
  <2> DEFINE m == Min(bad)
  <2>2. m \in 1..Len(f) /\ m \in bad /\ (\A y \in bad : m <= y) /\ cut = SubSeq(f, 1, m - 1)
    BY <1>0, <1>2, <2>1
  <2> HIDE DEF m, cut
  <2>3. m - 1 \in 0..Len(f) /\ (m - 1) + 1 = m
    BY <1>0, <2>2
  <2>4. \A i \in 1..(m - 1) : i \notin bad
    BY <1>0, <2>2
  <2> QED BY <2>2, <2>3, <2>4
<1> QED BY <1>1, <1>2

\* Valid keeps the records before the first torn one.
LEMMA ValidPrefix ==
    ASSUME NEW f \in Seq(Rec)
    PROVE  \E n \in 0..Len(f) : /\ Valid(f) = SubSeq(f, 1, n)
                                /\ \A i \in 1..n : f[i].whole
                                /\ n < Len(f) => ~f[n + 1].whole
<1> DEFINE torn == {i \in DOMAIN f : ~f[i].whole}
<1>1. torn \in SUBSET (1..Len(f)) /\ DOMAIN f = 1..Len(f)
  OBVIOUS
<1>2. Valid(f) = IF torn = {} THEN f ELSE SubSeq(f, 1, Min(torn) - 1)
  BY DEF Valid
<1>3. \A i \in 1..Len(f) : i \in torn <=> ~f[i].whole
  BY <1>1
<1> HIDE DEF torn
<1>4. PICK n \in 0..Len(f) : Valid(f) = SubSeq(f, 1, n) /\ (\A i \in 1..n : i \notin torn)
                             /\ (n < Len(f) => n + 1 \in torn)
  BY <1>1, <1>2, CutPrefix
<1> QED BY <1>3, <1>4

\* Kept keeps the records before the first torn or newer one.
LEMMA KeptPrefix ==
    ASSUME NEW f \in Seq(Rec), NEW m \in Nat
    PROVE  \E n \in 0..Len(f) : /\ Kept(f, m) = SubSeq(f, 1, n)
                                /\ \A i \in 1..n : f[i].whole /\ f[i].ts <= m
                                /\ n < Len(f) => ~f[n + 1].whole \/ f[n + 1].ts > m
<1> DEFINE cut == {i \in DOMAIN f : ~f[i].whole \/ f[i].ts > m}
<1>0. \A i \in 1..Len(f) : f[i] \in Rec
  OBVIOUS
<1>1. cut \in SUBSET (1..Len(f)) /\ DOMAIN f = 1..Len(f) /\ \A i \in 1..Len(f) : f[i].ts \in Nat
  BY <1>0 DEF Rec
<1>2. Kept(f, m) = IF cut = {} THEN f ELSE SubSeq(f, 1, Min(cut) - 1)
  BY DEF Kept
<1>3. \A i \in 1..Len(f) : /\ i \notin cut => f[i].whole /\ f[i].ts <= m
                           /\ i \in cut => ~f[i].whole \/ f[i].ts > m
  BY <1>1
<1> HIDE DEF cut
<1>4. PICK n \in 0..Len(f) : Kept(f, m) = SubSeq(f, 1, n) /\ (\A i \in 1..n : i \notin cut)
                             /\ (n < Len(f) => n + 1 \in cut)
  BY <1>1, <1>2, CutPrefix
<1> QED BY <1>3, <1>4

----------------------------------------------------------------------------
(***************************************************************************)
(* The file.                                                               *)
(***************************************************************************)

\* Only the last record may be torn, only while its rest is buffered, and it is not synced.
PendInv ==
    /\ \A i \in 1..Len(file) : ~file[i].whole => pend /\ i = Len(file)
    /\ pend => synced < Len(file)

FileInv == TypeOK /\ PendInv

\* A seek completes the torn record and changes nothing else.
LEMMA FlushedParts ==
    ASSUME FileInv
    PROVE  /\ Flushed \in Seq(Rec) /\ Len(Flushed) = Len(file)
           /\ \A i \in 1..Len(file) : /\ Flushed[i].id = file[i].id
                                      /\ Flushed[i].ts = file[i].ts
                                      /\ Flushed[i].whole
           /\ \A i \in 1..synced : i \in 1..Len(file) /\ Flushed[i] = file[i]
<1>1. file \in Seq(Rec) /\ synced \in 0..Len(file) /\ \A i \in 1..Len(file) : file[i] \in Rec
  BY DEF FileInv, TypeOK
<1>2. CASE ~pend
  BY <1>1, <1>2 DEF Flushed, FileInv, PendInv
<1>3. CASE pend
  <2>1. Len(file) \in 1..Len(file) /\ synced < Len(file)
    BY <1>1, <1>3 DEF FileInv, PendInv
  <2> DEFINE last == [file[Len(file)] EXCEPT !.whole = TRUE]
  <2>2. last \in Rec /\ last.id = file[Len(file)].id /\ last.ts = file[Len(file)].ts /\ last.whole
    BY <1>1, <2>1 DEF Rec
  <2>3. Flushed = [file EXCEPT ![Len(file)] = last]
    BY <1>3, <2>1 DEF Flushed
  <2> HIDE DEF last
  <2>4. Flushed \in Seq(Rec) /\ Len(Flushed) = Len(file)
    BY <1>1, <2>1, <2>2, <2>3
  <2>5. \A i \in 1..Len(file) : Flushed[i] = IF i = Len(file) THEN last ELSE file[i]
    BY <1>1, <2>3
  <2>6. \A i \in 1..Len(file) : i # Len(file) => file[i].whole
    BY <1>1 DEF FileInv, PendInv
  <2> QED BY <1>1, <2>1, <2>2, <2>4, <2>5, <2>6
<1> QED BY <1>2, <1>3

\* The record a write_commit appends.
LEMMA NewRecType ==
    ASSUME TypeOK, NEW b \in BOOLEAN
    PROVE  NewRec(b) \in Rec /\ NewRec(b).id = ids + 1 /\ NewRec(b).ts = lsn + 1 /\ NewRec(b).whole = b
BY DEF NewRec, Rec, TypeOK

LEMMA AppendParts ==
    ASSUME FileInv, NEW b \in BOOLEAN
    PROVE  LET f == Append(Flushed, NewRec(b)) IN
           /\ f \in Seq(Rec) /\ Len(f) = Len(file) + 1
           /\ \A i \in 1..Len(file) : /\ f[i] = Flushed[i] /\ f[i].whole
                                      /\ f[i].id = file[i].id /\ f[i].ts = file[i].ts
           /\ f[Len(file) + 1] = NewRec(b)
<1>1. Flushed \in Seq(Rec) /\ Len(Flushed) = Len(file) /\ NewRec(b) \in Rec
  BY FlushedParts, NewRecType DEF FileInv
<1>2. LET f == Append(Flushed, NewRec(b)) IN
      f \in Seq(Rec) /\ Len(f) = Len(file) + 1 /\ f[Len(file) + 1] = NewRec(b)
      /\ \A i \in 1..Len(file) : f[i] = Flushed[i]
  BY <1>1
<1> QED BY <1>2, FlushedParts

\* What replay makes of a file.
LEMMA ValidParts ==
    ASSUME NEW f \in Seq(Rec)
    PROVE  /\ Valid(f) \in Seq(Rec) /\ Len(Valid(f)) \in 0..Len(f)
           /\ \A i \in 1..Len(Valid(f)) : Valid(f)[i] = f[i] /\ f[i].whole
           /\ Len(Valid(f)) < Len(f) => ~f[Len(Valid(f)) + 1].whole
<1>1. PICK n \in 0..Len(f) : /\ Valid(f) = SubSeq(f, 1, n)
                             /\ \A i \in 1..n : f[i].whole
                             /\ n < Len(f) => ~f[n + 1].whole
  BY ValidPrefix
<1>2. Valid(f) \in Seq(Rec) /\ Len(Valid(f)) = n /\ \A i \in 1..n : Valid(f)[i] = f[i]
  BY <1>1, PrefixParts
<1> QED BY <1>1, <1>2

\* What truncate makes of a flushed file, which has no torn record.
LEMMA KeptParts ==
    ASSUME FileInv, NEW m \in Nat
    PROVE  LET f == Kept(Flushed, m) IN
           /\ f \in Seq(Rec) /\ Len(f) \in 0..Len(file)
           /\ \A i \in 1..Len(f) : f[i] = Flushed[i] /\ f[i].whole /\ f[i].ts <= m
           /\ Len(f) < Len(file) => file[Len(f) + 1].ts > m
<1>1. /\ Flushed \in Seq(Rec) /\ Len(Flushed) = Len(file)
      /\ \A i \in 1..Len(file) : Flushed[i].whole /\ Flushed[i].ts = file[i].ts
  BY FlushedParts
<1>2. PICK n \in 0..Len(file) : /\ Kept(Flushed, m) = SubSeq(Flushed, 1, n)
                                /\ \A i \in 1..n : Flushed[i].whole /\ Flushed[i].ts <= m
                                /\ n < Len(file) => ~Flushed[n + 1].whole \/ Flushed[n + 1].ts > m
  BY <1>1, KeptPrefix
<1>3. /\ Kept(Flushed, m) \in Seq(Rec) /\ Len(Kept(Flushed, m)) = n
      /\ \A i \in 1..n : Kept(Flushed, m)[i] = Flushed[i]
  BY <1>1, <1>2, PrefixParts
<1>4. n < Len(file) => n + 1 \in 1..Len(file)
  BY <1>1
<1> QED BY <1>1, <1>2, <1>3, <1>4

\* The file a power loss leaves, as replay reads it: a prefix of a file there was, at least as
\* long as what was synced unless that is torn.
LEMMA SurvivorParts ==
    ASSUME TypeOK, NEW f \in Survivors
    PROVE  /\ f \in Seq(Rec)
           /\ \E g \in stale \cup {file} :
                 /\ g \in Seq(Rec) /\ Len(Valid(f)) <= Len(g)
                 /\ \A i \in 1..Len(Valid(f)) : Valid(f)[i] = g[i] /\ g[i].whole
                 /\ Len(Valid(f)) < synced => ~g[Len(Valid(f)) + 1].whole
<1>1. PICK g \in stale \cup {file} : \E n \in synced..Len(g) : f = SubSeq(g, 1, n)
  BY DEF Survivors
<1>2. PICK n \in synced..Len(g) : f = SubSeq(g, 1, n)
  BY <1>1
<1>3. g \in Seq(Rec) /\ Len(g) \in Nat /\ synced \in Nat
  BY DEF TypeOK
<1>4. n \in 0..Len(g)
  BY <1>3
<1>5. f \in Seq(Rec) /\ Len(f) = n /\ \A i \in 1..n : f[i] = g[i]
  BY <1>2, <1>3, <1>4, PrefixParts
<1>6. /\ Valid(f) \in Seq(Rec) /\ Len(Valid(f)) \in 0..n
      /\ \A i \in 1..Len(Valid(f)) : Valid(f)[i] = f[i] /\ f[i].whole
      /\ Len(Valid(f)) < n => ~f[Len(Valid(f)) + 1].whole
  BY <1>5, ValidParts
<1>7. \A i \in 1..Len(Valid(f)) : Valid(f)[i] = g[i] /\ g[i].whole
  BY <1>5, <1>6
<1>8. Len(Valid(f)) < synced => ~g[Len(Valid(f)) + 1].whole
  BY <1>3, <1>4, <1>5, <1>6
<1> QED BY <1>3, <1>4, <1>5, <1>6, <1>7, <1>8

\* The counter of a new process is the largest timestamp it replayed.
LEMMA ReopenCounter ==
    ASSUME NEW f \in Seq(Rec), Reopen(f)
    PROVE  lsn' \in Nat /\ \A i \in 1..Len(file') : file'[i].ts <= lsn'
<1> DEFINE T == {f[i].ts : i \in DOMAIN Valid(f)}
<1>1. /\ Valid(f) \in Seq(Rec) /\ Len(Valid(f)) \in 0..Len(f)
      /\ \A i \in 1..Len(Valid(f)) : Valid(f)[i] = f[i]
  BY ValidParts
<1>2. DOMAIN Valid(f) = 1..Len(Valid(f)) /\ \A i \in 1..Len(f) : f[i].ts \in Nat
  <2>1. \A i \in 1..Len(f) : f[i] \in Rec
    OBVIOUS
  <2> QED BY <1>1, <2>1 DEF Rec
<1>3. T \subseteq Nat
  BY <1>1, <1>2
<1>4. IsFiniteSet(T)
  <2>1. IsFiniteSet(DOMAIN Valid(f))
    BY <1>1, <1>2, FS_Interval
  <2> DEFINE h == [i \in DOMAIN Valid(f) |-> f[i].ts]
  <2>2. h \in Surjection(DOMAIN Valid(f), T)
    BY DEF Surjection
  <2> QED BY <2>1, <2>2, FS_Surjection
<1>5. IsFiniteSet({0} \cup T) /\ {0} \cup T \subseteq Nat
  <2> HIDE DEF T
  <2>1. IsFiniteSet(T \cup {0})
    BY <1>4, FS_AddElement
  <2>2. {0} \cup T = T \cup {0}
    OBVIOUS
  <2>3. {0} \cup T \subseteq Nat
    BY <1>3
  <2> QED BY <2>1, <2>2, <2>3
<1>6. lsn' = Max({0} \cup T)
  BY DEF Reopen
<1>7. lsn' \in {0} \cup T /\ \A y \in {0} \cup T : lsn' >= y
  <2> HIDE DEF T
  <2> QED BY <1>5, <1>6, MaxNat
<1>8. \A i \in 1..Len(file') : file'[i].ts \in T
  BY <1>1, <1>2 DEF Reopen
<1> HIDE DEF T
<1> QED BY <1>5, <1>7, <1>8

----------------------------------------------------------------------------
(***************************************************************************)
(* Types and torn records.                                                 *)
(***************************************************************************)

LEMMA TruncationArgs ==
    ASSUME TypeOK, NEW c \in Truncations
    PROVE  c[1] \in Nat /\ c[2] \in Nat /\ (c[1] # c[2] => c[1] = 0 /\ c[2] = lsn)
BY MaxRecsAssumption DEF Truncations, TypeOK

LEMMA FileWrites ==
    ASSUME FileInv, WriteOk \/ SeekFails \/ WriteFails \/ WriteFailsStuck
    PROVE  FileInv'
<1>1. /\ ids \in Nat /\ lsn \in Nat /\ synced \in 0..Len(file) /\ file \in Seq(Rec) /\ stale \subseteq Seq(Rec)
      /\ acked \subseteq [id : Nat, ts : Nat] /\ dropped \subseteq Nat /\ pend \in BOOLEAN
  BY DEF FileInv, TypeOK
<1>2. ids' \in Nat /\ lsn' \in Nat
  <2>1. NewId
    BY DEF WriteOk, SeekFails, WriteFails, WriteFailsStuck
  <2> QED BY <1>1, <2>1 DEF NewId
<1>3. CASE WriteOk
  <2>1. file' \in Seq(Rec) /\ Len(file') = Len(file) + 1 /\ \A i \in 1..Len(file') : file'[i].whole
    <3>1. file' = Append(Flushed, NewRec(TRUE))
      BY <1>3 DEF WriteOk
    <3>2. /\ file' \in Seq(Rec) /\ Len(file') = Len(file) + 1
          /\ \A i \in 1..Len(file) : file'[i].whole
          /\ file'[Len(file) + 1].whole
      BY <3>1, AppendParts, NewRecType DEF FileInv
    <3> QED BY <1>1, <3>2
  <2>2. synced' = Len(file') /\ stale' = {} /\ ~pend' /\ dropped' = dropped
    BY <1>3 DEF WriteOk
  <2>3. acked' \subseteq [id : Nat, ts : Nat]
    BY <1>1, <1>3 DEF WriteOk
  <2>4. pend' \in BOOLEAN
    BY <1>3 DEF WriteOk
  <2> QED BY <1>1, <1>2, <2>1, <2>2, <2>3, <2>4 DEF FileInv, TypeOK, PendInv
<1>4. CASE SeekFails
  BY <1>1, <1>2, <1>4 DEF SeekFails, FileInv, TypeOK, PendInv
<1>5. CASE WriteFails
  <2>1. PICK full \in BOOLEAN : stale' = stale \cup {Append(Flushed, NewRec(full))}
    BY <1>5 DEF WriteFails
  <2>2. stale' \subseteq Seq(Rec)
    BY <1>1, <2>1, AppendParts
  <2>3. file' \in Seq(Rec) /\ Len(file') = Len(file) /\ \A i \in 1..Len(file') : file'[i].whole
    BY <1>1, <1>5, FlushedParts DEF WriteFails
  <2>4. pend' = FALSE /\ synced' = synced /\ acked' = acked /\ dropped' = dropped
    BY <1>5 DEF WriteFails
  <2> QED BY <1>1, <1>2, <2>2, <2>3, <2>4 DEF FileInv, TypeOK, PendInv
<1>6. CASE WriteFailsStuck
  <2>1. PICK b \in BOOLEAN : file' = Append(Flushed, NewRec(b)) /\ pend' = ~b
    BY <1>6 DEF WriteFailsStuck
  <2>2. synced' = synced /\ stale' = stale /\ acked' = acked /\ dropped' = dropped
    BY <1>6 DEF WriteFailsStuck
  <2>3. /\ file' \in Seq(Rec) /\ Len(file') = Len(file) + 1
        /\ \A i \in 1..Len(file) : file'[i].whole
        /\ file'[Len(file) + 1].whole = b
    BY <2>1, AppendParts, NewRecType DEF FileInv
  <2>4. \A i \in 1..Len(file') : ~file'[i].whole => ~b /\ i = Len(file')
    BY <1>1, <2>3
  <2>5. pend' \in BOOLEAN /\ synced' \in 0..Len(file') /\ synced' < Len(file')
    BY <1>1, <2>1, <2>2, <2>3
  <2> QED BY <1>1, <1>2, <2>1, <2>2, <2>3, <2>4, <2>5 DEF FileInv, TypeOK, PendInv
<1> QED BY <1>3, <1>4, <1>5, <1>6

LEMMA FileCuts ==
    ASSUME FileInv, NEW c \in Truncations, Truncate(c[1], c[2]) \/ TruncateFails(c[1], c[2])
    PROVE  FileInv'
<1>1. /\ ids \in Nat /\ lsn \in Nat /\ synced \in 0..Len(file) /\ file \in Seq(Rec) /\ stale \subseteq Seq(Rec)
      /\ acked \subseteq [id : Nat, ts : Nat] /\ dropped \subseteq Nat
  BY DEF FileInv, TypeOK
<1>2. c[1] \in Nat /\ c[2] \in Nat
  BY TruncationArgs DEF FileInv
<1>3. lsn' \in Nat /\ ids' = ids /\ pend' = FALSE
  BY <1>2 DEF Truncate, TruncateFails
<1>4. /\ Flushed \in Seq(Rec) /\ Len(Flushed) = Len(file) /\ \A i \in 1..Len(file) : Flushed[i].whole
  BY FlushedParts
<1>5. /\ Kept(Flushed, c[1]) \in Seq(Rec) /\ Len(Kept(Flushed, c[1])) \in 0..Len(file)
      /\ \A i \in 1..Len(Kept(Flushed, c[1])) : Kept(Flushed, c[1])[i].whole
  BY <1>2, KeptParts
<1>6. file' \in {Flushed, Kept(Flushed, c[1])}
  BY DEF Truncate, TruncateFails
<1>7. file' \in Seq(Rec) /\ \A i \in 1..Len(file') : file'[i].whole
  BY <1>4, <1>5, <1>6
<1>8. synced' \in 0..Len(file')
  <2>1. CASE Truncate(c[1], c[2])
    BY <1>1, <1>5, <2>1 DEF Truncate
  <2>2. CASE TruncateFails(c[1], c[2])
    BY <1>1, <1>4, <1>5, <2>2 DEF TruncateFails
  <2> QED BY <2>1, <2>2
<1>9. stale' \subseteq Seq(Rec)
  BY <1>1, <1>4 DEF Truncate, TruncateFails
<1>10. acked' \subseteq [id : Nat, ts : Nat]
  BY <1>1 DEF Truncate, TruncateFails
<1>11. dropped' \subseteq Nat
  <2>1. \A i \in 1..Len(file) : file[i] \in Rec
    BY <1>1
  <2>2. Ids(file) \subseteq Nat
    BY <1>1, <2>1 DEF Ids, Rec
  <2> QED BY <1>1, <2>2 DEF Truncate, TruncateFails
<1> QED BY <1>1, <1>3, <1>7, <1>8, <1>9, <1>10, <1>11 DEF FileInv, TypeOK, PendInv

LEMMA FileCrashes ==
    ASSUME FileInv, ProcessCrash \/ PowerLoss
    PROVE  FileInv'
<1>1. /\ ids \in Nat /\ synced \in 0..Len(file) /\ file \in Seq(Rec) /\ stale \subseteq Seq(Rec)
      /\ acked \subseteq [id : Nat, ts : Nat] /\ dropped \subseteq Nat
  BY DEF FileInv, TypeOK
<1>2. PICK f \in Seq(Rec) : Reopen(f) /\ (ProcessCrash => f = file)
  <2>1. CASE ProcessCrash
    BY <1>1, <2>1 DEF ProcessCrash
  <2>2. CASE PowerLoss /\ ~ProcessCrash
    <3>1. PICK f \in Survivors : Reopen(f)
      BY <2>2 DEF PowerLoss
    <3> QED BY <2>2, <3>1, SurvivorParts DEF FileInv
  <2> QED BY <2>1, <2>2
<1>3. file' = Valid(f) /\ pend' = FALSE /\ ids' = ids /\ acked' = acked /\ dropped' = dropped
  BY <1>2 DEF Reopen
<1>4. file' \in Seq(Rec) /\ \A i \in 1..Len(file') : file'[i].whole
  BY <1>3, ValidParts
<1>5. lsn' \in Nat
  BY <1>2, ReopenCounter
<1>6. synced' \in 0..Len(file') /\ stale' \subseteq Seq(Rec)
  <2>1. CASE ProcessCrash
    BY <1>1, <1>4, <2>1 DEF ProcessCrash
  <2>2. CASE PowerLoss
    BY <1>1, <1>4, <2>2 DEF PowerLoss
  <2> QED BY <2>1, <2>2
<1> QED BY <1>1, <1>3, <1>4, <1>5, <1>6 DEF FileInv, TypeOK, PendInv

LEMMA FileInit == Init => FileInv
<1> SUFFICES ASSUME Init PROVE FileInv
  OBVIOUS
<1>1. file = <<>> /\ pend = FALSE /\ synced = 0 /\ stale = {} /\ lsn = 0 /\ ids = 0 /\ acked = {} /\ dropped = {}
  BY DEF Init
<1>2. <<>> \in Seq(Rec) /\ Len(<<>>) = 0
  OBVIOUS
<1>3. pend \in BOOLEAN
  BY <1>1, Zenon
<1>4. file \in Seq(Rec) /\ Len(file) = 0 /\ synced \in 0..Len(file)
  BY <1>1, <1>2
<1>5. /\ stale \subseteq Seq(Rec) /\ acked \subseteq [id : Nat, ts : Nat] /\ dropped \subseteq Nat
      /\ lsn \in Nat /\ ids \in Nat
  BY <1>1
<1>6. PendInv
  BY <1>1, <1>4 DEF PendInv
<1> QED BY <1>3, <1>4, <1>5, <1>6 DEF FileInv, TypeOK

LEMMA FileNext == FileInv /\ [Next]_walvars => FileInv'
<1> SUFFICES ASSUME FileInv, [Next]_walvars PROVE FileInv'
  OBVIOUS
<1>1. CASE UNCHANGED walvars
  BY <1>1 DEF walvars, FileInv, TypeOK, PendInv
<1> QED BY <1>1, FileWrites, FileCuts, FileCrashes DEF Next

\* The variables have their types, whichever calls fail (wal.py).
THEOREM WalTypes == Spec => []TypeOK
<1>1. FileInv => TypeOK
  BY DEF FileInv
<1> QED BY <1>1, FileInit, FileNext, PTL DEF Spec

----------------------------------------------------------------------------
(***************************************************************************)
(* Where the records of a file come from.                                  *)
(***************************************************************************)

\* The file, and the earlier contents of it that may still be on disk.
Known == stale \cup {file}

\* f has the records of the beginning of g, torn or not.
BeginningOf(f, g) ==
    Len(f) <= Len(g) /\ \A i \in 1..Len(f) : f[i].id = g[i].id /\ f[i].ts = g[i].ts

\* f has the records of the file and the one of the commit that was just tried.
Extended(f) ==
    /\ Len(f) = Len(file) + 1
    /\ \A i \in 1..Len(file) : f[i].id = file[i].id /\ f[i].ts = file[i].ts
    /\ f[Len(file) + 1].id = ids + 1 /\ f[Len(file) + 1].ts = lsn + 1

LEMMA KnownTypes ==
    ASSUME TypeOK
    PROVE  \A f \in Known : /\ f \in Seq(Rec) /\ Len(f) \in Nat
                            /\ \A i \in 1..Len(f) : f[i].id \in Nat /\ f[i].ts \in Nat
<1>1. \A f \in Known : f \in Seq(Rec)
  BY DEF TypeOK, Known
<1>2. \A f \in Seq(Rec) : Len(f) \in Nat /\ \A i \in 1..Len(f) : f[i] \in Rec
  OBVIOUS
<1>3. \A r \in Rec : r.id \in Nat /\ r.ts \in Nat
  BY DEF Rec
<1> QED BY <1>1, <1>2, <1>3

\* No step makes up records: it cuts a file there was, or adds the new record to the file.
LEMMA Derivation ==
    ASSUME FileInv, [Next]_walvars
    PROVE  \A f \in Known' : \/ \E g \in Known : BeginningOf(f, g)
                             \/ Extended(f) /\ ids' = ids + 1
<1>1. TypeOK /\ file \in Seq(Rec) /\ Len(file) \in Nat /\ file \in Known
  BY DEF FileInv, TypeOK, Known
<1>2. \A f \in Known : BeginningOf(f, f)
  BY <1>1, KnownTypes DEF BeginningOf
<1>3. BeginningOf(Flushed, file)
  BY <1>1, FlushedParts DEF BeginningOf
<1>4. ASSUME NEW b \in BOOLEAN PROVE Extended(Append(Flushed, NewRec(b)))
  BY <1>1, AppendParts, NewRecType DEF Extended
<1>5. ASSUME NEW m \in Nat PROVE BeginningOf(Kept(Flushed, m), file)
  <2>1. Len(Kept(Flushed, m)) \in 0..Len(file) /\ \A i \in 1..Len(Kept(Flushed, m)) : Kept(Flushed, m)[i] = Flushed[i]
    BY KeptParts
  <2> QED BY <1>1, <2>1, FlushedParts DEF BeginningOf
<1>6. CASE WriteOk
  <2>1. Known' = {Append(Flushed, NewRec(TRUE))} /\ ids' = ids + 1
    BY <1>6 DEF WriteOk, NewId, Known
  <2> QED BY <1>4, <2>1
<1>7. CASE SeekFails
  <2>1. Known' = Known
    BY <1>7 DEF SeekFails, Known
  <2> QED BY <1>2, <2>1
<1>8. CASE WriteFails
  <2>1. PICK b \in BOOLEAN : stale' = stale \cup {Append(Flushed, NewRec(b))}
    BY <1>8 DEF WriteFails
  <2>2. file' = Flushed /\ ids' = ids + 1
    BY <1>8 DEF WriteFails, NewId
  <2>3. \A f \in Known' : f \in Known \/ f = Flushed \/ f = Append(Flushed, NewRec(b))
    BY <2>1, <2>2 DEF Known
  <2> QED BY <1>1, <1>2, <1>3, <1>4, <2>2, <2>3
<1>9. CASE WriteFailsStuck
  <2>1. PICK b \in BOOLEAN : file' = Append(Flushed, NewRec(b))
    BY <1>9 DEF WriteFailsStuck
  <2>2. stale' = stale /\ ids' = ids + 1
    BY <1>9 DEF WriteFailsStuck, NewId
  <2>3. \A f \in Known' : f \in Known \/ f = Append(Flushed, NewRec(b))
    BY <2>1, <2>2 DEF Known
  <2> QED BY <1>2, <1>4, <2>2, <2>3
<1>10. ASSUME NEW c \in Truncations, Truncate(c[1], c[2]) \/ TruncateFails(c[1], c[2])
       PROVE  \A f \in Known' : \E g \in Known : BeginningOf(f, g)
  <2>1. c[1] \in Nat
    BY <1>1, TruncationArgs
  <2>2. \A f \in Known' : f \in Known \/ f = Flushed \/ f = Kept(Flushed, c[1])
    BY <1>10 DEF Truncate, TruncateFails, Known
  <2> QED BY <1>1, <1>2, <1>3, <1>5, <2>1, <2>2
<1>11. CASE ProcessCrash
  <2>1. BeginningOf(Valid(file), file)
    BY <1>1, ValidParts DEF BeginningOf
  <2>2. \A f \in Known' : f \in Known \/ f = Valid(file)
    BY <1>11 DEF ProcessCrash, Reopen, Known
  <2> QED BY <1>1, <1>2, <2>1, <2>2
<1>12. CASE PowerLoss
  <2>1. PICK f \in Survivors : Reopen(f)
    BY <1>12 DEF PowerLoss
  <2>2. PICK g \in Known : /\ Len(Valid(f)) <= Len(g)
                           /\ \A i \in 1..Len(Valid(f)) : Valid(f)[i] = g[i]
    BY <1>1, SurvivorParts DEF Known
  <2>3. BeginningOf(Valid(f), g)
    BY <2>2 DEF BeginningOf
  <2>4. Known' = {Valid(f)}
    BY <1>12, <2>1 DEF PowerLoss, Reopen, Known
  <2> QED BY <2>3, <2>4
<1>13. CASE UNCHANGED walvars
  <2>1. Known' = Known
    BY <1>13 DEF walvars, Known
  <2> QED BY <1>2, <2>1
<1> QED BY <1>6, <1>7, <1>8, <1>9, <1>10, <1>11, <1>12, <1>13 DEF Next

----------------------------------------------------------------------------
(***************************************************************************)
(* Dropped records.                                                        *)
(***************************************************************************)

\* Identities are given out in order, and no file has a dropped one.
IdInv ==
    /\ \A f \in Known : \A i \in 1..Len(f) : f[i].id \in 1..ids
    /\ dropped \subseteq 1..ids
GoneInv == \A f \in Known : \A i \in 1..Len(f) : f[i].id \notin dropped
DropInv == FileInv /\ IdInv /\ GoneInv

LEMMA DropInit == Init => DropInv
<1> SUFFICES ASSUME Init PROVE DropInv
  OBVIOUS
<1>1. Known = {<<>>} /\ Len(<<>>) = 0 /\ dropped = {}
  BY DEF Init, Known
<1>2. \A f \in Known : Len(f) = 0
  BY <1>1
<1> QED BY <1>1, <1>2, FileInit DEF DropInv, IdInv, GoneInv

\* Only a truncate that returns drops records: those it cut.
LEMMA DropStep ==
    ASSUME FileInv, [Next]_walvars
    PROVE  /\ ids' \in {ids, ids + 1}
           /\ \/ dropped' = dropped
              \/ /\ dropped' = dropped \cup (Ids(file) \ Ids(file'))
                 /\ ids' = ids
                 /\ Known' = {file'} \/ Ids(file) = Ids(file')
<1>1. TypeOK
  BY DEF FileInv
<1>2. ids' \in {ids, ids + 1}
  BY DEF Next, walvars, WriteOk, SeekFails, WriteFails, WriteFailsStuck, NewId, Truncate, TruncateFails,
         ProcessCrash, PowerLoss, Reopen
<1>3. ASSUME NEW c \in Truncations, Truncate(c[1], c[2])
      PROVE  /\ dropped' = dropped \cup (Ids(file) \ Ids(file')) /\ ids' = ids
             /\ Known' = {file'} \/ Ids(file) = Ids(file')
  <2>1. dropped' = dropped \cup (Ids(file) \ Ids(file')) /\ ids' = ids
    BY <1>3 DEF Truncate
  <2>2. CASE Len(file') # Len(file)
    BY <1>3, <2>1, <2>2 DEF Truncate, Known
  <2>3. CASE Len(file') = Len(file)
    <3>1. file' = Kept(Flushed, c[1]) /\ c[1] \in Nat
      BY <1>1, <1>3, TruncationArgs DEF Truncate
    <3>2. file' \in Seq(Rec) /\ \A i \in 1..Len(file') : file'[i].id = file[i].id
      BY <2>3, <3>1, KeptParts, FlushedParts
    <3>3. DOMAIN file = 1..Len(file) /\ DOMAIN file' = 1..Len(file)
      BY <1>1, <2>3, <3>2 DEF TypeOK
    <3>4. Ids(file) = Ids(file')
      BY <2>3, <3>2, <3>3 DEF Ids
    <3> QED BY <2>1, <3>4
  <2> QED BY <2>2, <2>3
<1>4. CASE \A c \in Truncations : ~Truncate(c[1], c[2])
  <2>1. dropped' = dropped
    BY <1>4 DEF Next, walvars, WriteOk, SeekFails, WriteFails, WriteFailsStuck, TruncateFails,
                ProcessCrash, PowerLoss, Reopen
  <2> QED BY <1>2, <2>1
<1> QED BY <1>2, <1>3, <1>4

LEMMA DropNext == DropInv /\ [Next]_walvars => DropInv'
<1> SUFFICES ASSUME DropInv, [Next]_walvars PROVE DropInv'
  OBVIOUS
<1>1. FileInv /\ FileInv' /\ TypeOK /\ TypeOK'
  BY FileNext DEF DropInv, FileInv
<1>2. ids \in Nat /\ ids' \in {ids, ids + 1} /\ ids' \in Nat
  BY <1>1, DropStep DEF TypeOK
<1>3. \A f \in Known' : \/ \E g \in Known : BeginningOf(f, g)
                        \/ Extended(f) /\ ids' = ids + 1
  BY <1>1, Derivation
<1>4. \A f \in Known' : Len(f) \in Nat
  BY <1>1, KnownTypes
<1>5. ASSUME NEW f \in Known', NEW i \in 1..Len(f)
      PROVE  \/ \E g \in Known : \E j \in 1..Len(g) : f[i].id = g[j].id
             \/ f[i].id = ids + 1 /\ ids' = ids + 1
  <2>1. CASE \E g \in Known : BeginningOf(f, g)
    <3>1. PICK g \in Known : BeginningOf(f, g)
      BY <2>1
    <3>2. Len(g) \in Nat /\ Len(f) \in Nat
      BY <1>1, <1>4, KnownTypes
    <3>3. i \in 1..Len(g) /\ f[i].id = g[i].id
      BY <3>1, <3>2 DEF BeginningOf
    <3> QED BY <3>3
  <2>2. CASE Extended(f) /\ ids' = ids + 1
    <3>1. file \in Known /\ Len(file) \in Nat
      BY <1>1, KnownTypes DEF Known
    <3>2. i \in 1..Len(file) \/ i = Len(file) + 1
      BY <2>2, <3>1 DEF Extended
    <3> QED BY <2>2, <3>1, <3>2 DEF Extended
  <2> QED BY <1>3, <2>1, <2>2
<1>6. \A f \in Known' : \A i \in 1..Len(f) : f[i].id \in 1..ids'
  BY <1>2, <1>5 DEF DropInv, IdInv
<1>7. dropped \subseteq 1..ids' /\ \A f \in Known' : \A i \in 1..Len(f) : f[i].id \notin dropped
  BY <1>2, <1>5 DEF DropInv, IdInv, GoneInv
<1>8. CASE dropped' = dropped
  BY <1>1, <1>6, <1>7, <1>8 DEF DropInv, IdInv, GoneInv
<1>9. CASE /\ dropped' = dropped \cup (Ids(file) \ Ids(file')) /\ ids' = ids
           /\ Known' = {file'} \/ Ids(file) = Ids(file')
  <2>1. DOMAIN file = 1..Len(file) /\ DOMAIN file' = 1..Len(file')
    BY <1>1 DEF TypeOK
  <2>2. Ids(file) \subseteq 1..ids
    BY <2>1 DEF DropInv, IdInv, Known, Ids
  <2>3. \A f \in Known' : \A i \in 1..Len(f) : f[i].id \notin Ids(file) \ Ids(file')
    BY <1>9, <2>1 DEF Ids
  <2> QED BY <1>1, <1>6, <1>7, <1>9, <2>2, <2>3 DEF DropInv, IdInv, GoneInv
<1> QED BY <1>1, <1>8, <1>9, DropStep

\* A record dropped by a truncate that returned is in no file a crash can bring back, whatever
\* fails before and after (wal.py truncate, replay).
THEOREM WalDroppedGone == Spec => []DroppedGone
<1>1. ASSUME DropInv PROVE DroppedGone
  <2>1. \A f \in Known : DOMAIN f = 1..Len(f)
    BY <1>1, KnownTypes DEF DropInv, FileInv
  <2>2. \A f \in Known : dropped \cap Ids(f) = {}
    BY <1>1, <2>1 DEF DropInv, GoneInv, Ids
  <2> QED BY <2>2 DEF DroppedGone, Known
<1> QED BY <1>1, DropInit, DropNext, PTL DEF Spec

----------------------------------------------------------------------------
(***************************************************************************)
(* The order of the records.                                               *)
(***************************************************************************)

Ordered(f) == \A i, j \in 1..Len(f) : i < j => f[i].ts < f[j].ts

\* Also the files that may come back are ordered; the counter covers the file itself.
OrderInv ==
    /\ \A f \in Known : Ordered(f)
    /\ \A i \in 1..Len(file) : file[i].ts <= lsn

LEMMA OrderInit == Init => OrderInv
<1> SUFFICES ASSUME Init PROVE OrderInv
  OBVIOUS
<1>1. Known = {<<>>} /\ Len(<<>>) = 0 /\ file = <<>>
  BY DEF Init, Known
<1>2. \A f \in Known : Len(f) = 0
  BY <1>1
<1> QED BY <1>1, <1>2 DEF OrderInv, Ordered

\* The counter stays at or above every record of the file, when no restore fails.
LEMMA CounterNext ==
    ASSUME "restore" \notin Faults, FileInv, OrderInv, [Next]_walvars
    PROVE  \A i \in 1..Len(file') : file'[i].ts <= lsn'
<1>1. TypeOK /\ Len(file) \in Nat /\ lsn \in Nat /\ \A i \in 1..Len(file) : file[i].ts \in Nat
  BY KnownTypes DEF FileInv, TypeOK, Known
<1>2. \A i \in 1..Len(file) : file[i].ts <= lsn
  BY DEF OrderInv
<1>3. Len(Flushed) = Len(file) /\ \A i \in 1..Len(file) : Flushed[i].ts = file[i].ts
  BY FlushedParts
<1>4. ASSUME NEW b \in BOOLEAN, file' = Append(Flushed, NewRec(b)), lsn' = lsn + 1
      PROVE  \A i \in 1..Len(file') : file'[i].ts <= lsn'
  <2>1. /\ Len(file') = Len(file) + 1 /\ file'[Len(file) + 1].ts = lsn + 1
        /\ \A i \in 1..Len(file) : file'[i].ts = file[i].ts
    BY <1>1, <1>4, AppendParts, NewRecType
  <2> QED BY <1>1, <1>2, <1>4, <2>1
<1>5. CASE WriteOk
  BY <1>4, <1>5 DEF WriteOk, NewId
<1>6. CASE SeekFails
  BY <1>1, <1>2, <1>6 DEF SeekFails, NewId
<1>7. CASE WriteFails
  <2>1. file' = Flushed /\ lsn' = lsn + 1
    BY <1>7 DEF WriteFails, NewId
  <2> QED BY <1>1, <1>2, <1>3, <2>1
<1>8. CASE WriteFailsStuck
  <2>1. lsn' = lsn + 1
    BY <1>8 DEF WriteFailsStuck, NewId
  <2>2. PICK b \in BOOLEAN : file' = Append(Flushed, NewRec(b))
    BY <1>8 DEF WriteFailsStuck
  <2> QED BY <1>4, <2>1, <2>2
<1>9. ASSUME NEW c \in Truncations, Truncate(c[1], c[2]) \/ TruncateFails(c[1], c[2])
      PROVE  \A i \in 1..Len(file') : file'[i].ts <= lsn'
  <2>1. c[1] \in Nat /\ c[2] \in Nat /\ (c[1] # c[2] => c[1] = 0 /\ c[2] = lsn)
    BY <1>1, TruncationArgs
  <2>2. lsn' = c[2] /\ c[1] <= lsn
    BY <1>9 DEF Truncate, TruncateFails
  <2>3. CASE file' = Kept(Flushed, c[1])
    <3>1. \A i \in 1..Len(file') : file'[i].ts <= c[1]
      BY <2>1, <2>3, KeptParts
    <3>2. file' \in Seq(Rec)
      BY <2>1, <2>3, KeptParts
    <3>3. \A i \in 1..Len(file') : file'[i].ts \in Nat
      <4>1. \A i \in 1..Len(file') : file'[i] \in Rec
        BY <3>2
      <4> QED BY <4>1 DEF Rec
    <3>4. c[1] <= c[2]
      BY <1>1, <2>1
    <3> QED BY <2>1, <2>2, <3>1, <3>3, <3>4
  <2>4. CASE file' # Kept(Flushed, c[1])
    <3>1. TruncateFails(c[1], c[2]) /\ file' = Flushed
      BY <1>9, <2>4 DEF Truncate, TruncateFails
    <3>2. lsn' = lsn
      BY <2>1, <2>2, <3>1 DEF TruncateFails
    <3> QED BY <1>2, <1>3, <3>1, <3>2
  <2> QED BY <2>3, <2>4
<1>10. CASE ProcessCrash
  BY <1>10, ReopenCounter DEF ProcessCrash, FileInv, TypeOK
<1>11. CASE PowerLoss
  <2>1. PICK f \in Survivors : Reopen(f)
    BY <1>11 DEF PowerLoss
  <2> QED BY <1>1, <2>1, SurvivorParts, ReopenCounter
<1>12. CASE UNCHANGED walvars
  BY <1>2, <1>12 DEF walvars
<1> QED BY <1>5, <1>6, <1>7, <1>8, <1>9, <1>10, <1>11, <1>12 DEF Next

LEMMA OrderNext ==
    ASSUME "restore" \notin Faults, FileInv, OrderInv, [Next]_walvars
    PROVE  OrderInv'
<1>1. TypeOK /\ FileInv' /\ TypeOK'
  BY FileNext DEF FileInv
<1>2. ASSUME NEW f \in Known', NEW g \in Known, BeginningOf(f, g) PROVE Ordered(f)
  <2>1. Len(f) \in Nat /\ Len(g) \in Nat /\ Len(f) <= Len(g) /\ \A i \in 1..Len(f) : f[i].ts = g[i].ts
    BY <1>1, <1>2, KnownTypes DEF BeginningOf
  <2>2. \A i, j \in 1..Len(g) : i < j => g[i].ts < g[j].ts
    BY DEF OrderInv, Ordered
  <2> QED BY <2>1, <2>2 DEF Ordered
<1>3. ASSUME NEW f \in Known', Extended(f) PROVE Ordered(f)
  <2>1. Len(file) \in Nat /\ lsn \in Nat /\ \A i \in 1..Len(file) : file[i].ts \in Nat
    BY <1>1, KnownTypes DEF TypeOK, Known
  <2>2. /\ \A i, j \in 1..Len(file) : i < j => file[i].ts < file[j].ts
        /\ \A i \in 1..Len(file) : file[i].ts <= lsn
    BY DEF OrderInv, Ordered, Known
  <2>3. /\ Len(f) = Len(file) + 1 /\ f[Len(file) + 1].ts = lsn + 1
        /\ \A i \in 1..Len(file) : f[i].ts = file[i].ts
    BY <1>3 DEF Extended
  <2>4. ASSUME NEW i \in 1..Len(f), NEW j \in 1..Len(f), i < j PROVE f[i].ts < f[j].ts
    <3>1. i \in 1..Len(file)
      BY <2>1, <2>3, <2>4
    <3>2. CASE j \in 1..Len(file)
      BY <2>2, <2>3, <2>4, <3>1, <3>2
    <3>3. CASE j = Len(file) + 1
      BY <2>1, <2>2, <2>3, <3>1, <3>3
    <3> QED BY <2>1, <2>3, <3>2, <3>3
  <2> QED BY <2>4 DEF Ordered
<1>4. \A f \in Known' : Ordered(f)
  BY <1>2, <1>3, Derivation
<1> QED BY <1>4, CounterNext DEF OrderInv

\* Records are in timestamp order in the file, whichever calls but a restore's truncate fail:
\* the cut of truncate drops the commits after max_ts and no other (wal.py write_commit,
\* truncate; executor.py _write_commit).
THEOREM WalTsOrdered ==
    ASSUME "restore" \notin Faults
    PROVE  Spec => []TsOrdered
<1>1. Init => FileInv /\ OrderInv
  BY FileInit, OrderInit
<1>2. FileInv /\ OrderInv /\ [Next]_walvars => (FileInv /\ OrderInv)'
  BY FileNext, OrderNext
<1>3. FileInv /\ OrderInv => TsOrdered
  <2> SUFFICES ASSUME FileInv, OrderInv PROVE TsOrdered
    OBVIOUS
  <2>1. DOMAIN file = 1..Len(file) /\ Ordered(file)
    BY DEF FileInv, TypeOK, OrderInv, Known
  <2> QED BY <2>1 DEF TsOrdered, Ordered
<1> QED BY <1>1, <1>2, <1>3, PTL DEF Spec

----------------------------------------------------------------------------
(***************************************************************************)
(* Acknowledged commits.                                                   *)
(***************************************************************************)

\* What a power loss may bring back has the synced records, and every acknowledged commit is
\* one of them.
SyncInv ==
    /\ \A f \in stale : Len(f) >= synced /\ \A i \in 1..synced : f[i] = file[i]
    /\ \A x \in acked : \E i \in 1..synced : file[i].id = x.id /\ file[i].ts = x.ts
DurableInv == FileInv /\ OrderInv /\ SyncInv

\* Synced records are whole.
LEMMA SyncedWhole ==
    ASSUME FileInv
    PROVE  /\ synced \in Nat /\ Len(file) \in Nat /\ synced <= Len(file)
           /\ \A i \in 1..synced : i \in 1..Len(file) /\ file[i].whole
<1>1. synced \in 0..Len(file) /\ Len(file) \in Nat
  BY DEF FileInv, TypeOK
<1> QED BY <1>1 DEF FileInv, PendInv

LEMMA SyncWrites ==
    ASSUME DurableInv, WriteOk \/ SeekFails \/ WriteFails \/ WriteFailsStuck
    PROVE  SyncInv'
<1>1. /\ FileInv /\ synced \in Nat /\ Len(file) \in Nat /\ synced <= Len(file)
      /\ \A i \in 1..synced : i \in 1..Len(file)
  BY SyncedWhole DEF DurableInv
<1>2. /\ \A f \in stale : Len(f) >= synced /\ \A i \in 1..synced : f[i] = file[i]
      /\ \A x \in acked : \E i \in 1..synced : file[i].id = x.id /\ file[i].ts = x.ts
  BY DEF DurableInv, SyncInv
<1>3. \A i \in 1..synced : Flushed[i] = file[i]
  BY <1>1, FlushedParts
<1>4. ASSUME NEW b \in BOOLEAN
      PROVE  /\ Len(Append(Flushed, NewRec(b))) >= synced
             /\ \A i \in 1..synced : Append(Flushed, NewRec(b))[i] = file[i]
  BY <1>1, <1>3, AppendParts
<1>5. CASE WriteOk
  <2>1. /\ Len(file') = Len(file) + 1 /\ stale' = {} /\ synced' = Len(file')
        /\ acked' = acked \cup {[id |-> ids + 1, ts |-> lsn + 1]}
        /\ file' = Append(Flushed, NewRec(TRUE))
    BY <1>1, <1>5, AppendParts DEF WriteOk
  <2>2. file'[Len(file) + 1].id = ids + 1 /\ file'[Len(file) + 1].ts = lsn + 1
    BY <1>1, <2>1, AppendParts, NewRecType DEF FileInv
  <2>3. \A i \in 1..synced : file'[i] = file[i] /\ i \in 1..synced'
    <3>1. \A i \in 1..synced : file'[i] = file[i]
      BY <1>4, <2>1
    <3>2. synced' = Len(file) + 1
      BY <2>1
    <3> QED BY <1>1, <3>1, <3>2
  <2>4. \A x \in acked : \E i \in 1..synced' : file'[i].id = x.id /\ file'[i].ts = x.ts
    BY <1>2, <2>3
  <2>5. \E i \in 1..synced' : file'[i].id = ids + 1 /\ file'[i].ts = lsn + 1
    <3>1. Len(file) + 1 \in 1..synced'
      BY <1>1, <2>1
    <3> QED BY <2>2, <3>1
  <2>6. \A x \in acked' : \E i \in 1..synced' : file'[i].id = x.id /\ file'[i].ts = x.ts
    <3> TAKE x \in acked'
    <3>1. CASE x \in acked
      BY <2>4, <3>1
    <3>2. CASE x = [id |-> ids + 1, ts |-> lsn + 1]
      BY <2>5, <3>2
    <3> QED BY <2>1, <3>1, <3>2
  <2> QED BY <2>1, <2>6 DEF SyncInv
<1>6. CASE SeekFails
  BY <1>2, <1>6 DEF SeekFails, SyncInv
<1>7. CASE WriteFails
  <2>1. PICK b \in BOOLEAN : stale' = stale \cup {Append(Flushed, NewRec(b))}
    BY <1>7 DEF WriteFails
  <2>2. file' = Flushed /\ synced' = synced /\ acked' = acked
    BY <1>7 DEF WriteFails
  <2>3. \A i \in 1..synced' : file'[i] = file[i]
    BY <1>3, <2>2
  <2>4. \A f \in stale' : Len(f) >= synced' /\ \A i \in 1..synced' : f[i] = file'[i]
    BY <1>2, <1>4, <2>1, <2>2, <2>3
  <2> QED BY <1>2, <2>2, <2>3, <2>4 DEF SyncInv
<1>8. CASE WriteFailsStuck
  <2>1. PICK b \in BOOLEAN : file' = Append(Flushed, NewRec(b))
    BY <1>8 DEF WriteFailsStuck
  <2>2. stale' = stale /\ synced' = synced /\ acked' = acked
    BY <1>8 DEF WriteFailsStuck
  <2>3. \A i \in 1..synced' : file'[i] = file[i]
    BY <1>4, <2>1, <2>2
  <2> QED BY <1>2, <2>2, <2>3 DEF SyncInv
<1> QED BY <1>5, <1>6, <1>7, <1>8

\* A cut at max_ts keeps the synced records of the commits up to it.
LEMMA SyncCuts ==
    ASSUME DurableInv, NEW c \in Truncations, Truncate(c[1], c[2]) \/ TruncateFails(c[1], c[2])
    PROVE  SyncInv'
<1>1. /\ FileInv /\ TypeOK /\ synced \in Nat /\ Len(file) \in Nat /\ synced <= Len(file)
      /\ \A i \in 1..synced : i \in 1..Len(file)
  BY SyncedWhole DEF DurableInv, FileInv
<1>2. /\ \A f \in stale : Len(f) >= synced /\ \A i \in 1..synced : f[i] = file[i]
      /\ \A x \in acked : \E i \in 1..synced : file[i].id = x.id /\ file[i].ts = x.ts
  BY DEF DurableInv, SyncInv
<1>3. /\ Len(Flushed) = Len(file) /\ \A i \in 1..synced : Flushed[i] = file[i]
  BY <1>1, FlushedParts
<1>4. c[1] \in Nat
  BY <1>1, TruncationArgs
<1> DEFINE k == Len(Kept(Flushed, c[1]))
<1>5. CASE file' # Kept(Flushed, c[1])
  <2>1. file' = Flushed /\ synced' = synced /\ stale' = stale /\ acked' = acked
    BY <1>5 DEF Truncate, TruncateFails
  <2> QED BY <1>2, <1>3, <2>1 DEF SyncInv
<1>6. CASE file' = Kept(Flushed, c[1])
  <2>1. /\ k \in 0..Len(file)
        /\ k < Len(file) => file[k + 1].ts > c[1]
        /\ \A i \in 1..k : file'[i] = Flushed[i]
        /\ Len(file') = k
    BY <1>1, <1>4, <1>6, KeptParts
  <2> HIDE DEF k
  <2>2. \A i \in 1..synced : file[i].ts <= c[1] => i \in 1..k
    <3> SUFFICES ASSUME NEW i \in 1..synced, file[i].ts <= c[1], i > k PROVE FALSE
      BY <1>1, <2>1
    <3>1. k + 1 \in 1..Len(file) /\ k < Len(file) /\ i \in 1..Len(file) /\ k + 1 <= i
      BY <1>1, <2>1
    <3>2. file[k + 1].ts \in Nat /\ file[i].ts \in Nat
      BY <1>1, <3>1, KnownTypes DEF Known
    <3>3. k + 1 < i => file[k + 1].ts < file[i].ts
      BY <3>1 DEF DurableInv, OrderInv, Ordered, Known
    <3>4. k + 1 = i => file[k + 1].ts = file[i].ts
      OBVIOUS
    <3> QED BY <1>4, <2>1, <3>1, <3>2, <3>3, <3>4
  <2>3. CASE file' = Flushed /\ synced' = synced /\ stale' = stale /\ acked' = acked
    BY <1>2, <1>3, <2>3 DEF SyncInv
  <2>4. CASE acked' = {x \in acked : x.ts <= c[1]}
    <3>1. \/ k = Len(file) /\ synced' = synced /\ stale' = stale
          \/ synced' = k /\ stale' = {}
          \/ synced' = (IF synced < k THEN synced ELSE k) /\ stale' = stale \cup {Flushed}
          \/ file' = Flushed /\ synced' = synced /\ stale' = stale
      BY <1>6, <2>1 DEF Truncate, TruncateFails
    <3>2. synced' \in Nat /\ synced' <= k /\ \A i \in 1..synced : i \in 1..k => i \in 1..synced'
      BY <1>1, <1>3, <2>1, <3>1
    <3>3. stale' # {} => \A i \in 1..synced' : i \in 1..synced
      BY <1>1, <2>1, <3>1
    <3>4. \A i \in 1..synced' : i \in 1..synced => file'[i] = file[i]
      BY <1>1, <1>3, <2>1, <3>2
    <3>5. \A f \in stale' : f \in stale \/ f = Flushed
      BY <3>1
    <3>6. stale' # {} => synced' <= synced
      BY <1>1, <2>1, <3>1
    <3>7. \A f \in stale : Len(f) \in Nat
      BY <1>1, KnownTypes DEF Known
    <3>8. \A f \in stale' : Len(f) >= synced' /\ \A i \in 1..synced' : f[i] = file'[i]
      BY <1>1, <1>2, <1>3, <3>2, <3>3, <3>4, <3>5, <3>6, <3>7
    <3>9. \A x \in acked' : \E i \in 1..synced' : file'[i].id = x.id /\ file'[i].ts = x.ts
      <4> TAKE x \in acked'
      <4>1. x \in acked /\ x.ts <= c[1]
        BY <2>4
      <4>2. PICK i \in 1..synced : file[i].id = x.id /\ file[i].ts = x.ts
        BY <1>2, <4>1
      <4>3. i \in 1..synced' /\ file'[i] = file[i]
        BY <2>2, <3>2, <3>4, <4>1, <4>2
      <4> QED BY <4>2, <4>3
    <3> QED BY <3>8, <3>9 DEF SyncInv
  <2> QED BY <2>3, <2>4 DEF Truncate, TruncateFails
<1> QED BY <1>5, <1>6

\* A crash keeps what was synced.
LEMMA SyncCrashes ==
    ASSUME DurableInv, ProcessCrash \/ PowerLoss
    PROVE  SyncInv'
<1>1. /\ FileInv /\ TypeOK /\ synced \in Nat /\ Len(file) \in Nat /\ synced <= Len(file)
      /\ \A i \in 1..synced : i \in 1..Len(file) /\ file[i].whole
  BY SyncedWhole DEF DurableInv, FileInv
<1>2. /\ \A f \in stale : Len(f) >= synced /\ \A i \in 1..synced : f[i] = file[i]
      /\ \A x \in acked : \E i \in 1..synced : file[i].id = x.id /\ file[i].ts = x.ts
  BY DEF DurableInv, SyncInv
<1>3. PICK g \in Known : /\ Len(file') \in Nat
                         /\ \A i \in 1..Len(file') : file'[i] = g[i]
                         /\ Len(file') < synced => ~g[Len(file') + 1].whole
  <2>1. CASE ProcessCrash
    <3>1. file' = Valid(file) /\ file \in Known /\ file \in Seq(Rec)
      BY <1>1, <2>1 DEF ProcessCrash, Reopen, Known, TypeOK
    <3>2. /\ Len(file') \in 0..Len(file)
          /\ \A i \in 1..Len(file') : file'[i] = file[i]
          /\ Len(file') < Len(file) => ~file[Len(file') + 1].whole
      BY <3>1, ValidParts
    <3>3. Len(file') \in Nat /\ (Len(file') < synced => Len(file') < Len(file))
      BY <1>1, <3>2
    <3> QED BY <3>1, <3>2, <3>3
  <2>2. CASE PowerLoss
    <3>1. PICK f \in Survivors : Reopen(f)
      BY <2>2 DEF PowerLoss
    <3>2. file' = Valid(f)
      BY <3>1 DEF Reopen
    <3>3. PICK g \in Known : /\ \A i \in 1..Len(file') : file'[i] = g[i]
                             /\ Len(file') < synced => ~g[Len(file') + 1].whole
      BY <1>1, <3>2, SurvivorParts DEF Known
    <3>4. Len(file') \in Nat
      BY <1>1, <3>2, SurvivorParts, ValidParts
    <3> QED BY <3>3, <3>4
  <2> QED BY <2>1, <2>2
<1>4. \A i \in 1..synced : g[i] = file[i]
  BY <1>2 DEF Known
<1>5. synced <= Len(file')
  <2> SUFFICES ASSUME Len(file') < synced PROVE FALSE
    BY <1>1, <1>3
  <2>1. Len(file') + 1 \in 1..synced
    BY <1>1, <1>3
  <2>2. g[Len(file') + 1].whole
    BY <1>1, <1>4, <2>1
  <2> QED BY <1>3, <2>2
<1>6. \A i \in 1..synced : file'[i] = file[i]
  BY <1>1, <1>3, <1>4, <1>5
<1>7. acked' = acked /\ ((synced' = Len(file') /\ stale' = {}) \/ (synced' = synced /\ stale' = stale))
  BY DEF ProcessCrash, PowerLoss, Reopen
<1>8. \A i \in 1..synced : i \in 1..synced'
  BY <1>1, <1>3, <1>5, <1>7
<1>9. \A x \in acked' : \E i \in 1..synced' : file'[i].id = x.id /\ file'[i].ts = x.ts
  BY <1>2, <1>6, <1>7, <1>8
<1>10. \A f \in stale' : Len(f) >= synced' /\ \A i \in 1..synced' : f[i] = file'[i]
  BY <1>2, <1>6, <1>7
<1> QED BY <1>9, <1>10 DEF SyncInv

\* A commit whose write_commit returned is on disk, with no torn record before it, until a
\* restore drops it, whatever else fails or crashes (wal.py write_commit, replay).
THEOREM WalAckedDurable ==
    ASSUME "restore" \notin Faults
    PROVE  Spec => []AckedDurable
<1>1. Init => DurableInv
  <2>1. Init => SyncInv
    BY DEF Init, SyncInv
  <2> QED BY <2>1, FileInit, OrderInit DEF DurableInv
<1>2. DurableInv /\ [Next]_walvars => DurableInv'
  <2> SUFFICES ASSUME DurableInv, [Next]_walvars PROVE DurableInv'
    OBVIOUS
  <2>1. FileInv' /\ OrderInv'
    BY FileNext, OrderNext DEF DurableInv
  <2>2. UNCHANGED walvars => SyncInv'
    BY DEF walvars, DurableInv, SyncInv
  <2>3. SyncInv'
    BY <2>2, SyncWrites, SyncCuts, SyncCrashes DEF Next, DurableInv
  <2> QED BY <2>1, <2>3 DEF DurableInv
<1>3. DurableInv => AckedDurable
  <2> SUFFICES ASSUME DurableInv, NEW x \in acked
               PROVE  \E i \in 1..synced : file[i].id = x.id /\ \A j \in 1..i : file[j].whole
    BY DEF AckedDurable
  <2>1. PICK i \in 1..synced : file[i].id = x.id
    BY DEF DurableInv, SyncInv
  <2>2. \A j \in 1..i : file[j].whole
    BY SyncedWhole DEF DurableInv
  <2> QED BY <2>1, <2>2
<1> QED BY <1>1, <1>2, <1>3, PTL DEF Spec
=============================================================================
