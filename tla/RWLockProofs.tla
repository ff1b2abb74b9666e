---------------------------- MODULE RWLockProofs ----------------------------
(***************************************************************************)
(* Proofs about the engine's read-write lock, for any number of threads.   *)
(*                                                                         *)
(* The inductive invariant says that the three counters equal the numbers  *)
(* of threads in the corresponding states, that sleepers are waiting, and  *)
(* that a sleeper is never left without somebody to wake it.               *)
(***************************************************************************)
EXTENDS RWLock, FiniteSetTheorems, TLAPS

\* Only waiting threads sleep.
SleepersWait == \A t \in sleeping : at[t] \in {"rwait", "wwait"}

LockInv == TypeOK /\ CountersExact /\ Exclusive /\ SleepersWait /\ NoLostWakeup

\* The set of threads is finite, so every set the counters count is.
LEMMA FiniteThreads == \A S \in SUBSET Threads : IsFiniteSet(S)
BY ThreadsFinite, FS_Union, FS_Subset DEF Threads

\* The cardinality facts the counters need.
LEMMA CardAdd ==
    ASSUME NEW S \in SUBSET Threads, NEW t \in Threads, t \notin S
    PROVE  Cardinality(S \cup {t}) = Cardinality(S) + 1
BY FiniteThreads, FS_AddElement

LEMMA CardRemove ==
    ASSUME NEW S \in SUBSET Threads, NEW t \in S
    PROVE  Cardinality(S \ {t}) = Cardinality(S) - 1
BY FiniteThreads, FS_RemoveElement

LEMMA CardZero ==
    ASSUME NEW S \in SUBSET Threads
    PROVE  Cardinality(S) \in Nat /\ (Cardinality(S) = 0 <=> S = {})
BY FiniteThreads, FS_CardinalityType, FS_EmptySet

\* Initially nobody holds or waits for the lock.
LEMMA LockInit == Init => LockInv
<1> SUFFICES ASSUME Init PROVE LockInv
    OBVIOUS
<1>1. Reading = {} /\ Writing = {} /\ WaitingToWrite = {}
    BY DEF Init, Reading, Writing, WaitingToWrite
<1>2. TypeOK /\ SleepersWait /\ NoLostWakeup /\ Exclusive
    BY <1>1 DEF Init, TypeOK, SleepersWait, NoLostWakeup, Exclusive
<1>3. CountersExact
    BY <1>1, FS_EmptySet DEF Init, CountersExact
<1> QED BY <1>2, <1>3 DEF LockInv

\* A thread enters the shared side.
LEMMA EnterReadKeeps ==
    ASSUME LockInv, NEW t \in Threads, at[t] \in {"out", "rwait"}, t \notin sleeping, EnterRead(t)
    PROVE  LockInv'
<1> USE DEF LockInv
<1>1. /\ Reading' = Reading \cup {t} /\ t \notin Reading
      /\ Writing' = Writing /\ WaitingToWrite' = WaitingToWrite
    BY DEF EnterRead, TypeOK, Reading, Writing, WaitingToWrite
<1>2. TypeOK'
    BY DEF EnterRead, TypeOK
<1>3. CountersExact'
    BY <1>1, CardAdd, Zenon DEF EnterRead, CountersExact, Reading
<1>4. Exclusive' /\ SleepersWait' /\ NoLostWakeup'
  <2>1. Writing = {}
      BY DEF EnterRead, ReaderMustWait, CountersExact
  <2> QED BY <1>1, <2>1 DEF EnterRead, TypeOK, Exclusive, SleepersWait, NoLostWakeup
<1> QED BY <1>2, <1>3, <1>4

\* A reader goes to sleep.
LEMMA SleepReadKeeps ==
    ASSUME LockInv, NEW t \in Threads, at[t] \in {"out", "rwait"}, t \notin sleeping, SleepRead(t)
    PROVE  LockInv'
<1> USE DEF LockInv
<1>1. Reading' = Reading /\ Writing' = Writing /\ WaitingToWrite' = WaitingToWrite
    BY DEF SleepRead, TypeOK, Reading, Writing, WaitingToWrite
<1>2. TypeOK' /\ CountersExact' /\ Exclusive' /\ SleepersWait'
    BY <1>1 DEF SleepRead, TypeOK, CountersExact, Exclusive, SleepersWait
<1>3. NoLostWakeup'
  <2>1. Writing # {} \/ WaitingToWrite # {}
      BY CardZero DEF SleepRead, ReaderMustWait, CountersExact, WaitingToWrite
  <2>2. \A w \in WaitingToWrite : w # t
      BY DEF WaitingToWrite
  <2> QED BY <1>1, <2>1, <2>2, Zenon DEF SleepRead, NoLostWakeup
<1> QED BY <1>2, <1>3

\* A writer asks for the lock and either takes it or waits.
LEMMA AcquireWriteKeeps ==
    ASSUME LockInv, NEW t \in Threads, AcquireWrite(t)
    PROVE  LockInv'
<1> USE DEF LockInv
<1>0. t \notin sleeping
    BY DEF AcquireWrite, SleepersWait
<1>1. CASE WriterMustWait
  <2>1. /\ WaitingToWrite' = WaitingToWrite \cup {t} /\ t \notin WaitingToWrite
        /\ Reading' = Reading /\ Writing' = Writing
      BY <1>1 DEF AcquireWrite, TypeOK, Reading, Writing, WaitingToWrite
  <2>2. TypeOK' /\ Exclusive' /\ SleepersWait'
      BY <1>1, <2>1 DEF AcquireWrite, TypeOK, Exclusive, SleepersWait
  <2>3. CountersExact'
      BY <1>1, <2>1, CardAdd DEF AcquireWrite, CountersExact, WaitingToWrite
  <2>4. NoLostWakeup'
      BY <1>1, <2>1, CardZero DEF WriterMustWait, CountersExact, NoLostWakeup, Reading
  <2> QED BY <2>2, <2>3, <2>4
<1>2. CASE ~WriterMustWait
  <2>1. /\ Writing' = Writing \cup {t} /\ Reading' = Reading
        /\ WaitingToWrite' = WaitingToWrite
      BY <1>2 DEF AcquireWrite, TypeOK, Reading, Writing, WaitingToWrite
  <2>2. Writing = {} /\ Reading = {}
      BY <1>2, CardZero DEF WriterMustWait, CountersExact, TypeOK, Reading
  <2>3. TypeOK' /\ CountersExact' /\ Exclusive' /\ SleepersWait' /\ NoLostWakeup'
      BY <1>0, <1>2, <2>1, <2>2 DEF AcquireWrite, TypeOK, CountersExact, Exclusive, SleepersWait, NoLostWakeup
  <2> QED BY <2>3
<1> QED BY <1>1, <1>2

\* A woken writer takes the lock or goes back to sleep.
LEMMA RecheckWriteKeeps ==
    ASSUME LockInv, NEW t \in Threads, RecheckWrite(t)
    PROVE  LockInv'
<1> USE DEF LockInv
<1>1. CASE WriterMustWait
  <2>1. Reading' = Reading /\ Writing' = Writing /\ WaitingToWrite' = WaitingToWrite
      BY <1>1 DEF RecheckWrite, Reading, Writing, WaitingToWrite
  <2>2. TypeOK' /\ CountersExact' /\ Exclusive' /\ SleepersWait'
      BY <1>1, <2>1 DEF RecheckWrite, TypeOK, CountersExact, Exclusive, SleepersWait
  <2>3. NoLostWakeup'
      BY <1>1, <2>1, CardZero DEF WriterMustWait, CountersExact, NoLostWakeup, Reading
  <2> QED BY <2>2, <2>3
<1>2. CASE ~WriterMustWait
  <2>1. /\ Writing' = Writing \cup {t} /\ Reading' = Reading
        /\ WaitingToWrite' = WaitingToWrite \ {t} /\ t \in WaitingToWrite
      BY <1>2 DEF RecheckWrite, TypeOK, Reading, Writing, WaitingToWrite
  <2>2. Writing = {} /\ Reading = {}
      BY <1>2, CardZero DEF WriterMustWait, CountersExact, TypeOK, Reading
  <2>3. waiting_writers' = waiting_writers - 1 /\ waiting_writers' \in Nat
      BY <1>2, <2>1, CardZero DEF RecheckWrite, CountersExact, TypeOK, WaitingToWrite
  <2>4. CountersExact'
      BY <1>2, <2>1, <2>3, CardRemove DEF RecheckWrite, CountersExact, WaitingToWrite
  <2>5. TypeOK' /\ Exclusive' /\ SleepersWait' /\ NoLostWakeup'
      BY <1>2, <2>1, <2>2, <2>3 DEF RecheckWrite, TypeOK, Exclusive, SleepersWait, NoLostWakeup
  <2> QED BY <2>4, <2>5
<1> QED BY <1>1, <1>2

\* A reader leaves.
LEMMA ReleaseReadKeeps ==
    ASSUME LockInv, NEW t \in Threads, ReleaseRead(t)
    PROVE  LockInv'
<1> USE DEF LockInv
<1>1. /\ Reading' = Reading \ {t} /\ t \in Reading
      /\ Writing' = Writing /\ WaitingToWrite' = WaitingToWrite
    BY DEF ReleaseRead, TypeOK, Reading, Writing, WaitingToWrite
<1>2. readers' = Cardinality(Reading') /\ readers' \in Nat
    BY <1>1, CardZero, CardRemove DEF ReleaseRead, CountersExact, TypeOK, Reading
<1>3. TypeOK' /\ CountersExact' /\ Exclusive'
    BY <1>1, <1>2 DEF ReleaseRead, TypeOK, CountersExact, Exclusive
<1>4. SleepersWait'
    BY DEF ReleaseRead, TypeOK, SleepersWait
<1>5. NoLostWakeup'
    BY <1>1, <1>2, CardZero DEF ReleaseRead, NoLostWakeup, Reading
<1> QED BY <1>3, <1>4, <1>5

\* The writer leaves and wakes everybody.
LEMMA ReleaseWriteKeeps ==
    ASSUME LockInv, NEW t \in Threads, ReleaseWrite(t)
    PROVE  LockInv'
<1> USE DEF LockInv
<1>1. /\ Writing' = Writing \ {t} /\ t \in Writing
      /\ Reading' = Reading /\ WaitingToWrite' = WaitingToWrite
    BY DEF ReleaseWrite, TypeOK, Reading, Writing, WaitingToWrite
<1>2. Writing' = {}
    BY <1>1 DEF Exclusive
<1> QED BY <1>1, <1>2 DEF ReleaseWrite, TypeOK, CountersExact, Exclusive, SleepersWait, NoLostWakeup

\* Every step of the lock preserves the invariant.
LEMMA LockStep == LockInv /\ [Next]_lockvars => LockInv'
<1> SUFFICES ASSUME LockInv, [Next]_lockvars PROVE LockInv'
    OBVIOUS
<1>1. CASE UNCHANGED lockvars
    BY <1>1 DEF lockvars, LockInv, TypeOK, CountersExact, Exclusive, SleepersWait, NoLostWakeup,
                Reading, Writing, WaitingToWrite
<1>2. CASE Next
  <2>1. PICK t \in Threads :
            \/ AcquireRead(t) \/ RecheckRead(t) \/ ReleaseRead(t)
            \/ AcquireWrite(t) \/ RecheckWrite(t) \/ ReleaseWrite(t)
      BY <1>2 DEF Next
  <2>2. at[t] = "out" => t \notin sleeping
      BY DEF LockInv, SleepersWait
  <2>3. CASE AcquireRead(t) \/ RecheckRead(t)
      BY <2>2, <2>3, EnterReadKeeps, SleepReadKeeps DEF AcquireRead, RecheckRead
  <2>4. CASE AcquireWrite(t) \/ RecheckWrite(t)
      BY <2>4, AcquireWriteKeeps, RecheckWriteKeeps
  <2>5. CASE ReleaseRead(t) \/ ReleaseWrite(t)
      BY <2>5, ReleaseReadKeeps, ReleaseWriteKeeps
  <2> QED BY <2>1, <2>3, <2>4, <2>5
<1> QED BY <1>1, <1>2

\* For any set of threads the lock excludes writers from readers and from each other.
THEOREM LockExclusive == Spec => []Exclusive
<1>1. LockInv => Exclusive
    BY DEF LockInv
<1> QED BY <1>1, LockInit, LockStep, PTL DEF Spec

\* For any set of threads no sleeper is ever left without a holder or a woken writer.
THEOREM LockNoLostWakeup == Spec => []NoLostWakeup
<1>1. LockInv => NoLostWakeup
    BY DEF LockInv
<1> QED BY <1>1, LockInit, LockStep, PTL DEF Spec

\* Type correctness of the lock, for any set of threads.
THEOREM LockTypes == Spec => []TypeOK
<1>1. LockInv => TypeOK
    BY DEF LockInv
<1> QED BY <1>1, LockInit, LockStep, PTL DEF Spec

\* The counters equal the numbers of threads they stand for.
THEOREM LockCounters == Spec => [](TypeOK /\ CountersExact)
<1>1. LockInv => TypeOK /\ CountersExact
    BY DEF LockInv
<1> QED BY <1>1, LockInit, LockStep, PTL DEF Spec
=============================================================================
