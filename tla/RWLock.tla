------------------------------- MODULE RWLock -------------------------------
(***************************************************************************)
(* The engine's read-write lock (_RWLock in ryudb/exec/executor.py): many  *)
(* readers or one writer, writer preference, built on one condition        *)
(* variable.  Each critical section of the condition is one step; a thread *)
(* that calls wait() sleeps until a notify_all and then re-checks its loop *)
(* condition.                                                              *)
(*                                                                         *)
(* Threads are worker threads.  A thread in Readers runs statements that   *)
(* take the shared side, a thread in Writers those that take the exclusive *)
(* side; a thread may be in both.                                          *)
(***************************************************************************)
EXTENDS Integers, FiniteSets

CONSTANTS Readers, Writers

ASSUME ThreadsFinite == IsFiniteSet(Readers) /\ IsFiniteSet(Writers)

Threads == Readers \cup Writers

VARIABLES
    readers,          \* _readers
    writer,           \* _writer
    waiting_writers,  \* _waiting_writers
    at,               \* [Threads -> "out", "rwait", "reading", "wwait", "writing"]
    sleeping          \* threads inside wait() that no notify_all has woken yet

lockvars == <<readers, writer, waiting_writers, at, sleeping>>

TypeOK ==
    /\ readers \in Nat
    /\ writer \in BOOLEAN
    /\ waiting_writers \in Nat
    /\ at \in [Threads -> {"out", "rwait", "reading", "wwait", "writing"}]
    /\ sleeping \subseteq Threads

Init ==
    /\ readers = 0
    /\ writer = FALSE
    /\ waiting_writers = 0
    /\ at = [t \in Threads |-> "out"]
    /\ sleeping = {}

----------------------------------------------------------------------------
ReaderBarging == writer

\* The loop condition of acquire_read: writer preference also blocks on waiting writers.
ReaderMustWait == writer \/ waiting_writers > 0

\* The loop condition of acquire_write.
WriterMustWait == writer \/ readers > 0

\* acquire_read, at its start and after every wake-up.
EnterRead(t) ==
    /\ ~ReaderMustWait
    /\ readers' = readers + 1
    /\ at' = [at EXCEPT ![t] = "reading"]
    /\ UNCHANGED <<writer, waiting_writers, sleeping>>

SleepRead(t) ==
    /\ ReaderMustWait
    /\ at' = [at EXCEPT ![t] = "rwait"]
    /\ sleeping' = sleeping \cup {t}
    /\ UNCHANGED <<readers, writer, waiting_writers>>

AcquireRead(t) == t \in Readers /\ at[t] = "out" /\ (EnterRead(t) \/ SleepRead(t))
RecheckRead(t) == at[t] = "rwait" /\ t \notin sleeping /\ (EnterRead(t) \/ SleepRead(t))

\* acquire_write: a writer that must wait stays counted in _waiting_writers.
AcquireWrite(t) ==
    /\ t \in Writers
    /\ at[t] = "out"
    /\ \/ /\ WriterMustWait
          /\ waiting_writers' = waiting_writers + 1
          /\ at' = [at EXCEPT ![t] = "wwait"]
          /\ sleeping' = sleeping \cup {t}
          /\ UNCHANGED <<readers, writer>>
       \/ /\ ~WriterMustWait
          /\ writer' = TRUE
          /\ at' = [at EXCEPT ![t] = "writing"]
          /\ UNCHANGED <<readers, waiting_writers, sleeping>>

RecheckWriteBlind(t) ==
    /\ at[t] = "wwait"
    /\ t \notin sleeping
    /\ waiting_writers' = waiting_writers - 1
    /\ writer' = TRUE
    /\ at' = [at EXCEPT ![t] = "writing"]
    /\ UNCHANGED <<readers, sleeping>>

RecheckWriteStaysCounted(t) ==
    /\ at[t] = "wwait"
    /\ t \notin sleeping
    /\ \/ /\ WriterMustWait
          /\ sleeping' = sleeping \cup {t}
          /\ UNCHANGED <<readers, writer, waiting_writers, at>>
       \/ /\ ~WriterMustWait
          /\ writer' = TRUE
          /\ at' = [at EXCEPT ![t] = "writing"]
          /\ UNCHANGED <<readers, waiting_writers, sleeping>>

RecheckWrite(t) ==
    /\ at[t] = "wwait"
    /\ t \notin sleeping
    /\ \/ /\ WriterMustWait
          /\ sleeping' = sleeping \cup {t}
          /\ UNCHANGED <<readers, writer, waiting_writers, at>>
       \/ /\ ~WriterMustWait
          /\ waiting_writers' = waiting_writers - 1
          /\ writer' = TRUE
          /\ at' = [at EXCEPT ![t] = "writing"]
          /\ UNCHANGED <<readers, sleeping>>

ReleaseReadSilent(t) ==
    /\ at[t] = "reading"
    /\ readers' = readers - 1
    /\ at' = [at EXCEPT ![t] = "out"]
    /\ UNCHANGED <<writer, waiting_writers, sleeping>>

\* release_read: the last reader wakes everyone.
ReleaseRead(t) ==
    /\ at[t] = "reading"
    /\ readers' = readers - 1
    /\ sleeping' = IF readers' = 0 THEN {} ELSE sleeping
    /\ at' = [at EXCEPT ![t] = "out"]
    /\ UNCHANGED <<writer, waiting_writers>>

ReleaseWrite(t) ==
    /\ at[t] = "writing"
    /\ writer' = FALSE
    /\ sleeping' = {}
    /\ at' = [at EXCEPT ![t] = "out"]
    /\ UNCHANGED <<readers, waiting_writers>>

Next ==
    \E t \in Threads :
        \/ AcquireRead(t) \/ RecheckRead(t) \/ ReleaseRead(t)
        \/ AcquireWrite(t) \/ RecheckWrite(t) \/ ReleaseWrite(t)

\* A woken thread gets the condition's mutex, and a statement ends; nothing is assumed
\* about when threads ask for the lock.
Fairness ==
    \A t \in Threads :
        /\ WF_lockvars(RecheckRead(t)) /\ WF_lockvars(RecheckWrite(t))
        /\ WF_lockvars(ReleaseRead(t)) /\ WF_lockvars(ReleaseWrite(t))

Spec == Init /\ [][Next]_lockvars /\ Fairness

----------------------------------------------------------------------------
Reading == {t \in Threads : at[t] = "reading"}
Writing == {t \in Threads : at[t] = "writing"}
WaitingToWrite == {t \in Threads : at[t] = "wwait"}

\* Many readers or one writer: a write never overlaps a read or another write.
Exclusive ==
    /\ Reading # {} => Writing = {}
    /\ \A t, u \in Writing : t = u

\* The counters the loop conditions test agree with what the threads are doing.
CountersExact ==
    /\ readers = Cardinality(Reading)
    /\ writer <=> Writing # {}
    /\ waiting_writers = Cardinality(WaitingToWrite)

\* No lost wake-up: whenever a thread sleeps in wait(), somebody holds the lock and will
\* notify, or a woken writer is about to take it.
NoLostWakeup ==
    sleeping # {} => Reading # {} \/ Writing # {} \/ \E w \in WaitingToWrite : w \notin sleeping

\* Writer preference: a waiting write is never starved by a stream of reads.
WriteProgress == (WaitingToWrite # {}) ~> (Writing # {})

\* Once writers stop asking, every waiting reader gets in.
ReadProgress ==
    \A t \in Readers :
        <>[](\A w \in Threads : at[w] \notin {"wwait", "writing"}) =>
            ((at[t] = "rwait") ~> (at[t] = "reading"))
=============================================================================
