-------------------------------- MODULE Wal --------------------------------
(***************************************************************************)
(* The write-ahead log file (ryudb/wal.py): what is in the file as the     *)
(* process sees it, what has reached the disk, and what Python's file      *)
(* object still holds back, while write_commit, truncate and replay run    *)
(* and I/O errors, process crashes and power losses strike.                *)
(*                                                                         *)
(* A record is whole or torn; CRC, framing and payload are abstracted to   *)
(* that bit.  Record identities tell a record from a later one that was    *)
(* given the same timestamp after a restore.                               *)
(***************************************************************************)
EXTENDS Integers, Sequences, FiniteSets, FiniteSetsExt

CONSTANTS
    Faults,   \* which calls may fail
    MaxRecs   \* bound: write_commit calls

\* flush, fsync: those of write_commit; cleanup: its truncate back to the old end
\* restore, checkpoint: the truncate of a restore, of a checkpoint
FaultKinds == {"flush", "fsync", "cleanup", "restore", "checkpoint"}

ASSUME FaultsAssumption  == Faults \subseteq FaultKinds
ASSUME MaxRecsAssumption == MaxRecs \in Nat

VARIABLES
    file,    \* sequence of records: the file as read() returns it
    synced,  \* length of the prefix known to be on disk
    stale,   \* earlier contents of the file, cut since, that may still be on disk
    pend,    \* TRUE when Python's buffer holds the rest of a torn last record
    lsn,     \* the engine's commit_ts
    ids,     \* record identities used so far
    acked,   \* (id, ts) of commits whose write_commit returned and no restore was to drop
    dropped  \* identities a truncate that returned has dropped

walvars == <<file, synced, stale, pend, lsn, ids, acked, dropped>>

Rec == [id : Nat, ts : Nat, whole : BOOLEAN]

TypeOK ==
    /\ file \in Seq(Rec)
    /\ synced \in 0..Len(file)
    /\ stale \subseteq Seq(Rec)
    /\ pend \in BOOLEAN
    /\ lsn \in Nat /\ ids \in Nat
    /\ acked \subseteq [id : Nat, ts : Nat]
    /\ dropped \subseteq Nat

\* The part replay accepts: up to the first torn record.
Valid(f) ==
    LET torn == {i \in DOMAIN f : ~f[i].whole}
    IN  IF torn = {} THEN f ELSE SubSeq(f, 1, Min(torn) - 1)

Ids(f) == {f[i].id : i \in DOMAIN f}

\* What a seek finds: it first writes out the buffered rest of a torn last record.
Flushed == IF pend THEN [file EXCEPT ![Len(file)].whole = TRUE] ELSE file

KeptOneTooMany(f, max_ts) ==
    LET cut == {i \in DOMAIN f : ~f[i].whole \/ f[i].ts > max_ts + 1}
    IN  IF cut = {} THEN f ELSE SubSeq(f, 1, Min(cut) - 1)

\* WAL.truncate(max_ts) keeps the records before the first torn or newer one.
Kept(f, max_ts) ==
    LET cut == {i \in DOMAIN f : ~f[i].whole \/ f[i].ts > max_ts}
    IN  IF cut = {} THEN f ELSE SubSeq(f, 1, Min(cut) - 1)

Init ==
    /\ file = <<>> /\ synced = 0 /\ stale = {} /\ pend = FALSE
    /\ lsn = 0 /\ ids = 0
    /\ acked = {} /\ dropped = {}

----------------------------------------------------------------------------
(***************************************************************************)
(* write_commit.  The engine allocates the next timestamp first; it stays  *)
(* consumed when the write fails.                                          *)
(***************************************************************************)
NewId == ids < MaxRecs /\ ids' = ids + 1 /\ lsn' = lsn + 1
NewRec(whole) == [id |-> ids + 1, ts |-> lsn + 1, whole |-> whole]

WriteOk ==
    /\ NewId
    /\ file' = Append(Flushed, NewRec(TRUE))
    /\ synced' = Len(file')
    /\ stale' = {}
    /\ pend' = FALSE
    /\ acked' = acked \cup {[id |-> ids + 1, ts |-> lsn + 1]}
    /\ UNCHANGED dropped

\* The leading seek fails to write out what an earlier failed commit left in the buffer.
SeekFails ==
    /\ pend
    /\ "flush" \in Faults
    /\ NewId
    /\ UNCHANGED <<file, synced, stale, pend, acked, dropped>>

WriteFailsKeepsTorn ==
    /\ {"flush", "fsync"} \cap Faults # {}
    /\ NewId
    /\ file' = Append(Flushed, NewRec(FALSE))
    /\ pend' = FALSE
    /\ UNCHANGED <<synced, stale, acked, dropped>>

\* write, flush or fsync raises and the truncate back to the old end succeeds; that
\* truncate is not fsynced, so the bytes may still be on disk.
WriteFails ==
    /\ {"flush", "fsync"} \cap Faults # {}
    /\ NewId
    /\ file' = Flushed
    /\ pend' = FALSE
    /\ \E full \in BOOLEAN :
         /\ IF full THEN "fsync" \in Faults ELSE "flush" \in Faults
         /\ stale' = stale \cup {Append(Flushed, NewRec(full))}
    /\ UNCHANGED <<synced, acked, dropped>>

\* ... and the truncate raises too, which is swallowed: after a failed flush the rest of
\* the record stays buffered, after a failed fsync the whole record stays in the file.
WriteFailsStuck ==
    /\ "cleanup" \in Faults
    /\ NewId
    /\ \/ "flush" \in Faults /\ file' = Append(Flushed, NewRec(FALSE)) /\ pend' = TRUE
       \/ "fsync" \in Faults /\ file' = Append(Flushed, NewRec(TRUE)) /\ pend' = FALSE
    /\ UNCHANGED <<synced, stale, acked, dropped>>

TruncateNoSync(max_ts, counter) ==
    /\ max_ts <= lsn
    /\ file' = Kept(Flushed, max_ts)
    /\ synced' = IF synced < Len(file') THEN synced ELSE Len(file')
    /\ stale' = stale \cup {Flushed}
    /\ pend' = FALSE
    /\ lsn' = counter
    /\ dropped' = dropped \cup (Ids(file) \ Ids(file'))
    /\ acked' = {x \in acked : x.ts <= max_ts}
    /\ UNCHANGED ids

\* truncate(max_ts): cut and fsync.  _restore_to has lowered the counter to max_ts before;
\* checkpoint, which has folded every record into the base, calls truncate(0) and keeps it.
Truncate(max_ts, counter) ==
    /\ max_ts <= lsn
    /\ file' = Kept(Flushed, max_ts)
    /\ IF Len(file') = Len(file)
       THEN UNCHANGED <<synced, stale>>
       ELSE synced' = Len(file') /\ stale' = {}
    /\ pend' = FALSE
    /\ lsn' = counter
    /\ dropped' = dropped \cup (Ids(file) \ Ids(file'))
    /\ acked' = {x \in acked : x.ts <= max_ts}
    /\ UNCHANGED ids

\* truncate raises, before the cut or at its fsync; the counter of a restore stays lowered.
TruncateFails(max_ts, counter) ==
    /\ IF counter = max_ts THEN "restore" \in Faults ELSE "checkpoint" \in Faults
    /\ max_ts <= lsn
    /\ \/ file' = Flushed /\ UNCHANGED <<synced, stale, acked>>
       \/ /\ file' = Kept(Flushed, max_ts)
          /\ synced' = IF synced < Len(file') THEN synced ELSE Len(file')
          /\ stale' = stale \cup {Flushed}
          /\ acked' = {x \in acked : x.ts <= max_ts}
    /\ pend' = FALSE
    /\ lsn' = counter
    /\ UNCHANGED <<ids, dropped>>

----------------------------------------------------------------------------
\* A new process opens the file f: replay cuts at the first torn record, and fsyncs if it
\* cut; the counter restarts from the largest replayed timestamp.
Reopen(f) ==
    /\ file' = Valid(f)
    /\ lsn' = Max({0} \cup {f[i].ts : i \in DOMAIN Valid(f)})
    /\ pend' = FALSE
    /\ UNCHANGED <<ids, acked, dropped>>

\* The process dies: the file stays as it is, Python's buffer is lost.
ProcessCrash ==
    /\ Reopen(file)
    /\ IF Len(file') = Len(file)
       THEN UNCHANGED <<synced, stale>>
       ELSE synced' = Len(file') /\ stale' = {}

\* What the disk may hold after a power loss: the synced prefix and part of what followed
\* it, in the file as it is or as it was before a cut that had not reached the disk.
Survivors ==
    UNION {{SubSeq(f, 1, n) : n \in synced..Len(f)} : f \in stale \cup {file}}

PowerLoss ==
    /\ \E f \in Survivors : Reopen(f)
    /\ synced' = Len(file')
    /\ stale' = {}

\* The calls of truncate, with the value the counter has after them.
Truncations == {<<ts, ts>> : ts \in 0..MaxRecs} \cup {<<0, lsn>>}

Next ==
    \/ WriteOk \/ SeekFails \/ WriteFails \/ WriteFailsStuck
    \/ \E c \in Truncations : Truncate(c[1], c[2]) \/ TruncateFails(c[1], c[2])
    \/ ProcessCrash \/ PowerLoss

Spec == Init /\ [][Next]_walvars

----------------------------------------------------------------------------
\* A commit whose write_commit returned survives every crash and power loss until a restore
\* drops it: its record is on disk and no torn record before it can hide it from replay,
\* whatever earlier commits failed half-way.
AckedDurable ==
    \A x \in acked : \E i \in 1..synced :
        file[i].id = x.id /\ \A j \in 1..i : file[j].whole

\* A record dropped by a truncate that returned never comes back, not even by a power loss
\* right after the restore.
DroppedGone ==
    /\ dropped \cap Ids(file) = {}
    /\ \A f \in stale : dropped \cap Ids(f) = {}

\* Records are appended in timestamp order, the assumption truncate's cut rests on.
TsOrdered == \A i, j \in DOMAIN file : i < j => file[i].ts < file[j].ts
=============================================================================
