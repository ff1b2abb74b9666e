\* Failing writes, also with a failing cleanup or checkpoint, restores, process crashes, power losses.
SPECIFICATION Spec
CONSTANTS
    Faults = {"flush", "fsync", "cleanup", "checkpoint"}
    MaxRecs = 5
INVARIANTS AckedDurable DroppedGone TsOrdered
CHECK_DEADLOCK FALSE
