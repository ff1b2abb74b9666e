\* Every behaviour but a failing truncate at once: the log keeps its order, and the counter covers it.
SPECIFICATION OneRowSpec
CONSTANTS
    Tables = {t1, t2}
    PKTables = {t1}
    UniqueTables = {}
    Keys = {k1}
    Null = Null
    Vals = {a}
    InsInf = 1000
    Sessions = {s1}
    Names = {snapA}
    RestoreTargets <- AnyTargets
    NoTxn = NoTxn
    NoSession = NoSession
    Allow = {"sql_restore", "reinsert", "ckpt_crash", "ckpt_cancel", "restore_below"}
    MaxTs = 2
    MaxStmts = 2
    MaxRows = 1
    MaxCopies = 1
INVARIANTS WalOrdered NothingVisibleLost
PROPERTIES SnapshotsExact
CONSTRAINT TwoCopies
CHECK_DEADLOCK FALSE
