\* Two sessions with concurrent transactions, one table with a primary key.
SPECIFICATION Spec
CONSTANTS
    Tables = {t1}
    PKTables = {t1}
    UniqueTables = {}
    Keys = {k1}
    Vals = {a1, a2}
    Null = Null
    InsInf = 1000
    Sessions = {s1, s2}
    Names = {snapA}
    RestoreTargets = {0, 1}
    NoTxn = NoTxn
    NoSession = NoSession
    Allow = {}
    MaxTs = 3
    MaxStmts = 2
    MaxRows = 1
    MaxCopies = 2
SYMMETRY Symmetry
INVARIANTS SnapshotsReachable OwnWrites
PROPERTIES SnapshotFrozen ImplementsVersionedDb
CHECK_DEADLOCK FALSE
