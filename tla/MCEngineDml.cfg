\* One session, one table with a primary key and a nullable UNIQUE column, two keys:
\* multi-row statements, UPDATE of the key, MERGE, checkpoints and crashes.
SPECIFICATION OneRowSpec
CONSTANTS
    Tables = {t1}
    PKTables = {t1}
    UniqueTables = {t1}
    Keys = {k1, k2}
    Null = Null
    Vals = {a, Null}
    InsInf = 1000
    Sessions = {s1}
    Names = {}
    RestoreTargets = {1}
    NoTxn = NoTxn
    NoSession = NoSession
    Allow = {}
    MaxTs = 2
    MaxStmts = 2
    MaxRows = 2
    MaxCopies = 1
SYMMETRY KeySymmetry
INVARIANTS KeysUnique DurableDelta
PROPERTIES CommitApplied ImplementsVersionedDb
CHECK_DEADLOCK FALSE
