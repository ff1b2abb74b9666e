\* Transactions of two pipelining clients on the default pool of one worker.
SPECIFICATION Spec
CONSTANTS
    Conns = {c1, c2}
    Requests = {1, 2, 3}
    Ids = {i1}
    Workers = {w1}
    Ops = {"begin", "commit", "rollback", "write", "restore", "admin"}
    MaxCursors = 1
    Pipelined = TRUE
    None = None
SYMMETRY ConnSymmetry
CONSTRAINT TxnBounds
INVARIANTS TxnOwned AnswerTruthful
PROPERTIES InOrder CommittedOnce
CHECK_DEADLOCK FALSE
