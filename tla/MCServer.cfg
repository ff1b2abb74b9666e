\* Answers, cancels, cursors and disconnects on a pool of two workers; ids are reused or null.
SPECIFICATION Spec
CONSTANTS
    Conns = {c1}
    Requests = {1, 2, 3}
    Ids = {i1, i2, None}
    Workers = {w1, w2}
    Ops = {"cursor"}
    MaxCursors = 1
    Pipelined = TRUE
    None = None
INVARIANTS TypeOK PendingExact NoneForgotten
PROPERTIES QuietAfterClose Answered
CHECK_DEADLOCK FALSE
