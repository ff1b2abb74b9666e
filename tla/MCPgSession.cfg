\* One connection: batches of up to three statements, one portal, two cursors with room for one.
SPECIFICATION Spec
CONSTANTS
    c1 = c1
    c2 = c2
    q1 = q1
    Sql <- PgSql
    Preparable <- PgPreparable
    Statements = {stmt}
    Portals = {portal}
    Cursors = {c1, c2}
    Total = 3
    MaxCursors = 1
    MaxRows = {0, 2}
    MaxBatch = 3
    MaxDrift = 1
    Rebinds = FALSE
    NoCount = NoCount
    None = None
INVARIANTS GateExact AbortedNeverCommits CursorsOwned PagedOnce
PROPERTIES Answered
CHECK_DEADLOCK FALSE
