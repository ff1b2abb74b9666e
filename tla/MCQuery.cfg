\* Every kind of query over three tables, 48 databases and two estimates of their sizes.
CONSTANTS
    Null = Null
    None = None
    Missing = Missing
    Schema <- Tables
    Queries <- Suite
    Databases <- MCDatabases
    Statistics <- MCStatistics
SPECIFICATION Spec
INVARIANTS AnswersSql ColumnsResolve
CHECK_DEADLOCK FALSE
