\* A filter above two joins, the lower one an outer join.
CONSTANTS
    Null = Null
    None = None
    Missing = Missing
    Schema <- Tables
    Queries <- PushdownQueries
    Databases <- MCDatabases
    Statistics <- MCStatistics
SPECIFICATION Spec
INVARIANTS AnswersSql
CHECK_DEADLOCK FALSE
