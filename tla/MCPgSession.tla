---------------------------- MODULE MCPgSession -----------------------------
\* Model-checking instances of PgSession.
EXTENDS PgSession

CONSTANTS c1, c2, q1

\* Statements of the cursor instance: positions at both ends and beyond them, counts that the
\* rest of the result does not fill, and a DECLARE that commits.
PgSql ==
    {Plain("BEGIN"), Plain("COMMIT"), Plain("ROLLBACK"), Select(q1)}
    \cup {Declare(c1, Select(q1)), Declare(c2, Select(q1)), Declare(c2, Plain("WRITE")), Declare(c2, Plain("COMMIT"))}
    \cup {Fetch("FETCH", "FORWARD", 2, c1), Fetch("FETCH", "BACKWARD", 2, c1),
          Fetch("MOVE", "FORWARD", -1, c1), Fetch("MOVE", "BACKWARD", -1, c1),
          Fetch("MOVE", "RELATIVE", 0, c1), Fetch("FETCH", "LAST", NoCount, c1)}
    \cup {CloseCursor(c1), CloseCursor(All)}
PgPreparable == {Plain("COMMIT"), Plain("ROLLBACK"), Select(q1), Fetch("FETCH", "FORWARD_ALL", NoCount, c1)}
=============================================================================
