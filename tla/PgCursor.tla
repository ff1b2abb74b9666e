------------------------------ MODULE PgCursor ------------------------------
(***************************************************************************)
(* FETCH and MOVE over a frozen result (ryudb/server/pgwire.py,            *)
(* _cursor_window): which slice of the result a direction delivers and     *)
(* where it leaves the cursor.  offset is the number of rows consumed.     *)
(***************************************************************************)
EXTENDS Integers, Sequences

\* count is NoCount for a direction written without one.
CONSTANT NoCount

Least(a, b)    == IF a <= b THEN a ELSE b
Greatest(a, b) == IF a >= b THEN a ELSE b

\* cap: the row limit of an Execute message, 0 when there is none.
Cap(n, maxrows) == IF maxrows <= 0 THEN n ELSE Least(n, maxrows)

Window(start, length, offset, reverse) ==
    [start |-> start, length |-> length, offset |-> offset, reverse |-> reverse]

ForwardsOneShort(n, offset, total) ==
    LET k == Least(n, total - offset - 1) IN Window(offset, k, offset + k + 1, FALSE)

Forwards(n, offset, total) ==
    LET k == Least(n, total - offset) IN Window(offset, k, offset + k, FALSE)

Backwards(n, offset) ==
    LET k == Least(n, offset) IN Window(offset - k, k, offset - k, TRUE)

ForwardAll(offset, total, maxrows) ==
    LET end == IF maxrows <= 0 THEN total ELSE Least(total, offset + maxrows)
    IN Window(offset, end - offset, end, FALSE)

\* Without a row limit the page is empty and the cursor stays where it is.
BackwardAll(offset, maxrows) ==
    LET start == IF maxrows <= 0 THEN offset ELSE Greatest(0, offset - maxrows)
    IN Window(start, offset - start, start, TRUE)

\* One row at a 1-based position; a position outside the result delivers nothing and
\* leaves the cursor at rest, clamped.
At(pos, rest, offset, total) ==
    IF pos < 1 \/ pos > total THEN Window(offset, 0, Greatest(0, Least(total, rest)), FALSE)
                              ELSE Window(pos - 1, 1, pos, FALSE)

First(total) == LET k == Least(1, total) IN Window(0, k, k, FALSE)
Last(total)  == LET k == Least(1, total) IN Window(Greatest(0, total - k), k, total, FALSE)

Absolute(n, offset, total) ==
    LET pos == IF n >= 0 THEN n ELSE total + n + 1 IN At(pos, pos, offset, total)

Relative(n, offset, total) == At(offset + 1 + n, offset + n, offset, total)

Directions == {"NEXT", "PRIOR", "FORWARD", "BACKWARD", "FORWARD_ALL", "BACKWARD_ALL",
               "FIRST", "LAST", "ABSOLUTE", "RELATIVE"}
\* The directions _parse_fetch gives a count; the others never carry one.
Counted     == {"FORWARD", "BACKWARD", "ABSOLUTE", "RELATIVE"}

CursorWindow(dir, count, offset, total, maxrows) ==
    LET n == Cap(IF count = NoCount THEN 1 ELSE count, maxrows) IN
    CASE dir \in {"NEXT", "FORWARD"}   -> Forwards(n, offset, total)
      [] dir \in {"PRIOR", "BACKWARD"} -> Backwards(n, offset)
      [] dir = "FORWARD_ALL"  -> ForwardAll(offset, total, maxrows)
      [] dir = "BACKWARD_ALL" -> BackwardAll(offset, maxrows)
      [] dir = "FIRST"        -> First(total)
      [] dir = "LAST"         -> Last(total)
      [] dir = "ABSOLUTE"     -> Absolute(count, offset, total)
      [] dir = "RELATIVE"     -> Relative(count, offset, total)

\* _fetch: the row numbers a FETCH delivers, in the order it delivers them.
Page(w) == [i \in 1..Greatest(0, w.length) |->
                IF w.reverse THEN w.start + w.length + 1 - i ELSE w.start + i]
=============================================================================
