------------------------------ MODULE Windows -------------------------------
(***************************************************************************)
(* Window functions (executor.py _window_column and below): the rows are   *)
(* sorted by partition and order keys, each function is computed from      *)
(* positions and running totals over the whole sorted frame, and the       *)
(* original order is restored.  Positions within a partition are counted   *)
(* from 0, as in the code; rows of a sequence from 1.                      *)
(* Standard deviations, variances, medians and averages are left out.      *)
(***************************************************************************)
EXTENDS Expressions, TLC

Keys(es, row) == [i \in DOMAIN es |-> Eval(es[i], row)]

\* sort_values with na_position="last": NULL after everything, ascending or not.
Before(a, b, asc) == IF a = Null THEN FALSE ELSE IF b = Null THEN TRUE ELSE IF asc THEN a < b ELSE b < a
KeysBefore(ka, kb, asc) ==
    \E i \in DOMAIN ka : Before(ka[i], kb[i], asc[i]) /\ \A j \in 1..(i - 1) : ka[j] = kb[j]

\* Positions 1..n of a sequence of keys in sorted order, ties in the given order.
SortedPositions(keys, asc) ==
    LET before(i, j) == KeysBefore(keys[i], keys[j], asc) \/ (keys[i] = keys[j] /\ i < j)
    IN SortSeq([i \in 1..Len(keys) |-> i], before)

Values(vs) == LET known(v) == v # Null IN SelectSeq(vs, known)
\* The reductions of _AGG_METHOD over non-NULL values.
Reduce(func, vs) ==
    LET total[i \in 0..Len(vs)] == IF i = 0 THEN 0 ELSE total[i - 1] + vs[i] IN
    CASE func = "COUNT" -> Len(vs)
      [] vs = <<>> -> Null
      [] func = "SUM" -> total[Len(vs)]
      [] func = "MIN" -> Min(ToSet(vs))
      [] func = "MAX" -> Max(ToSet(vs))

(***************************************************************************)
(* The sorted frame.  part and order are the key columns, by position.     *)
(***************************************************************************)

\* _partition_boundary: i starts a partition.
Boundary(part, i) == i = 1 \/ part[i] # part[i - 1]
\* A run of equal order keys in a partition starts at i.
PeerBoundary(part, order, i) == Boundary(part, i) \/ order[i] # order[i - 1]
\* where(at).ffill() and where(at).bfill()
LatestAt(at, i) == Max({j \in at : j <= i})
NextAt(at, i) == Min({j \in at : j >= i})

\* Where i's partition and peers lie.
Place(part, order, i) ==
    LET n == Len(part)
        starts == {j \in 1..n : Boundary(part, j)}
        ends == {j \in 1..n : j = n \/ j + 1 \in starts}
        peers == {j \in 1..n : PeerBoundary(part, order, j)}
        peerEnds == {j \in 1..n : j = n \/ j + 1 \in peers}
        pstart == LatestAt(starts, i)
    IN [pstart |-> pstart, pos |-> i - pstart, psize |-> NextAt(ends, i) - pstart + 1,
        peer |-> LatestAt(peers, i) - pstart, peerEnd |-> NextAt(peerEnds, i) - pstart,
        dense |-> Cardinality({j \in peers : pstart <= j /\ j <= i})]

\* _rows_offset
RowsOffset(b, at) ==
    CASE b.kind = "UNBOUNDED_PRECEDING" -> 0
      [] b.kind = "UNBOUNDED_FOLLOWING" -> at.psize - 1
      [] b.kind = "CURRENT_ROW" -> at.pos
      [] b.kind = "PRECEDING" -> at.pos - b.n
      [] b.kind = "FOLLOWING" -> at.pos + b.n

\* _frame_bounds, before and after clamping to the partition
RawBounds(frame, at) ==
    IF frame.mode = "RANGE"
    THEN <<IF frame.start.kind = "CURRENT_ROW" THEN at.peer ELSE 0,
           IF frame.end.kind = "CURRENT_ROW" THEN at.peerEnd ELSE at.psize - 1>>
    ELSE <<RowsOffset(frame.start, at), RowsOffset(frame.end, at)>>
FrameBounds(frame, at) ==
    LET raw == RawBounds(frame, at)
    IN [lo |-> IF raw[1] >= 0 THEN raw[1] ELSE 0,
        hi |-> IF raw[2] <= at.psize - 1 THEN raw[2] ELSE at.psize - 1]

\* iloc by a position counted from 0: a negative one counts from the end.
Iloc(s, i) == IF i < 0 THEN s[Len(s) + i + 1] ELSE s[i + 1]

\* groupby("_pid").cumsum(): totals from the start of each partition.
RunningTotal(part, vs) ==
    [i \in DOMAIN vs |-> Reduce("SUM", SubSeq(vs, LatestAt({j \in 1..i : Boundary(part, j)}, i), i))]
\* _gather_diff
GatherDiff(prefix, at, b) ==
    Iloc(prefix, at.pstart - 1 + b.hi) - IF b.lo > 0 THEN Iloc(prefix, at.pstart + b.lo - 2) ELSE 0

\* _window_running_minmax: the running value at the last row with an argument, read at hi.
RunningMinMax(func, part, vs, at, b) ==
    LET known == {j \in DOMAIN vs : vs[j] # Null}
        cum(j) == Reduce(func, Values(SubSeq(vs, LatestAt({k \in 1..j : Boundary(part, k)}, j), j)))
        filled == [i \in DOMAIN vs |-> IF \E j \in known : j <= i THEN cum(LatestAt(known, i)) ELSE Null]
    IN Iloc(filled, at.pstart - 1 + b.hi)

\* _window_running at a row of the sorted frame with this place and these bounds: an aggregate
\* with an ORDER BY.
Running(wf, part, vs, at, b) ==
    LET nonempty == b.lo <= b.hi
        notNull == [j \in DOMAIN vs |-> IF vs[j] = Null THEN 0 ELSE 1]
        zeroed == [j \in DOMAIN vs |-> IF vs[j] = Null THEN 0 ELSE vs[j]]
        cnt == IF nonempty THEN GatherDiff(RunningTotal(part, notNull), at, b) ELSE 0
    IN CASE wf.func = "COUNT" /\ WindowArg(wf) = Star -> IF nonempty THEN b.hi - b.lo + 1 ELSE 0
         [] wf.func = "COUNT" -> cnt
         [] wf.func = "SUM" -> IF cnt > 0 THEN GatherDiff(RunningTotal(part, zeroed), at, b) ELSE Null
         [] OTHER -> RunningMinMax(wf.func, part, vs, at, b)

\* _window_positioned at sorted row i: ranks, LAG and LEAD.
Positioned(wf, vs, at, i) ==
    LET source == IF wf.func = "LAG" THEN i - wf.offset ELSE i + wf.offset
        valid == IF wf.func = "LAG" THEN at.pos >= wf.offset ELSE at.pos <= at.psize - 1 - wf.offset
    IN CASE wf.func = "ROW_NUMBER" -> at.pos + 1
         [] wf.func = "RANK" -> at.peer + 1
         [] wf.func = "DENSE_RANK" -> at.dense
         [] OTHER -> IF valid THEN vs[source] ELSE IF wf.default = None THEN Null ELSE wf.default

\* _window_broadcast at row i: an aggregate over the whole partition.  Without PARTITION BY it is
\* a method of the column, and sum() of a column without values is 0.
Broadcast(wf, part, vs, i) ==
    LET mine == {j \in DOMAIN part : part[j] = part[i]}
        own == [j \in DOMAIN vs |-> IF j \in mine THEN vs[j] ELSE Null]
    IN IF wf.func = "COUNT" /\ WindowArg(wf) = Star THEN Cardinality(mine)
       ELSE IF wf.func = "SUM" /\ wf.parts = 0 /\ Values(own) = <<>> THEN 0
       ELSE Reduce(wf.func, Values(own))

IsAggregate(wf) == wf.func \in {"COUNT", "SUM", "MIN", "MAX"}
AtPlace(wf, part, vs, at, i) ==
    IF IsAggregate(wf) THEN Running(wf, part, vs, at, FrameBounds(wf.frame, at)) ELSE Positioned(wf, vs, at, i)
\* The values along the sorted frame, from its key columns and its arguments.
SortedColumn(wf, part, order, vs) ==
    [i \in DOMAIN vs |-> AtPlace(wf, part, vs, Place(part, order, i), i)]
\* A column in the order of sorted positions, and back.
Along(s, sorted) == [i \in DOMAIN s |-> s[sorted[i]]]
Restored(s, sorted) == [i \in DOMAIN s |-> s[CHOOSE p \in DOMAIN s : sorted[p] = i]]
OrderedColumn(wf, part, order, vs, sorted) ==
    Restored(SortedColumn(wf, Along(part, sorted), Along(order, sorted), Along(vs, sorted)), sorted)

KeyedColumn(wf, part, order, vs) ==
    IF IsAggregate(wf) /\ OrderKeys(wf) = <<>>
    THEN [i \in DOMAIN vs |-> Broadcast(wf, part, vs, i)]
    ELSE OrderedColumn(wf, part, order, vs,
                       SortedPositions([i \in DOMAIN vs |-> part[i] \o order[i]], [i \in 1..wf.parts |-> TRUE] \o wf.asc))
\* _window_column: the function's value at each row, in the rows' own order.
WindowColumn(wf, rows) ==
    KeyedColumn(wf, [i \in DOMAIN rows |-> Keys(PartitionKeys(wf), rows[i])],
                    [i \in DOMAIN rows |-> Keys(OrderKeys(wf), rows[i])],
                    [i \in DOMAIN rows |-> IF WindowArg(wf) = Star THEN Null ELSE Eval(WindowArg(wf), rows[i])])
=============================================================================
