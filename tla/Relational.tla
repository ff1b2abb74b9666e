----------------------------- MODULE Relational -----------------------------
(***************************************************************************)
(* The executor's relational operators (executor.py _exec and below) on    *)
(* frames of columns and rows.  cuDF is external: merge matches NULL with  *)
(* NULL, groupby and drop_duplicates take NULLs as equal, and a filter     *)
(* drops NA.  The fused kernels are left out.                              *)
(***************************************************************************)
EXTENDS Windows

\* A frame: the columns in order, the rows as functions of them.
DataFrame(cols, rows) == [cols |-> cols, rows |-> rows]
OnlyRows(f, rows) == [f EXCEPT !.rows = rows]
NullRow(cols) == [c \in ToSet(cols) |-> Null]

----------------------------------------------------------------------------
(***************************************************************************)
(* Joins.                                                                  *)
(***************************************************************************)

RECURSIVE SideAlias(_)
\* _side_alias: None for a side that is neither a table, filtered or not, nor a subquery.
SideAlias(n) == CASE n.node \in {"scan", "derived"} -> n.alias
                  [] n.node = "filter" -> SideAlias(n.kids[1])
                  [] OTHER -> None

\* _join's renaming of columns that both sides have.
Renamed(c, collision, alias) == IF c \in collision THEN <<alias, c[2]>> ELSE c
RenameFrame(f, collision, alias) ==
    LET old(c) == CHOOSE d \in ToSet(f.cols) : Renamed(d, collision, alias) = c
        cols == [i \in DOMAIN f.cols |-> Renamed(f.cols[i], collision, alias)]
    IN DataFrame(cols, [i \in DOMAIN f.rows |-> [c \in ToSet(cols) |-> f.rows[i][old(c)]]])

\* The row of a pair; keys of one name become one column.
Combine(l, r) ==
    [c \in DOMAIN l \cup DOMAIN r |->
        IF c \in DOMAIN l /\ (l[c] # Null \/ c \notin DOMAIN r) THEN l[c] ELSE r[c]]
Without(row, cols) == [c \in DOMAIN row \ cols |-> row[c]]

\* merge over the pairs of positions given, with the unmatched rows the kind of join keeps.
Merge(l, r, pairs, how) ==
    LET right == SelectSeq(r.cols, LAMBDA c : c \notin ToSet(l.cols))
        row(p) == Combine(l.rows[p[1]], r.rows[p[2]])
        all == [i \in 1..Len(l.rows) |->
                  SelectSeq([j \in 1..Len(r.rows) |-> <<i, j>>], LAMBDA p : p \in pairs)]
        joined == LET ps == FlattenSeq(all) IN [i \in DOMAIN ps |-> row(ps[i])]
        loneL == SelectSeq([i \in 1..Len(l.rows) |-> i], LAMBDA i : ~\E p \in pairs : p[1] = i)
        loneR == SelectSeq([j \in 1..Len(r.rows) |-> j], LAMBDA j : ~\E p \in pairs : p[2] = j)
        padL == [i \in DOMAIN loneL |-> Combine(l.rows[loneL[i]], NullRow(r.cols))]
        padR == [i \in DOMAIN loneR |-> Combine(NullRow(l.cols), r.rows[loneR[i]])]
    IN DataFrame(l.cols \o right,
                 joined \o (IF how \in {"left", "full"} THEN padL ELSE <<>>)
                        \o (IF how \in {"right", "full"} THEN padR ELSE <<>>))

\* Pairs with equal keys: NULL equals NULL.
KeyPairs(l, r, onl, onr) ==
    {p \in (1..Len(l.rows)) \X (1..Len(r.rows)) :
        \A k \in DOMAIN onl : l.rows[p[1]][onl[k]] = r.rows[p[2]][onr[k]]}

\* _join of all but semi and anti joins; _outer_join_with_predicate evaluates the residual
\* with the keys under other names and pads the rows without a satisfied match.
JoinFrames(n, left, right) ==
    LET shared == ToSet(left.cols) \cap ToSet(right.cols)
        collision == IF n.using THEN {} ELSE shared
        la == SideAlias(n.kids[1])
        ra == SideAlias(n.kids[2])
        l == RenameFrame(left, collision, la)
        r == RenameFrame(right, collision, ra)
        onl == [k \in DOMAIN n.on_left |-> Renamed(Out(n.on_left[k]), collision, la)]
        onr == [k \in DOMAIN n.on_right |-> Renamed(Out(n.on_right[k]), collision, ra)]
        equal == KeyPairs(l, r, onl, onr)
        hidden == IF n.how \in {"left", "right", "full"} THEN ToSet(onl) \cup ToSet(onr) ELSE {}
        sat == {p \in equal : n.on_predicate # None =>
                   Passes(n.on_predicate, Without(Combine(l.rows[p[1]], r.rows[p[2]]), hidden))}
    IN Merge(l, r, sat, n.how)

\* _semi_anti_join: a NULL key on the right never matches.
SemiAntiJoin(n, l, r) ==
    LET matches(row) == \E j \in DOMAIN r.rows : \A k \in DOMAIN n.on_left :
                            /\ r.rows[j][Out(n.on_right[k])] # Null
                            /\ row[Out(n.on_left[k])] = r.rows[j][Out(n.on_right[k])]
        kept(row) == matches(row) <=> (n.how = "semi")
    IN OnlyRows(l, SelectSeq(l.rows, kept))

----------------------------------------------------------------------------
(***************************************************************************)
(* Aggregation.                                                            *)
(***************************************************************************)

\* The arguments of an aggregate over rows: a FILTER nulls those of the rows that fail it.
ArgValues(a, rows) ==
    LET counted(row) == Len(a.args) = 2 => Passes(a.args[2], row)
        arg(row) == IF a.args[1] = Star THEN 1 ELSE Eval(a.args[1], row)
    IN Values([i \in DOMAIN rows |-> IF counted(rows[i]) THEN arg(rows[i]) ELSE Null])
Uniques(a, vs) == IF a.distinct THEN SetToSeq(ToSet(vs)) ELSE vs
AggValue(a, rows) == Reduce(a.func, Uniques(a, ArgValues(a, rows)))
\* _scalar_agg: Series.sum() of nothing is 0, where a group's is NULL.
ScalarReduce(a, vs) == IF a.func = "SUM" /\ vs = <<>> THEN 0 ELSE Reduce(a.func, Uniques(a, vs))
ScalarAgg(a, rows) == ScalarReduce(a, ArgValues(a, rows))

\* _scalar_global_agg: one row, of a constant if there is nothing to compute.
GlobalAgg(rows, aggs) ==
    IF aggs = <<>> THEN DataFrame(<<Out("_g_")>>, <<[c \in {Out("_g_")} |-> 0]>>)
    ELSE LET at(c) == CHOOSE i \in DOMAIN aggs : aggs[i].as = c
         IN DataFrame(Names(aggs), <<[c \in ToSet(Names(aggs)) |-> ScalarAgg(aggs[at(c)].e, rows)]>>)

\* _fused_agg: a group key is the column of its output name if the frame has one, else the
\* value of its expression; keys holds them by row, or None for a row that groups nowhere.
GroupKey(k, row) == IF k.as \in DOMAIN row THEN row[k.as] ELSE Eval(k.e, row)
GroupedAgg(rows, keys, groupKeys, aggs) ==
    LET groups == SetToSeq(ToSet(keys) \ {None})
        members(g) == SelectSeq([i \in DOMAIN rows |-> i], LAMBDA i : keys[i] = g)
        rowsOf(g) == LET m == members(g) IN [i \in DOMAIN m |-> rows[m[i]]]
        cols == Names(groupKeys) \o Names(aggs)
        keyAt(c) == CHOOSE i \in DOMAIN groupKeys : groupKeys[i].as = c
        aggAt(c) == CHOOSE i \in DOMAIN aggs : aggs[i].as = c
        row(g) == [c \in ToSet(cols) |-> IF c \in ToSet(Names(groupKeys)) THEN g[keyAt(c)]
                                         ELSE AggValue(aggs[aggAt(c)].e, rowsOf(g))]
    IN DataFrame(cols, [i \in DOMAIN groups |-> row(groups[i])])

\* _keys_nonnull
KeysNonNull(f, groupKeys) ==
    \A i \in DOMAIN groupKeys :
        LET e == groupKeys[i].e IN
        /\ e.op = "col" /\ Out(e.name) \in ToSet(f.cols)
        /\ \A j \in DOMAIN f.rows : f.rows[j][Out(e.name)] # Null

\* _aggregate without a filter below it, and on a gathered frame.
AggregateFrame(f, groupKeys, aggs) ==
    IF groupKeys = <<>> THEN GlobalAgg(f.rows, aggs)
    ELSE GroupedAgg(f.rows, [i \in DOMAIN f.rows |-> [k \in DOMAIN groupKeys |-> GroupKey(groupKeys[k], f.rows[i])]],
                    groupKeys, aggs)
\* _aggregate over a filter: where no key can be NULL the filter nulls the keys of the rows
\* that fail it, and the groupby drops them.
AggregateFiltered(f, predicate, groupKeys, aggs) ==
    LET pass(row) == Passes(predicate, row)
        key(k, row) == IF k.as \in DOMAIN row THEN row[k.as] ELSE row[Out(k.e.name)]
    IN IF groupKeys # <<>> /\ KeysNonNull(f, groupKeys)
       THEN GroupedAgg(f.rows, [i \in DOMAIN f.rows |->
                                   IF pass(f.rows[i]) THEN [k \in DOMAIN groupKeys |-> key(groupKeys[k], f.rows[i])]
                                   ELSE None], groupKeys, aggs)
       ELSE AggregateFrame(OnlyRows(f, SelectSeq(f.rows, pass)), groupKeys, aggs)

----------------------------------------------------------------------------
(***************************************************************************)
(* Projection, order, duplicates, set operators.                           *)
(***************************************************************************)

ProjectFrame(f, items) ==
    LET at(c) == CHOOSE i \in DOMAIN items : items[i].as = c
        row(r) == [c \in ToSet(Names(items)) |-> Eval(items[at(c)].e, r)]
    IN DataFrame(Names(items), [i \in DOMAIN f.rows |-> row(f.rows[i])])

AddColumn(f, as, column) ==
    DataFrame(Append(f.cols, as),
              [i \in DOMAIN f.rows |-> [c \in ToSet(f.cols) \cup {as} |-> IF c = as THEN column[i] ELSE f.rows[i][c]]])

\* bare_safe: the output column of the key's name is the column the key means.
BareSafe(e, cols) ==
    /\ e.op = "col" /\ Out(e.name) \in ToSet(cols)
    /\ e.table = "" \/ <<e.table, e.name>> \in ToSet(cols) \/ <<"_1", e.name>> \notin ToSet(cols)
\* _sort: a key the output does not have is taken from the frame below the projection.
SortFrame(f, below, keys) ==
    LET value(k, i) == IF BareSafe(k.e, f.cols) THEN f.rows[i][Out(k.e.name)] ELSE Eval(k.e, below.rows[i])
        by == [i \in DOMAIN f.rows |-> [k \in DOMAIN keys |-> value(keys[k], i)]]
        sorted == SortedPositions(by, [k \in DOMAIN keys |-> keys[k].asc])
    IN [f EXCEPT !.rows = [i \in DOMAIN f.rows |-> f.rows[sorted[i]]]]

\* drop_duplicates
Dedup(rows) ==
    LET first == SelectSeq([i \in DOMAIN rows |-> i], LAMBDA i : \A j \in 1..(i - 1) : rows[j] # rows[i])
    IN [i \in DOMAIN first |-> rows[first[i]]]

\* _setop: the right side's columns take the left side's names, by position.
SetOpFrame(n, l, r) ==
    LET at(c) == CHOOSE i \in DOMAIN l.cols : l.cols[i] = c
        right == [i \in DOMAIN r.rows |-> [c \in ToSet(l.cols) |-> r.rows[i][r.cols[at(c)]]]]
        in(row) == row \in ToSet(right)
        out(row) == row \notin ToSet(right)
        all == l.rows \o right
    IN DataFrame(l.cols, CASE n.fn = "union" -> IF n.distinct THEN Dedup(all) ELSE all
                           [] n.fn = "intersect" -> SelectSeq(Dedup(l.rows), in)
                           [] n.fn = "except" -> SelectSeq(Dedup(l.rows), out))

----------------------------------------------------------------------------
\* _scan: the columns the plan asks for, all of them if it asks for none.
ScanFrame(n, db) ==
    LET names == IF n.columns \in {None, {}} THEN Schema[n.table]
                 ELSE SelectSeq(Schema[n.table], LAMBDA c : c \in n.columns)
        cols == [i \in DOMAIN names |-> Out(names[i])]
    IN DataFrame(cols, [i \in DOMAIN db[n.table] |-> [c \in ToSet(cols) |-> db[n.table][i][c[2]]]])

RECURSIVE AddWindows(_, _)
\* _window: one column after the other.
AddWindows(f, funcs) ==
    LET w == Head(funcs)
    IN IF funcs = <<>> THEN f ELSE AddWindows(AddColumn(f, w.as, WindowColumn(w.e, f.rows)), Tail(funcs))

RECURSIVE Exec(_, _)
\* _exec
Exec(n, db) ==
    LET in == Exec(n.kids[1], db)
        other == Exec(n.kids[2], db)
        below == n.kids[1]
    IN CASE n.node = "scan" -> ScanFrame(n, db)
         [] n.node = "derived" -> in
         [] n.node = "filter" -> OnlyRows(in, SelectSeq(in.rows, LAMBDA row : Passes(n.predicate, row)))
         [] n.node = "join" /\ n.how \in {"semi", "anti"} -> SemiAntiJoin(n, in, other)
         [] n.node = "join" /\ n.how \notin {"semi", "anti"} -> JoinFrames(n, in, other)
         [] n.node = "aggregate" /\ below.node = "filter" ->
               AggregateFiltered(Exec(below.kids[1], db), below.predicate, n.group_keys, n.aggs)
         [] n.node = "aggregate" /\ below.node # "filter" -> AggregateFrame(in, n.group_keys, n.aggs)
         [] n.node = "window" -> AddWindows(in, n.funcs)
         [] n.node = "project" -> ProjectFrame(in, n.items)
         [] n.node = "sort" ->
               SortFrame(in, IF below.node = "project" THEN Exec(below.kids[1], db) ELSE in, n.keys)
         [] n.node = "limit" -> [in EXCEPT !.rows = SubSeq(@, n.offset + 1, Min({n.offset + n.n, Len(@)}))]
         [] n.node = "distinct" -> [in EXCEPT !.rows = Dedup(@)]
         [] n.node = "setop" -> SetOpFrame(n, in, other)
=============================================================================
