---------------------------- MODULE SqlReference ----------------------------
(***************************************************************************)
(* What a query means in SQL, for the queries of SqlBuilder: an evaluation *)
(* row by row, subqueries included, with three-valued logic and no plan.   *)
(* It is the reference the planner, the optimizer and the executor are     *)
(* checked against, and follows no code; it shares with them the meaning   *)
(* of the scalar operators, the order of values with NULL last and the     *)
(* reductions.                                                             *)
(*                                                                         *)
(* A binding is a row in scope, [<<alias, column>> -> value]; a column     *)
(* merged by USING is under <<"", column>>.  An expression is evaluated in *)
(* a context: the scopes, innermost first; for aggregates the group and    *)
(* the names it does not group by; for windows all rows and a position.    *)
(***************************************************************************)
EXTENDS SqlBuilder, Windows

RECURSIVE Answer(_, _, _, _)
RECURSIVE Value(_, _)

\* Where a scope binds a column; a name without an alias is the merged one or the only one.
Bindings(c, scope) ==
    IF c.table # "" THEN {<<c.table, c.name>>} \cap DOMAIN scope
    ELSE IF Out(c.name) \in DOMAIN scope THEN {Out(c.name)}
    ELSE {b \in DOMAIN scope : b[2] = c.name}
ColumnValue(c, cx) ==
    LET at == Min({i \in DOMAIN cx.scopes : Bindings(c, cx.scopes[i]) # {}})
        binding == CHOOSE b \in Bindings(c, cx.scopes[at]) : TRUE
    IN IF c.name \in cx.ungrouped THEN Null ELSE cx.scopes[at][binding]
AtRow(cx, row) == [cx EXCEPT !.scopes = <<row>> \o Tail(@), !.ungrouped = {}]

\* Whether one of the truth values is TRUE.
AnyTrue(S) == IF TRUE \in S THEN TRUE ELSE IF Null \in S THEN Null ELSE FALSE
Negate(v, fn) == IF fn = "not" THEN Not3(v) ELSE v

\* An aggregate ranges over the rows of the group that its FILTER lets through.
AggregateValue(a, cx) ==
    LET counted == SelectSeq(cx.group, LAMBDA row : Len(a.args) = 1 \/ Value(a.args[2], AtRow(cx, row)) = TRUE)
        vs == [i \in DOMAIN counted |-> IF a.args[1] = Star THEN 1 ELSE Value(a.args[1], AtRow(cx, counted[i]))]
    IN Reduce(a.func, IF a.distinct THEN SetToSeq(ToSet(Values(vs))) ELSE Values(vs))

\* A window function at the context's position, from the partition and order keys and the
\* argument of every row: its partition, each row's place in it, the rows of the frame, by
\* definition.
Ahead(w, order, i, j) == KeysBefore(order[i], order[j], w.asc)
PlaceOf(w, order, mine, i) ==
    Cardinality({j \in mine : Ahead(w, order, j, i) \/ (order[i] = order[j] /\ j < i)})
\* off is the distance to the row in places; peer: their order keys are equal.
AfterStart(b, mode, off, peer) ==
    CASE b.kind = "UNBOUNDED_PRECEDING" -> TRUE
      [] b.kind = "PRECEDING" -> off >= -b.n
      [] b.kind = "CURRENT_ROW" -> off >= 0 \/ (mode = "RANGE" /\ peer)
      [] b.kind = "FOLLOWING" -> off >= b.n
BeforeEnd(b, mode, off, peer) ==
    CASE b.kind = "UNBOUNDED_FOLLOWING" -> TRUE
      [] b.kind = "FOLLOWING" -> off <= b.n
      [] b.kind = "CURRENT_ROW" -> off <= 0 \/ (mode = "RANGE" /\ peer)
      [] b.kind = "PRECEDING" -> off <= -b.n
InFrame(frame, off, peer) ==
    AfterStart(frame.start, frame.mode, off, peer) /\ BeforeEnd(frame.end, frame.mode, off, peer)
\* An aggregate without a frame ranges over the partition up to the row's peers.
FrameRows(w, order, mine, off, at) ==
    {i \in mine : IF w.frame = None THEN ~Ahead(w, order, at, i) ELSE InFrame(w.frame, off[i], order[i] = order[at])}
Shifted(w, args, found) ==
    IF found # {} THEN args[CHOOSE i \in found : TRUE] ELSE IF w.default = None THEN Null ELSE w.default
Aggregated(w, args, frame) == LET is == SetToSeq(frame) IN Reduce(w.func, Values([k \in DOMAIN is |-> args[is[k]]]))
WindowAt(w, order, args, mine, off, at) ==
    LET smaller == {i \in mine : Ahead(w, order, i, at)}
    IN CASE w.func = "ROW_NUMBER" -> PlaceOf(w, order, mine, at) + 1
         [] w.func = "RANK" -> Cardinality(smaller) + 1
         [] w.func = "DENSE_RANK" -> Cardinality({order[i] : i \in smaller}) + 1
         [] w.func = "LAG" -> Shifted(w, args, {i \in mine : off[i] = -w.offset})
         [] w.func = "LEAD" -> Shifted(w, args, {i \in mine : off[i] = w.offset})
         [] OTHER -> Aggregated(w, args, FrameRows(w, order, mine, off, at))
InPartition(w, order, args, mine, at) ==
    WindowAt(w, order, args, mine, [i \in mine |-> PlaceOf(w, order, mine, i) - PlaceOf(w, order, mine, at)], at)
WindowOver(w, part, order, args, at) ==
    InPartition(w, order, args, {i \in DOMAIN part : part[i] = part[at]}, at)
WindowValue(w, cx) ==
    LET each(es) == [i \in DOMAIN cx.rows |-> [k \in DOMAIN es |-> Value(es[k], AtRow(cx, cx.rows[i]))]]
        args == [i \in DOMAIN cx.rows |-> IF WindowArg(w) = Star THEN 1 ELSE Value(WindowArg(w), AtRow(cx, cx.rows[i]))]
    IN WindowOver(w, each(PartitionKeys(w)), each(OrderKeys(w)), args, cx.at)

\* What a subquery with these rows is worth; v is the operand of IN.
SubqueryValue(op, v, rows) ==
    CASE op = "insub" -> AnyTrue({Compare("=", v, rows[i][1]) : i \in DOMAIN rows})
      [] op = "exists" -> rows # <<>>
      [] op = "scalar" -> IF rows = <<>> THEN Null ELSE rows[1][1]

Value(e, cx) ==
    LET v(i) == Value(e.args[i], cx)
        last == Len(e.args)
        holds == {i \in 1..((last - 1) \div 2) : v(2 * i - 1) = TRUE}
        equal == {i \in 1..((last - 2) \div 2) : Compare("=", v(1), v(2 * i)) = TRUE}
        known == {i \in 1..last : v(i) # Null}
        bits[i \in 0..last] == IF i = 0 THEN 0 ELSE 2 * bits[i - 1] + IF e.args[i].name \in cx.ungrouped THEN 1 ELSE 0
    IN CASE e.op = "col"      -> ColumnValue(e, cx)
         [] e.op = "lit"      -> e.value
         [] e.op = "compare"  -> Compare(e.fn, v(1), v(2))
         [] e.op = "arith"    -> Arith(e.fn, v(1), v(2))
         [] e.op = "neg"      -> Arith("-", 0, v(1))
         [] e.op = "and"      -> And3(v(1), v(2))
         [] e.op = "or"       -> Or3(v(1), v(2))
         [] e.op = "not"      -> Not3(v(1))
         [] e.op = "isnull"   -> (v(1) = Null) # (e.fn = "not")
         [] e.op = "in"       -> Negate(AnyTrue({Compare("=", v(1), v(i)) : i \in 2..last}), e.fn)
         [] e.op = "between"  -> Negate(And3(Compare(">=", v(1), v(2)), Compare("<=", v(1), v(3))), e.fn)
         [] e.op = "case"     -> IF holds = {} THEN v(last) ELSE v(2 * Min(holds))
         [] e.op = "casewhen" -> IF equal = {} THEN v(last) ELSE v(2 * Min(equal) + 1)
         [] e.op = "coalesce" -> IF known = {} THEN Null ELSE v(Min(known))
         [] e.op = "agg"      -> AggregateValue(e, cx)
         [] e.op = "window"   -> WindowValue(e, cx)
         [] e.op = "grouping" -> bits[last]
         [] e.op \in Subqueries -> SubqueryValue(e.op, IF e.op = "insub" THEN v(1) ELSE None,
                                                Answer(e.query, cx.scopes, cx.db, cx.ctes).rows)

----------------------------------------------------------------------------
(***************************************************************************)
(* FROM: the columns in order and the rows, as bindings.                   *)
(***************************************************************************)

Bound(names, rows, alias) ==
    LET cols == [k \in DOMAIN names |-> <<alias, names[k]>>]
        at(c) == CHOOSE k \in DOMAIN cols : cols[k] = c
    IN [cols |-> cols, rows |-> [i \in DOMAIN rows |-> [c \in ToSet(cols) |-> rows[i][at(c)]]]]
TableRows(names, rows) == [i \in DOMAIN rows |-> [k \in DOMAIN names |-> rows[i][names[k]]]]
BoundAnswer(a, alias) == Bound(a.names, a.rows, alias)
Source(ref, db, ctes) ==
    LET cte == ctes[ref.name]
    IN IF ref.ref = "query" THEN BoundAnswer(Answer(ref.query, <<>>, db, ctes), ref.alias)
       ELSE IF ref.name \in DOMAIN ctes THEN BoundAnswer(Answer(cte.query, <<>>, db, cte.ctes), ref.alias)
       ELSE Bound(Schema[ref.name], TableRows(Schema[ref.name], db[ref.name]), ref.alias)

NamedValue(row, name) == row[CHOOSE b \in Bindings(Bare(name), row) : TRUE]
Nulls(source) == [c \in ToSet(source.cols) |-> Null]
\* A row of both sides; a column of USING is the value of the side that has one.
MergedRow(x, y, using) ==
    [c \in {Out(name) : name \in using} |->
        IF NamedValue(x, c[2]) # Null THEN NamedValue(x, c[2]) ELSE NamedValue(y, c[2])] @@ x @@ y
MatchingPairs(l, r, using, on, cx) ==
    {p \in (DOMAIN l.rows) \X (DOMAIN r.rows) :
        /\ \A name \in using : Compare("=", NamedValue(l.rows[p[1]], name), NamedValue(r.rows[p[2]], name)) = TRUE
        /\ on # None => Value(on, AtRow(cx, l.rows[p[1]] @@ r.rows[p[2]])) = TRUE}
\* The matching pairs, and the others of a side that is kept, padded.
PairedRows(l, r, side, using, pairs) ==
    LET all == FlattenSeq([i \in DOMAIN l.rows |-> SelectSeq([j \in DOMAIN r.rows |-> <<i, j>>], LAMBDA p : p \in pairs)])
        loneL == SetToSeq(IF side \in {"left", "full"} THEN DOMAIN l.rows \ {p[1] : p \in pairs} ELSE {})
        loneR == SetToSeq(IF side \in {"right", "full"} THEN DOMAIN r.rows \ {p[2] : p \in pairs} ELSE {})
    IN [k \in DOMAIN all |-> MergedRow(l.rows[all[k][1]], r.rows[all[k][2]], using)]
       \o [k \in DOMAIN loneL |-> MergedRow(l.rows[loneL[k]], Nulls(r), using)]
       \o [k \in DOMAIN loneR |-> MergedRow(Nulls(l), r.rows[loneR[k]], using)]
JoinUsing(l, r, j, using, cx) ==
    [cols |-> [k \in DOMAIN l.cols |-> IF l.cols[k][2] \in using THEN Out(l.cols[k][2]) ELSE l.cols[k]]
              \o SelectSeq(r.cols, LAMBDA c : c[2] \notin using),
     rows |-> PairedRows(l, r, j.side, using, MatchingPairs(l, r, using, j.on, cx))]
\* A join pairs the rows for which its condition is TRUE and pads the others of a kept side.
JoinSources(l, r, j, cx) ==
    LET names(s) == {c[2] : c \in ToSet(s.cols)}
    IN JoinUsing(l, r, j, IF j.natural THEN names(l) \cap names(r) ELSE ToSet(j.using), cx)

----------------------------------------------------------------------------
(***************************************************************************)
(* Groups: for each grouping set, the rows that agree on its columns; the  *)
(* empty set has one group even of no rows.                                *)
(***************************************************************************)

SetsOf(ext) ==
    LET n == Len(ext.items)
        of(S) == UNION {ToSet(ext.items[i]) : i \in S}
    IN CASE ext.kind = "rollup" -> [k \in 1..(n + 1) |-> of(1..(k - 1))]
         [] ext.kind = "cube" -> LET ss == SetToSeq(SUBSET (1..n)) IN [k \in DOMAIN ss |-> of(ss[k])]
         [] ext.kind = "sets" -> [k \in 1..n |-> of({k})]
\* The rows by their keys.
GroupsBy(rows, keys) ==
    LET ks == SetToSeq(ToSet(keys))
        members(k) == SelectSeq([i \in DOMAIN rows |-> i], LAMBDA i : keys[i] = k)
    IN [k \in DOMAIN ks |-> LET ms == members(ks[k]) IN [i \in DOMAIN ms |-> rows[ms[i]]]]
\* The groups of q's rows for one grouping set, and their contexts.
GroupKeys(q, names, rows, cx) ==
    LET exprs == q.group \o LET ns == SetToSeq(names) IN [k \in DOMAIN ns |-> Bare(ns[k])]
    IN [i \in DOMAIN rows |-> [k \in DOMAIN exprs |-> Value(exprs[k], AtRow(cx, rows[i]))]]
GroupContexts(groups, ungrouped, cx) ==
    [k \in DOMAIN groups |->
        [cx EXCEPT !.scopes = <<IF groups[k] = <<>> THEN EmptyMap ELSE groups[k][1]>> \o Tail(@),
                   !.group = groups[k], !.ungrouped = ungrouped]]
Groups(q, rows, cx) ==
    LET sets == IF q.ext = None THEN <<{}>> ELSE SetsOf(q.ext)
        all == UNION ToSet(sets)
        groups(names) == IF q.group = <<>> /\ names = {} THEN <<rows>> ELSE GroupsBy(rows, GroupKeys(q, names, rows, cx))
    IN FlattenSeq([s \in DOMAIN sets |-> GroupContexts(groups(sets[s]), all \ sets[s], cx)])

----------------------------------------------------------------------------
(***************************************************************************)
(* Queries: the names of the result's columns and its rows, each with the  *)
(* values it is ordered by.                                                *)
(***************************************************************************)

\* FROM, WHERE, GROUP BY, HAVING and QUALIFY, the SELECT list, DISTINCT, in this order.
Context(scopes, db, ctes) ==
    [scopes |-> <<EmptyMap>> \o scopes, group |-> <<>>, ungrouped |-> {}, rows |-> <<>>, at |-> 0, db |-> db, ctes |-> ctes]
FromRows(q, cx) ==
    LET joined[k \in 0..Len(q.joins)] ==
            IF k = 0 THEN Source(q.from, cx.db, cx.ctes)
            ELSE JoinSources(joined[k - 1], Source(q.joins[k].source, cx.db, cx.ctes), q.joins[k], cx)
    IN joined[Len(q.joins)]
WhereRows(q, rows, cx) == SelectSeq(rows, LAMBDA row : q.where # None => Value(q.where, AtRow(cx, row)) = TRUE)
\* The contexts the SELECT list is evaluated in: the groups, or the rows.
Contexts(q, rows, cx) ==
    IF q.group # <<>> \/ q.ext # None \/ q.having # None \/ \E i \in DOMAIN q.items : IsAgg(q.items[i])
    THEN Groups(q, rows, cx)
    ELSE [i \in DOMAIN rows |-> [AtRow(cx, rows[i]) EXCEPT !.rows = rows, !.at = i]]
\* The output names as expressions, and what they stand for.
AliasMap(items, names) ==
    [c \in {Bare(names[k]) : k \in DOMAIN items} |-> items[Min({k \in DOMAIN items : names[k] = c.name})].e]
Holds(e, aliases, cx) == e # None => Value(Replace(e, aliases), cx) = TRUE
Shown(q, aliases, contexts) ==
    SelectSeq(contexts, LAMBDA cx : Holds(q.having, aliases, cx) /\ Holds(q.qualify, aliases, cx))
OutRows(q, items, aliases, contexts) ==
    [i \in DOMAIN contexts |->
        [out |-> [k \in DOMAIN items |-> Value(items[k].e, contexts[i])],
         by |-> [k \in DOMAIN q.order |->
                   LET e == q.order[k].e IN Value(IF e \in DOMAIN aliases THEN aliases[e] ELSE e, contexts[i])]]]
Deduped(q, rows) == IF q.distinct THEN Distinctly(rows) ELSE rows
SelectItems(q, items, names, aliases, contexts) ==
    [names |-> names, rows |-> Deduped(q, OutRows(q, items, aliases, Shown(q, aliases, contexts)))]
SelectNamed(q, items, names, contexts) == SelectItems(q, items, names, AliasMap(items, names), contexts)
ItemsOf(q, cols) ==
    IF q.items = <<>> THEN [k \in DOMAIN cols |-> Item(Col(cols[k][1], cols[k][2]), cols[k][2])] ELSE q.items
SelectFrom(q, items, rows, cx) ==
    SelectNamed(q, items, [k \in DOMAIN items |-> OutputName(items[k])], Contexts(q, WhereRows(q, rows, cx), cx))
SelectSource(q, from, cx) == SelectFrom(q, ItemsOf(q, from.cols), from.rows, cx)
SelectIn(q, cx) == SelectSource(q, FromRows(q, cx), cx)
SelectRows(q, scopes, db, scope) ==
    LET with[k \in 0..Len(q.with)] ==
            IF k = 0 THEN scope ELSE (q.with[k].name :> [query |-> q.with[k].query, ctes |-> with[k - 1]]) @@ with[k - 1]
    IN SelectIn(q, Context(scopes, db, with[Len(q.with)]))

CombinedRows(fn, distinct, l, r) ==
    CASE fn = "union" /\ distinct -> Distinctly(l \o r)
      [] fn = "union" /\ ~distinct -> l \o r
      [] fn = "intersect" -> Distinctly(SelectSeq(l, LAMBDA x : x \in ToSet(r)))
      [] fn = "except" -> Distinctly(SelectSeq(l, LAMBDA x : x \notin ToSet(r)))
OrderedBy(q, names, outs) ==
    LET at(name) == Min({k \in DOMAIN names : names[k] = name})
    IN [names |-> names, rows |-> [i \in DOMAIN outs |->
          [out |-> outs[i], by |-> [k \in DOMAIN q.order |-> outs[i][at(q.order[k].e.name)]]]]]
CombinedAnswers(q, l, r) == OrderedBy(q, l.names, CombinedRows(q.fn, q.distinct, l.rows, r.rows))
SetRows(q, scopes, db, ctes) ==
    CombinedAnswers(q, Answer(q.left, scopes, db, ctes), Answer(q.right, scopes, db, ctes))

QueryRows(q, scopes, db, ctes) ==
    IF q.ast = "select" THEN SelectRows(q, scopes, db, ctes) ELSE SetRows(q, scopes, db, ctes)

\* The rows in order, and the positions LIMIT and OFFSET leave of them.
InOrder(q, rows) ==
    LET by == [i \in DOMAIN rows |-> rows[i].by]
        sorted == SortedPositions(by, [k \in DOMAIN q.order |-> q.order[k].asc])
    IN [i \in DOMAIN rows |-> rows[sorted[i]]]
Slice(q, n) == IF q.limit = None THEN 1..n
               ELSE (q.limit.offset + 1)..Min({q.limit.offset + q.limit.n, n})

CutRows(rows, s) == IF s = {} THEN <<>> ELSE [i \in 1..Cardinality(s) |-> rows[Min(s) + i - 1].out]
OrderedAnswer(q, a) ==
    [names |-> a.names, rows |-> CutRows(InOrder(q, a.rows), Slice(q, Len(a.rows)))]
Answer(q, scopes, db, ctes) == OrderedAnswer(q, QueryRows(q, scopes, db, ctes))

(***************************************************************************)
(* A result answers q if it is one of the orders of q's rows that its      *)
(* ORDER BY allows, cut by LIMIT and OFFSET: rows with equal keys may      *)
(* stand in any order, and a cut among them may leave any of them.         *)
(***************************************************************************)
IsCutOf(result, rows, s) ==
    LET at(i) == result[i - Min(s) + 1]
        peers(i) == {k \in DOMAIN rows : rows[k].by = rows[i].by}
    IN /\ Len(result) = Cardinality(s)
       /\ \A i \in s : Cardinality({k \in peers(i) \cap s : at(k) = at(i)})
                          <= Cardinality({k \in peers(i) : rows[k].out = at(i)})
IsAnswer(result, q, rows) == IsCutOf(result, InOrder(q, rows), Slice(q, Len(rows)))
Answers(result, q, db) == IsAnswer(result, q, QueryRows(q, <<>>, db, EmptyMap).rows)
=============================================================================
