----------------------------- MODULE SqlBuilder -----------------------------
(***************************************************************************)
(* From a parsed SQL query to a logical plan (ryudb/sql/parse.py).  The    *)
(* parser is external (sqlglot): a query is the record it leaves, with     *)
(* expressions as in Plan and these more kinds: between and neg, casewhen  *)
(* (a CASE with an operand), grouping, and subqueries as insub, exists and *)
(* scalar with the query in a field of that name.  Queries that are not    *)
(* Supported raise NotImplementedError.                                    *)
(*                                                                         *)
(* Equal subqueries of one query are joined once.  Output names are given  *)
(* or are those of columns.                                                *)
(***************************************************************************)
EXTENDS Plan, Functions, TLC

Table(name, alias) == [ref |-> "table", name |-> name, alias |-> alias]
FromQuery(query, alias) == [ref |-> "query", query |-> query, alias |-> alias]
\* side is inner, left, right, full or cross; using is a sequence of names.
JoinClause(source, side, on) ==
    [source |-> source, side |-> side, on |-> on, using |-> <<>>, natural |-> FALSE]
\* An item's name is "" if it has none of its own; no items are SELECT *.
Select(from) ==
    [ast |-> "select", with |-> <<>>, from |-> from, joins |-> <<>>, where |-> None, items |-> <<>>,
     group |-> <<>>, ext |-> None, having |-> None, qualify |-> None, distinct |-> FALSE,
     order |-> <<>>, limit |-> None]
SetQuery(fn, distinct, l, r) ==
    [ast |-> "setop", fn |-> fn, distinct |-> distinct, left |-> l, right |-> r, order |-> <<>>, limit |-> None]

\* The generated names: one per subquery, window or HAVING aggregate (bound: three of each).
SqName == <<"_sq1", "_sq2", "_sq3">>
SqKeyName == <<"_sq1_k", "_sq2_k", "_sq3_k">>
WfName == <<"_wf1", "_wf2", "_wf3">>
QfName == <<"_qf1", "_qf2", "_qf3">>
HvName == <<"_hv1", "_hv2", "_hv3">>

EmptyMap == [x \in {} |-> x]
Distinctly(s) ==
    LET first == SelectSeq([i \in DOMAIN s |-> i], LAMBDA i : \A j \in 1..(i - 1) : s[j] # s[i])
    IN [i \in DOMAIN first |-> s[first[i]]]
Subqueries == {"insub", "exists", "scalar"}
Bare(name) == Col("", name)

----------------------------------------------------------------------------
(***************************************************************************)
(* Expressions (_expr, _not, _between, _case).                             *)
(***************************************************************************)

\* _between: the arguments are lowered.
Between(fn, e, lo, hi) ==
    LET cmp(sign, bound) == Op("compare", sign, <<e, bound>>)
    IN IF fn = "" THEN And(cmp(">=", lo), cmp("<=", hi))
       ELSE Op("or", "", <<cmp("<", lo), cmp(">", hi)>>)
\* _case, with an operand (the first argument): each WHEN is an equality with it.
SimpleCase(all) ==
    Op("case", "", [i \in 1..(Len(all) - 1) |->
                      IF i % 2 = 1 /\ i < Len(all) - 1 THEN Eq(all[1], all[i + 1]) ELSE all[i + 1]])
\* _not: the kinds of expression a NOT goes into.
NotFolds(e) == e.op \in {"in", "between", "isnull"}

RECURSIVE Lower(_)
Lower(e) ==
    LET all == [i \in DOMAIN e.args |-> Lower(e.args[i])]
    IN CASE e.op = "between" -> Between(e.fn, all[1], all[2], all[3])
         [] e.op = "not" /\ NotFolds(e.args[1]) -> Lower([e.args[1] EXCEPT !.fn = "not"])
         [] e.op = "neg" -> Op("arith", "-", <<Lit(0), all[1]>>)
         [] e.op = "casewhen" -> SimpleCase(all)
         [] OTHER -> [e EXCEPT !.args = all]

----------------------------------------------------------------------------
(***************************************************************************)
(* FROM and joins.                                                         *)
(***************************************************************************)

\* The columns of tables, by their names in the schema; a derived table has none.
ColumnsOf(ts) == UNION {ToSet(Schema[t]) : t \in ts \cap DOMAIN Schema}
RefName(ref, ctes) == IF ref.ref = "query" \/ ref.name \in DOMAIN ctes THEN ref.alias ELSE ref.name

RECURSIVE ScanTables(_)
\* _walk_scans
ScanTables(n) ==
    IF n.node = "scan" THEN {n.table}
    ELSE IF n.node = "derived" THEN {}
    ELSE UNION {ScanTables(n.kids[i]) : i \in DOMAIN n.kids}

IsColumnEq(c) == c.op = "compare" /\ c.fn = "=" /\ c.args[1].op = "col" /\ c.args[2].op = "col"

\* _route_join_cols: the sides of l = r as <<name on the left, name on the right>>.
RouteJoinCols(l, r, rname, leftTables) ==
    LET right == ColumnsOf({rname})
        left == ColumnsOf(leftTables)
        forward == <<l.name, r.name>>
        backward == <<r.name, l.name>>
    IN IF r.name \in right /\ r.name \notin left THEN forward
       ELSE IF l.name \in right /\ l.name \notin left THEN backward
       ELSE IF r.name \in right THEN forward
       ELSE IF l.name \in right THEN backward
       ELSE IF l.table = rname THEN backward ELSE forward

\* _join_spec, _join_keys, _common_columns: the join of plan with a source.
JoinOnto(plan, j, source, rname) ==
    LET leftTables == ScanTables(plan)
        common == SetToSeq(ColumnsOf(leftTables) \cap ColumnsOf({rname}))
        parts == IF j.on = None THEN <<>> ELSE SplitAnd(j.on)
        equi == SelectSeq(parts, IsColumnEq)
        rest == SelectSeq(parts, LAMBDA c : ~IsColumnEq(c))
        keys == [i \in DOMAIN equi |-> RouteJoinCols(equi[i].args[1], equi[i].args[2], rname, leftTables)]
        side(k) == [i \in DOMAIN keys |-> keys[i][k]]
        residual == IF rest = <<>> THEN None ELSE Conjoin([i \in DOMAIN rest |-> Lower(rest[i])])
        how == IF j.side = "cross" /\ j.on # None THEN "inner" ELSE j.side
    IN IF j.natural /\ common = <<>> THEN Join(plan, source, <<>>, <<>>, "cross", None, TRUE)
       ELSE IF j.natural THEN Join(plan, source, common, common, how, None, TRUE)
       ELSE IF j.using # <<>> THEN Join(plan, source, j.using, j.using, how, None, TRUE)
       ELSE Join(plan, source, side(1), side(2), how, residual, FALSE)

----------------------------------------------------------------------------
(***************************************************************************)
(* Correlation of a subquery with the query around it.                     *)
(***************************************************************************)

\* _local_aliases: it reads "from", where sqlglot keeps a FROM clause under "from_", so that only
\* joins count; an alias both queries have in FROM is taken for the outer one.
LocalAliases(q) == {q.joins[i].source.alias : i \in DOMAIN q.joins}
Aliases(q) == {q.from.alias} \cup LocalAliases(q)
WhereParts(q) == IF q.where = None THEN <<>> ELSE SplitAnd(q.where)
\* _references_outer
ReferencesOuter(e, outer, local) == \E c \in ColRefs(e) : c.table \in outer \ local
\* _equi_correlation_pair: inner.col = outer.col
IsCorrelationPair(c, outer, local) ==
    IsColumnEq(c) /\ (ReferencesOuter(c.args[1], outer, local) # ReferencesOuter(c.args[2], outer, local))
CorrelationPair(c, outer, local) ==
    LET o == IF ReferencesOuter(c.args[1], outer, local) THEN 1 ELSE 2
    IN [outer |-> c.args[o].name, inner |-> c.args[3 - o]]

\* _classify_correlation: the pairs the subquery's WHERE ties to the outer query, and the rest.
Correlation(q, outer) ==
    LET parts == IF q.ast = "select" THEN WhereParts(q) ELSE <<>>
        tied == SelectSeq(parts, LAMBDA c : ReferencesOuter(c, outer, LocalAliases(q)))
    IN [pairs |-> [i \in DOMAIN tied |-> CorrelationPair(tied[i], outer, LocalAliases(q))],
        local |-> SelectSeq(parts, LAMBDA c : ~ReferencesOuter(c, outer, LocalAliases(q)))]
Correlated(q, outer) == Correlation(q, outer).pairs # <<>>
\* _set_local_where
WithLocalWhere(q, local) == [q EXCEPT !.where = IF local = <<>> THEN None ELSE Conjoin(local)]

\* The conjuncts that become semi and anti joins: IN and correlated EXISTS, or their negations.
Negated(c) == c.op = "not" /\ c.args[1].op \in Subqueries
Bared(c) == IF Negated(c) THEN c.args[1] ELSE c
Folds(c) == Bared(c).op \in {"insub", "exists"}
FoldHow(c) == IF Negated(c) THEN "anti" ELSE "semi"

RECURSIVE OutputCols(_)
\* _subquery_output_cols
OutputCols(n) ==
    CASE n.node \in {"sort", "limit", "setop"} -> OutputCols(n.kids[1])
      [] n.node = "project" -> Names(n.items)
      [] n.node = "aggregate" -> Names(n.group_keys) \o Names(n.aggs)

RECURSIVE CoreAggregate(_)
CoreAggregate(n) == IF n.node \in {"sort", "limit"} THEN CoreAggregate(n.kids[1]) ELSE n

----------------------------------------------------------------------------
(***************************************************************************)
(* Items, aggregates, windows.                                             *)
(***************************************************************************)

OutputName(it) == IF it.as = "" THEN it.e.name ELSE it.as
ProjItem(it) == Item(Lower(it.e), Out(OutputName(it)))
\* _dedup_output_names (bound: a name occurs at most twice)
DedupOutputNames(items) ==
    [i \in DOMAIN items |->
        IF \E j \in 1..(i - 1) : items[j].as = items[i].as THEN Item(items[i].e, <<"_1", items[i].as[2]>>)
        ELSE items[i]]
IsAgg(it) == it.e.op = "agg"
IsKey(it) == it.e.op # "agg"

\* _having_predicate: an aggregate of HAVING is the item that computes it, or one of its own.
HavingOver(h, extra, all) ==
    LET at(a) == CHOOSE i \in DOMAIN all : all[i].e = a /\ \A j \in 1..(i - 1) : all[j].e # a
    IN [extra |-> extra,
        predicate |-> Replace(h, [a \in ToSet(NodesOf(h, "agg")) |-> Bare(all[at(a)].as[2])])]
HavingLowered(h, aggs) ==
    LET own == Distinctly(SelectSeq(NodesOf(h, "agg"), LAMBDA a : a \notin ToSet(Exprs(aggs))))
        extra == [i \in DOMAIN own |-> Item(own[i], Out(HvName[i]))]
    IN HavingOver(h, extra, aggs \o extra)
Having(having, aggs) == HavingLowered(Lower(having), aggs)

\* _grouping_extension_sets: the sets of a ROLLUP, CUBE or GROUPING SETS, each with the plain
\* GROUP BY columns; an item of the extension is a sequence of names.
Flat(items) == ToSet(FlattenSeq(items))
CubeMask(n, m) == {i \in 1..n : (m \div (2 ^ (i - 1))) % 2 = 1}
GroupingSets(group, ext) ==
    LET always == {group[i].name : i \in DOMAIN group}
        n == Len(ext.items)
        present == CASE ext.kind = "rollup" -> [k \in 1..(n + 1) |-> Flat(SubSeq(ext.items, 1, n + 1 - k))]
                     [] ext.kind = "cube" -> [m \in 1..(2 ^ n) |->
                                                UNION {ToSet(ext.items[i]) : i \in CubeMask(n, m - 1)}]
                     [] ext.kind = "sets" -> [k \in 1..n |-> ToSet(ext.items[k])]
    IN [k \in DOMAIN present |-> always \cup present[k]]
\* grouping_value: a bit per argument, the first the most significant, set if it is not grouped.
GroupingValue(present, cols) ==
    LET n == Len(cols)
        weight(i) == 2 ^ (n - i)
        bits[i \in 0..n] == IF i = 0 THEN 0 ELSE bits[i - 1] + IF cols[i].name \in present THEN 0 ELSE weight(i)
    IN bits[n]

\* _build_grouping_extension: a UNION ALL of one aggregate for each grouping set.
GroupingExtension(plan, q) ==
    LET sets == GroupingSets(q.group, q.ext)
        plain == SelectSeq(q.items, LAMBDA it : it.e.op # "grouping")
        lowered == [i \in DOMAIN plain |-> ProjItem(plain[i])]
        aggs == SelectSeq(lowered, IsAgg)
        keys(s) == SelectSeq(lowered, LAMBDA it : IsKey(it) /\ it.e.name \in s)
        item(it, s) == Item(IF it.e.op = "grouping" THEN Lit(GroupingValue(s, it.e.args))
                            ELSE IF it.e.op # "agg" /\ it.e.name \notin s THEN Lit(Null)
                            ELSE Bare(OutputName(it)), Out(OutputName(it)))
        branch(s) == Project(Aggregate(plan, keys(s), aggs), [i \in DOMAIN q.items |-> item(q.items[i], s)])
        union[k \in DOMAIN sets] ==
            IF k = 1 THEN branch(sets[1]) ELSE SetOp(union[k - 1], branch(sets[k]), "union", FALSE)
    IN union[Len(sets)]

\* _build_frame: an ordered aggregate has a frame, RANGE up to the current row by default.
BuildWindow(w) ==
    LET default == Frame("RANGE", FrameBound("UNBOUNDED_PRECEDING", 0), FrameBound("CURRENT_ROW", 0))
        ordered == Len(w.args) > w.parts + 1
    IN Lower(IF w.frame = None /\ ordered THEN [w EXCEPT !.frame = default] ELSE w)

\* _build_window and _build_qualify_predicate: a Window node below the projection, with a filter
\* for QUALIFY; the windows of the items and of QUALIFY become columns.
WindowsOf(items) == Distinctly(FlattenSeq([i \in DOMAIN items |-> NodesOf(items[i].e, "window")]))
WindowedItems(plan, q, funcs, cols) ==
    LET aliased == {i \in DOMAIN q.items : q.items[i].e \in DOMAIN cols}
        byAlias == [c \in {Bare(q.items[i].as) : i \in aliased} |->
                       cols[q.items[CHOOSE i \in aliased : q.items[i].as = c.name].e]]
        win == Window(plan, funcs)
    IN [plan |-> IF q.qualify = None THEN win
                 ELSE Filter(win, Lower(Replace(Replace(q.qualify, cols), byAlias))),
        items |-> [i \in DOMAIN q.items |-> [q.items[i] EXCEPT !.e = Replace(@, cols)]]]
WindowColumns(plan, q, all, names) ==
    WindowedItems(plan, q, [i \in DOMAIN all |-> Item(BuildWindow(all[i]), Out(names[i]))],
                  [w \in ToSet(all) |-> Bare(names[CHOOSE i \in DOMAIN all : all[i] = w])])
WithWindows(plan, q) ==
    LET shown == WindowsOf(q.items)
        inline == IF q.qualify = None THEN <<>> ELSE Distinctly(NodesOf(q.qualify, "window"))
        own == SelectSeq(inline, LAMBDA w : w \notin ToSet(shown))
    IN WindowColumns(plan, q, shown \o own, SubSeq(WfName, 1, Len(shown)) \o SubSeq(QfName, 1, Len(own)))

\* HAVING: a filter of the aggregate, and a projection if it has aggregates of its own.
GroupedHaving(plan, keys, aggs, h) ==
    LET grouped == Filter(Aggregate(plan, keys, aggs \o h.extra), h.predicate)
        named(items) == [i \in DOMAIN items |-> Item(Bare(items[i].as[2]), items[i].as)]
    IN IF h.extra = <<>> THEN grouped ELSE Project(grouped, DedupOutputNames(named(keys) \o named(aggs)))
\* The projection or the aggregate of a select.
ProjectedItems(plan, q, items, keys, aggs) ==
    IF q.having # None THEN GroupedHaving(plan, keys, aggs, Having(q.having, aggs))
    ELSE IF q.group # <<>> \/ aggs # <<>> THEN Aggregate(plan, keys, aggs)
    ELSE IF q.items = <<>> THEN plan
    ELSE Project(plan, DedupOutputNames(items))
Projected(plan, q) ==
    LET items == [i \in DOMAIN q.items |-> ProjItem(q.items[i])]
    IN IF q.ext # None THEN GroupingExtension(plan, q)
       ELSE ProjectedItems(plan, q, items, SelectSeq(items, IsKey), SelectSeq(items, IsAgg))

\* _build_tail: ORDER BY, then LIMIT and OFFSET.
BuildTail(q, plan) ==
    LET sorted == IF q.order = <<>> THEN plan
                  ELSE Sort(plan, [i \in DOMAIN q.order |-> [q.order[i] EXCEPT !.e = Lower(@)]])
    IN IF q.limit = None THEN sorted ELSE Limit(sorted, q.limit.n, q.limit.offset)

----------------------------------------------------------------------------
(***************************************************************************)
(* What the builder refuses: it raises before there is a plan.             *)
(***************************************************************************)

Parts(e) == IF e = None THEN <<>> ELSE <<e>>
IsGrouped(q) == q.group # <<>> \/ q.ext # None \/ q.having # None \/ \E i \in DOMAIN q.items : Has(q.items[i].e, "agg")
Windowed(q) == WindowsOf(q.items) # <<>> \/ (q.qualify # None /\ Has(q.qualify, "window"))

\* _build_one_window, _build_frame: a frame of a rank, LAG or LEAD is ignored.
WindowOk(w) ==
    LET ordered == Len(w.args) > w.parts + 1
        offsets == {"PRECEDING", "FOLLOWING"}
        positioned == w.func \in {"ROW_NUMBER", "RANK", "DENSE_RANK", "LAG", "LEAD"}
    IN /\ positioned => ordered
       /\ ~positioned /\ w.frame # None =>
            /\ ordered
            /\ w.frame.mode = "RANGE" => w.frame.start.kind \notin offsets /\ w.frame.end.kind \notin offsets
            /\ w.func \in {"MIN", "MAX"} => w.frame.start.kind = "UNBOUNDED_PRECEDING"

\* A join has an equality of columns, unless it is CROSS; a column that both sides of a USING
\* join have is one of its keys.
JoinOk(j, tables) ==
    LET shared == ColumnsOf(tables) \cap ColumnsOf({j.source.alias} \cup IF j.source.ref = "table" THEN {j.source.name} ELSE {})
    IN IF j.using # <<>> THEN shared \subseteq ToSet(j.using)
       ELSE j.natural \/ (j.side = "cross" /\ j.on = None) \/ (j.on # None /\ SelectSeq(SplitAnd(j.on), IsColumnEq) # <<>>)
TablesBefore(q, i) == {r.name : r \in {r \in {q.from} \cup {q.joins[k].source : k \in 1..(i - 1)} : r.ref = "table"}}

\* HAVING names group keys and aggregates only.
HavingNames(items, h) ==
    Columns(h.predicate) \subseteq {n[2] : n \in ToSet(Names(items)) \cup ToSet(Names(h.extra))}
HavingOk(q) ==
    LET items == [i \in DOMAIN q.items |-> ProjItem(q.items[i])]
    IN /\ \A s \in Subqueries : ~Has(q.having, s)
       /\ q.group = <<>> => \A i \in DOMAIN items : IsAgg(items[i])
       /\ HavingNames(items, Having(q.having, SelectSeq(items, IsAgg)))

\* Every grouping column is in the SELECT list, and GROUPING names grouping columns.
ExtensionOk(q) ==
    LET sets == GroupingSets(q.group, q.ext)
        dims == {it.e.name : it \in {it \in ToSet(q.items) : it.e.op = "col"}}
        marked == {it \in ToSet(q.items) : it.e.op = "grouping"}
    IN /\ q.having = None /\ q.items # <<>> /\ UNION ToSet(sets) \subseteq dims
       /\ \A it \in marked : {it.e.args[k].name : k \in DOMAIN it.e.args} \subseteq UNION ToSet(sets)

RECURSIVE HasOutputCols(_)
HasOutputCols(q) ==
    IF q.ast = "setop" THEN HasOutputCols(q.left)
    ELSE q.items # <<>> /\ ~q.distinct /\ (q.having # None => Having(q.having, SelectSeq(q.items, IsAgg)).extra # <<>>)
\* _require_global_aggregate
IsGlobalAggregate(q) ==
    q.ast = "select" /\ IsGrouped(q) /\ q.group = <<>> /\ q.ext = None /\ q.having = None /\ ~q.distinct
    /\ \A i \in DOMAIN q.items : IsAgg(q.items[i])

RECURSIVE Supported(_)
\* A subquery of a query with the aliases outer; top: it is a conjunct of WHERE, or its negation.
SubqueryOk(s, outer, top) ==
    LET q == s.query
        select == q.ast = "select"
        elsewhere == Exprs(q.order) \o IF select THEN Exprs(q.items) \o q.group \o Parts(q.having) ELSE <<>>
        tied == SelectSeq(IF select THEN WhereParts(q) ELSE <<>>, LAMBDA c : ReferencesOuter(c, outer, LocalAliases(q)))
    IN /\ \A c \in ToSet(tied) : IsCorrelationPair(c, outer, LocalAliases(q))
       /\ select => \A e \in ToSet(elsewhere) : ~ReferencesOuter(e, outer, LocalAliases(q))
       /\ Supported(q)
       /\ CASE s.op = "insub" -> top /\ tied = <<>> /\ s.args[1].op = "col" /\ HasOutputCols(q)
            [] s.op = "exists" -> tied = <<>> \/ top
            [] s.op = "scalar" -> IsGlobalAggregate(q) /\ IF tied = <<>> THEN Len(q.items) = 1 ELSE Len(tied) = 1

SelectOk(q) ==
    LET tops == {Bared(c) : c \in {c \in ToSet(WhereParts(q)) : Folds(c)}}
        exprs == Parts(q.where) \o Exprs(q.items)
        subs == {e \in UNION {ToSet(Nodes(exprs[i])) : i \in DOMAIN exprs} : e.op \in Subqueries}
        windows == ToSet(WindowsOf(q.items)) \cup IF q.qualify = None THEN {} ELSE ToSet(NodesOf(q.qualify, "window"))
    IN /\ \A i \in DOMAIN q.with : Supported(q.with[i].query)
       /\ \A r \in {q.from} \cup {q.joins[i].source : i \in DOMAIN q.joins} : r.ref = "query" => Supported(r.query)
       /\ \A i \in DOMAIN q.joins : JoinOk(q.joins[i], TablesBefore(q, i))
       /\ \A s \in subs : SubqueryOk(s, Aliases(q), s \in tops)
       /\ IF Windowed(q) THEN q.group = <<>> /\ q.ext = None /\ q.having = None ELSE q.qualify = None
       /\ \A w \in windows : WindowOk(w)
       /\ q.qualify # None => \A s \in Subqueries : ~Has(q.qualify, s)
       /\ q.ext # None => ExtensionOk(q)
       /\ q.ext = None /\ IsGrouped(q) => q.items # <<>>
       /\ q.ext = None /\ q.having # None => HavingOk(q)

Supported(q) ==
    /\ \A i \in DOMAIN q.order : ~Has(q.order[i].e, "agg") /\ ~Has(q.order[i].e, "window")
    /\ IF q.ast = "select" THEN SelectOk(q) ELSE Supported(q.left) /\ Supported(q.right)

----------------------------------------------------------------------------
(***************************************************************************)
(* Queries.                                                                *)
(***************************************************************************)

RECURSIVE BuildQuery(_, _)

\* _table_ref: a table, a common table expression or a subquery.
TableRef(ref, ctes) ==
    IF ref.ref = "query" THEN Derived(BuildQuery(ref.query, ctes), ref.alias)
    ELSE IF ref.name \in DOMAIN ctes THEN Derived(ctes[ref.name], ref.alias)
    ELSE Scan(ref.name, ref.alias)

\* _decorrelate_scalar: a left join with the aggregate, grouped by the inner column of the pair
\* and without the group of NULL.
DecorrelateScalar(st, s, corr, n, ctes) ==
    LET pair == corr.pairs[1]
        core == CoreAggregate(BuildQuery(WithLocalWhere(s.query, corr.local), ctes))
        agg == core.aggs[1]
        key == Out(SqKeyName[n])
        grouped == Aggregate(core.kids[1], <<Item(pair.inner, key)>>, <<agg>>)
        renamed == Project(grouped, <<Item(Bare(agg.as[2]), Out(SqName[n])), Item(Bare(SqKeyName[n]), key)>>)
        right == Filter(renamed, Op("isnull", "not", <<Bare(SqKeyName[n])>>))
        value == Bare(SqName[n])
    IN [plan |-> Join(st.plan, right, <<pair.outer>>, <<SqKeyName[n]>>, "left", None, FALSE), n |-> n,
        map |-> (s :> IF agg.e.func = "COUNT" THEN Op("coalesce", "", <<value, Lit(0)>>) ELSE value) @@ st.map]

\* _flatten_outer_subqueries, for one subquery: joined to the plan, and a column in its place.
Flatten(st, s, outer, ctes) ==
    LET corr == Correlation(s.query, outer)
        n == st.n + 1
        sub == BuildQuery(s.query, ctes)
        cross(right) == Join(st.plan, right, <<>>, <<>>, "cross", None, FALSE)
        count == Aggregate(Limit(sub, 1, 0), <<>>, <<Item(AggFunc("COUNT", Star, FALSE, None), Out(SqName[n]))>>)
        renamed == Project(sub, <<Item(Bare(OutputCols(sub)[1][2]), Out(SqName[n]))>>)
    IN IF s.op = "exists" /\ corr.pairs # <<>> THEN st
       ELSE IF s.op = "exists"
            THEN [plan |-> cross(count), n |-> n,
                  map |-> (s :> Op("compare", ">", <<Bare(SqName[n]), Lit(0)>>)) @@ st.map]
       ELSE IF corr.pairs = <<>>
            THEN [plan |-> cross(renamed), n |-> n, map |-> (s :> Bare(SqName[n])) @@ st.map]
       ELSE DecorrelateScalar(st, s, corr, n, ctes)

\* _apply_where_subqueries, for one conjunct: a semi or anti join on the IN key or on the pairs
\* of an EXISTS, whose items become the inner columns of the pairs.
FoldJoin(plan, right, onl, how) ==
    Join(plan, right, onl, [i \in DOMAIN OutputCols(right) |-> OutputCols(right)[i][2]], how, None, FALSE)
FoldSubquery(plan, s, corr, how, ctes) ==
    LET keyed == [WithLocalWhere(s.query, corr.local) EXCEPT
                    !.items = [i \in DOMAIN corr.pairs |-> Item(corr.pairs[i].inner, "")]]
    IN IF s.op = "insub" THEN FoldJoin(plan, BuildQuery(s.query, ctes), <<s.args[1].name>>, how)
       ELSE FoldJoin(plan, BuildQuery(keyed, ctes), [i \in DOMAIN corr.pairs |-> corr.pairs[i].outer], how)
FoldConjunct(plan, c, outer, ctes) ==
    FoldSubquery(plan, Bared(c), Correlation(Bared(c).query, outer), FoldHow(c), ctes)

\* The loops of _build_select: over WITH, the joins, the subqueries, the conjuncts.
RECURSIVE BuildCtes(_, _)
BuildCtes(ctes, with) ==
    IF with = <<>> THEN ctes
    ELSE BuildCtes((Head(with).name :> BuildQuery(Head(with).query, ctes)) @@ ctes, Tail(with))
RECURSIVE BuildJoins(_, _, _)
BuildJoins(plan, joins, ctes) ==
    LET j == Head(joins)
    IN IF joins = <<>> THEN plan
       ELSE BuildJoins(JoinOnto(plan, j, TableRef(j.source, ctes), RefName(j.source, ctes)), Tail(joins), ctes)
RECURSIVE FlattenAll(_, _, _, _)
FlattenAll(st, subs, outer, ctes) ==
    IF subs = <<>> THEN st ELSE FlattenAll(Flatten(st, Head(subs), outer, ctes), Tail(subs), outer, ctes)
RECURSIVE FoldConjuncts(_, _, _, _)
FoldConjuncts(plan, parts, outer, ctes) ==
    IF parts = <<>> THEN plan
    ELSE FoldConjuncts(FoldConjunct(plan, Head(parts), outer, ctes), Tail(parts), outer, ctes)

\* The subqueries that become columns, each once, and the query with the columns in their place.
FlattenedOf(q) ==
    LET exprs == (IF q.where = None THEN <<>> ELSE <<q.where>>) \o Exprs(q.items)
        nested == FlattenSeq([i \in DOMAIN exprs |-> Nodes(exprs[i])])
    IN Distinctly(SelectSeq(nested, LAMBDA e : e.op \in {"exists", "scalar"}))
Substituted(q, map) ==
    [q EXCEPT !.where = IF @ = None THEN @ ELSE Replace(@, map),
              !.items = [i \in DOMAIN @ |-> [@[i] EXCEPT !.e = Replace(@, map)]]]

WithFilter(plan, parts) ==
    IF parts = <<>> THEN plan ELSE Filter(plan, Conjoin([i \in DOMAIN parts |-> Lower(parts[i])]))
Filtered(q, plan, ctes) ==
    LET parts == WhereParts(q)
    IN WithFilter(FoldConjuncts(plan, SelectSeq(parts, Folds), Aliases(q), ctes), SelectSeq(parts, LAMBDA c : ~Folds(c)))
OverWindows(q, w) == Projected(w.plan, [q EXCEPT !.items = w.items])
SelectList(q, plan) ==
    IF WindowsOf(q.items) = <<>> /\ q.qualify = None THEN Projected(plan, q) ELSE OverWindows(q, WithWindows(plan, q))
Deduplicated(q, plan) == IF q.distinct THEN Distinct(plan) ELSE plan
\* From the subqueries on: st has the plan and the columns that replace them.
BuildFlattened(q, st, ctes) ==
    LET plain == Substituted(q, st.map)
    IN BuildTail(q, Deduplicated(q, SelectList(plain, Filtered(plain, st.plan, ctes))))
BuildFrom(q, from, ctes) ==
    BuildFlattened(q, FlattenAll([plan |-> from, n |-> 0, map |-> EmptyMap], FlattenedOf(q), Aliases(q), ctes), ctes)
BuildIn(q, ctes) == BuildFrom(q, BuildJoins(TableRef(q.from, ctes), q.joins, ctes), ctes)
\* _build_select
BuildSelect(q, scope) == BuildIn(q, BuildCtes(scope, q.with))

\* _build_query, _build_setop
BuildQuery(q, ctes) ==
    IF q.ast = "select" THEN BuildSelect(q, ctes)
    ELSE BuildTail(q, SetOp(BuildQuery(q.left, ctes), BuildQuery(q.right, ctes), q.fn, q.distinct))

Build(q) == BuildQuery(q, EmptyMap)
=============================================================================
