------------------------------ MODULE MCQuery -------------------------------
(***************************************************************************)
(* Queries and databases for TLC.  A.k and B.w may be NULL, B.j and D.k    *)
(* may not; A and D share the column k.                                    *)
(***************************************************************************)
EXTENDS Query

Tables == [A |-> <<"k", "v">>, B |-> <<"j", "w">>, D |-> <<"k", "y">>]

RowA(k, v) == [k |-> k, v |-> v]
RowB(j, w) == [j |-> j, w |-> w]
RowD(k, y) == [k |-> k, y |-> y]
DbsA == {<<>>, <<RowA(1, 2)>>, <<RowA(1, 1), RowA(Null, 2)>>, <<RowA(2, 1), RowA(2, 1)>>,
         <<RowA(2, 2), RowA(1, 1), RowA(2, 1)>>, <<RowA(Null, 1), RowA(1, 2), RowA(Null, 2)>>}
DbsB == {<<>>, <<RowB(1, Null)>>, <<RowB(1, 2), RowB(2, Null)>>, <<RowB(1, 1), RowB(1, 2), RowB(3, 1)>>}
DbsD == {<<>>, <<RowD(1, 2), RowD(2, 1)>>}
MCDatabases == {[A |-> a, B |-> b, D |-> d] : a \in DbsA, b \in DbsB, d \in DbsD}
\* Either side of each join may look the smaller.
MCStatistics == {[A |-> 1, B |-> 2, D |-> 3], [A |-> 3, B |-> 2, D |-> 1]}

----------------------------------------------------------------------------
K == Bare("k")
V == Bare("v")
W == Bare("w")
J == Bare("j")
Y == Bare("y")
Cmp(fn, l, r) == Op("compare", fn, <<l, r>>)
Or(l, r) == Op("or", "", <<l, r>>)
Not(e) == Op("not", "", <<e>>)
IsNull(e) == Op("isnull", "", <<e>>)
Arithm(fn, l, r) == Op("arith", fn, <<l, r>>)
Agg(func, e) == AggFunc(func, e, FALSE, None)
CountStar == Agg("COUNT", Star)
InQuery(e, q) == [op |-> "insub", args |-> <<e>>, query |-> q]
Exists(q) == [op |-> "exists", args |-> <<>>, query |-> q]
Scalar(q) == [op |-> "scalar", args |-> <<>>, query |-> q]
Grouping(cols) == [op |-> "grouping", args |-> cols]
It(e) == Item(e, "")
Show(q, items) == [q EXCEPT !.items = items]
Where(q, e) == [q EXCEPT !.where = e]
OrderBy(q, keys) == [q EXCEPT !.order = keys]
Cut(q, n, offset) == [q EXCEPT !.limit = [n |-> n, offset |-> offset]]
GroupBy(q, group) == [q EXCEPT !.group = group]
JoinTo(q, j) == [q EXCEPT !.joins = Append(@, j)]

FromA == Select(Table("A", "a"))
FromB == Select(Table("B", "b"))
FromD == Select(Table("D", "d"))
TableB == Table("B", "b")
TableD == Table("D", "d")
OnKJ == Eq(Col("a", "k"), Col("b", "j"))
AB(side, on) == JoinTo(FromA, JoinClause(TableB, side, on))

\* Filters, expressions, order, limits.
SimpleQueries ==
    {Cut(OrderBy(Where(Show(FromA, <<It(K), It(V)>>), Or(Cmp("=", K, Lit(1)), IsNull(K))), <<Key(V, FALSE)>>), 1, 1),
     Where(Show(FromA, <<It(V), Item(Op("casewhen", "", <<K, Lit(1), Lit(10), Op("coalesce", "", <<K, Lit(0)>>)>>), "e")>>),
           Not(Op("between", "", <<V, Lit(2), Lit(3)>>))),
     Where(Show(FromA, <<It(K)>>), Not(Op("in", "", <<K, Lit(1), Lit(3)>>))),
     OrderBy([Show(FromA, <<It(K)>>) EXCEPT !.distinct = TRUE], <<Key(K, FALSE)>>),
     OrderBy(Show(FromA, <<Item(Op("neg", "", <<V>>), "n"), Item(Arithm("%", V, Lit(2)), "p")>>),
             <<Key(Bare("p"), TRUE), Key(Arithm("+", K, V), FALSE)>>),
     OrderBy(Where(FromA, Cmp(">", V, Lit(1))), <<Key(V, TRUE)>>)}

\* Joins of every kind, with residual conditions, filters on either side, shared columns.
JoinSides == {"inner", "left", "right", "full"}
JoinOns == {OnKJ, And(OnKJ, Cmp(">", W, Lit(1))), And(Cmp("<", V, W), OnKJ)}
JoinWheres == {Cmp("=", V, Lit(1)), Cmp("=", W, Lit(2)), IsNull(W), IsNull(V), Or(Cmp("=", V, Lit(1)), Cmp("=", W, Lit(2))),
               And(And(Cmp(">", V, Lit(0)), Cmp("=", Lit(2), W)), Not(Cmp("=", V, W)))}
JoinQueries ==
    {Where(Show(AB(side, on), <<It(K), It(V), It(J), It(W)>>), where) : side \in JoinSides, on \in JoinOns, where \in JoinWheres}
SharedQueries ==
    {Where(Show(AB("cross", None), <<It(V), It(W)>>), Cmp("<", V, W)),
     Show(JoinTo(FromA, [JoinClause(TableD, "inner", None) EXCEPT !.using = <<"k">>]), <<It(K), It(V), It(Y)>>),
     Show(JoinTo(FromA, [JoinClause(TableD, "full", None) EXCEPT !.natural = TRUE]), <<It(K), It(V), It(Y)>>),
     OrderBy(Show(JoinTo(FromA, JoinClause(TableD, "inner", Eq(Col("a", "k"), Col("d", "k")))),
                  <<It(Col("a", "k")), It(Col("d", "k")), It(V), It(Y)>>), <<Key(Col("d", "k"), FALSE)>>),
     Show(JoinTo(FromA, JoinClause(Table("A", "a2"), "left", Eq(Col("a", "v"), Col("a2", "v")))),
          <<Item(Col("a", "k"), "p"), Item(Col("a2", "k"), "q")>>),
     Where(Show(JoinTo(AB("inner", OnKJ),
                       JoinClause(FromQuery(Show(FromD, <<Item(K, "m"), Item(Y, "z")>>), "t"), "left", Eq(J, Bare("m")))),
                <<It(V), It(W), It(Bare("z"))>>), Or(IsNull(Bare("z")), Cmp("=", V, Lit(1))))}

\* Subqueries, which the builder turns into joins.
SubqueryQueries ==
    {Where(Show(FromA, <<It(K), It(V)>>), InQuery(K, Where(Show(FromB, <<It(J)>>), Cmp(">", W, Lit(1))))),
     Where(Show(FromA, <<It(K), It(V)>>), And(Not(InQuery(V, Show(FromB, <<It(J)>>))), Cmp(">", V, Lit(0)))),
     Where(Show(FromA, <<It(K), It(V)>>), Exists(Where(Show(FromB, <<It(W)>>), And(Eq(Col("b", "j"), Col("a", "k")), Cmp("=", W, Lit(1)))))),
     Where(Show(FromA, <<It(K), It(V)>>), Not(Exists(Where(Show(FromB, <<It(W)>>), Eq(Col("a", "k"), Col("b", "j")))))),
     Where(Show(FromA, <<It(K)>>), Or(Cmp("=", V, Lit(1)), Exists(Where(Show(FromB, <<It(J)>>), Cmp("=", W, Lit(1)))))),
     Where(Show(FromA, <<It(K)>>), Cmp(">", V, Scalar(Show(FromB, <<Item(Agg("MIN", W), "m")>>))))}
\* The aggregates of the rows of B tied to a row of A, shown and compared.
ScalarAggs == {CountStar, Agg("COUNT", W), Agg("SUM", W), Agg("MAX", W), AggFunc("COUNT", W, TRUE, None)}
Tied == Eq(Col("b", "j"), Col("a", "k"))
TiedWheres == {Tied, And(Cmp(">", W, Lit(1)), Tied)}
TiedScalars == {Scalar(Where(Show(FromB, <<Item(agg, "c")>>), where)) : agg \in ScalarAggs, where \in TiedWheres}
ScalarQueries ==
    {Show(FromA, <<It(K), Item(s, "n")>>) : s \in TiedScalars}
    \cup {Where(Show(FromA, <<It(K), It(V)>>), Or(Cmp("=", V, s), IsNull(s))) : s \in TiedScalars}

\* Groups, grouping sets.
GroupQueries ==
    {[GroupBy(Show(FromA, <<It(K), Item(Agg("SUM", V), "s"), Item(CountStar, "n")>>), <<K>>) EXCEPT !.having = Cmp(">", CountStar, Lit(1))],
     [GroupBy(Show(FromA, <<Item(K, "g"), Item(CountStar, "n")>>), <<K>>) EXCEPT
         !.having = And(Cmp(">", Agg("MAX", V), Lit(1)), Cmp("<", Bare("n"), Lit(2)))],
     Where(Show(FromA, <<Item(CountStar, "n"), Item(Agg("MIN", V), "m"), Item(AggFunc("COUNT", K, TRUE, None), "d")>>), Cmp(">", V, Lit(1))),
     GroupBy(Where(Show(FromA, <<It(K), Item(AggFunc("SUM", V, FALSE, Cmp(">", V, Lit(1))), "s"), Item(CountStar, "n")>>), Cmp("<", V, Lit(3))), <<K>>),
     GroupBy(Where(Show(FromB, <<It(J), Item(Agg("COUNT", W), "n")>>), Not(Cmp("=", W, Lit(2)))), <<J>>),
     [Show(FromA, <<It(K), It(V), Item(CountStar, "n"), Item(Grouping(<<K, V>>), "g")>>) EXCEPT
         !.ext = [kind |-> "rollup", items |-> <<<<"k">>, <<"v">>>>]],
     [Show(FromB, <<It(J), It(W), Item(Agg("COUNT", W), "n")>>) EXCEPT !.ext = [kind |-> "cube", items |-> <<<<"j">>, <<"w">>>>]],
     [Show(FromA, <<It(K), It(V), Item(Agg("MAX", V), "m")>>) EXCEPT
         !.group = <<K>>, !.ext = [kind |-> "sets", items |-> <<<<"v">>, <<>>>>]]}

\* Windows.
Over(func, arg, part, order, asc, frame) == WindowFunc(func, arg, part, order, asc, frame, 1, None)
Starts == {FrameBound("UNBOUNDED_PRECEDING", 0), FrameBound("PRECEDING", 2), FrameBound("CURRENT_ROW", 0), FrameBound("FOLLOWING", 1)}
Ends == {FrameBound("UNBOUNDED_FOLLOWING", 0), FrameBound("PRECEDING", 1), FrameBound("CURRENT_ROW", 0), FrameBound("FOLLOWING", 1)}
Frames == {Frame("ROWS", start, end) : start \in Starts, end \in Ends}
          \cup {Frame("RANGE", start, end) : start \in {b \in Starts : b.n = 0}, end \in {b \in Ends : b.n = 0}}
\* In a total order of the rows, or of their peers.
FrameQueries ==
    {Show(FromA, <<It(K), It(V), Item(Over(func, V, part, <<V, K>>, <<asc, TRUE>>, frame), "s")>>) :
        func \in {"SUM", "COUNT"}, part \in {<<>>, <<K>>}, asc \in BOOLEAN, frame \in Frames}
\* MIN and MAX run from the start of the partition, over arguments that are known or in one partition.
RunningQueries ==
    LET ends == {FrameBound("CURRENT_ROW", 0), FrameBound("FOLLOWING", 1), FrameBound("UNBOUNDED_FOLLOWING", 0)}
        frames == {None} \cup {Frame("ROWS", FrameBound("UNBOUNDED_PRECEDING", 0), end) : end \in ends}
    IN {Show(FromA, <<It(K), It(V), Item(Over(func, e[1], e[2], <<V, K>>, <<asc, TRUE>>, frame), "m")>>) :
           func \in {"MIN", "MAX"}, e \in {<<V, <<K>>>>, <<K, <<>>>>}, asc \in BOOLEAN, frame \in frames}
WindowQueries ==
    {Show(FromA, <<It(K), It(V), Item(Over("SUM", V, <<K>>, <<V>>, <<TRUE>>, None), "s"), Item(Over("RANK", Star, <<>>, <<V>>, <<FALSE>>, None), "r")>>),
     Show(FromA, <<It(K), It(V), Item(Over("MAX", V, <<K>>, <<>>, <<>>, None), "m"),
                   Item(WindowFunc("LAG", V, <<K>>, <<V>>, <<TRUE>>, None, 1, 0), "l")>>),
     Show(FromA, <<It(K), It(V), Item(Over("RANK", Star, <<K>>, <<V>>, <<TRUE>>, Frame("RANGE", FrameBound("PRECEDING", 1), FrameBound("CURRENT_ROW", 0))), "r")>>),
     [Show(FromA, <<It(K), It(V), Item(Over("ROW_NUMBER", Star, <<K>>, <<V>>, <<TRUE>>, None), "r")>>) EXCEPT
         !.qualify = And(Cmp("=", Bare("r"), Lit(1)), Cmp("=", Over("DENSE_RANK", Star, <<>>, <<V>>, <<TRUE>>, None), Lit(1)))]}

\* Set operators, common table expressions.
CombinedQueries ==
    {OrderBy(SetQuery("union", TRUE, Show(FromA, <<It(K)>>), Show(FromB, <<It(W)>>)), <<Key(K, FALSE)>>),
     Cut(OrderBy(SetQuery("union", FALSE, Show(FromA, <<It(V)>>), Show(FromB, <<It(J)>>)), <<Key(V, TRUE)>>), 2, 1),
     SetQuery("intersect", TRUE, Show(FromA, <<It(K)>>), Show(FromB, <<It(W)>>)),
     SetQuery("except", TRUE, Show(FromA, <<It(K)>>), Show(FromB, <<It(J)>>)),
     [Where(Show(JoinTo(Select(Table("t", "t")), JoinClause(TableB, "inner", Eq(Col("t", "g"), Col("b", "j")))),
                 <<It(Bare("s")), It(W)>>), Cmp(">", Bare("s"), Lit(1))) EXCEPT
         !.with = <<[name |-> "t", query |-> GroupBy(Show(FromA, <<Item(K, "g"), Item(Agg("SUM", V), "s")>>), <<K>>)]>>]}

\* Queries the builder refuses.
RefusedQueries ==
    {GroupBy(Show(FromA, <<It(K), Item(Over("SUM", V, <<>>, <<>>, <<>>, None), "s")>>), <<K>>),
     Where(Show(FromA, <<It(K)>>), InQuery(K, Where(Show(FromB, <<It(J)>>), Eq(Col("b", "w"), Col("a", "v")))))}

\* A LEFT JOIN below a join with a derived table, filtered on the side it pads with NULLs.
PushdownQueries ==
    {Where(Show(JoinTo(JoinTo(FromD, JoinClause(TableB, "left", Eq(Col("d", "k"), Col("b", "j")))),
                       JoinClause(FromQuery(Show(FromA, <<Item(V, "m")>>), "t"), "inner", Eq(Y, Bare("m")))),
                <<It(K), It(W)>>), IsNull(W))}

Suite == SimpleQueries \cup JoinQueries \cup SharedQueries \cup SubqueryQueries \cup ScalarQueries
         \cup FrameQueries \cup RunningQueries \cup GroupQueries \cup WindowQueries
         \cup CombinedQueries \cup RefusedQueries
=============================================================================
