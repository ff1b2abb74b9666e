------------------------------- MODULE Plan ---------------------------------
(***************************************************************************)
(* Logical plans and their expressions (ryudb/sql/plan.py).                *)
(*                                                                         *)
(* An expression is a record with its kind in op and its operands in args; *)
(* a plan node has its kind in node and its inputs in kids, so that the    *)
(* traversals below need no case per class.  A column of a frame is a pair *)
(* <<qualifier, name>>: the qualifier is "" for a plain name, the alias in *)
(* a column a join renamed to {alias}__{name}, and "_1" in a repeated      *)
(* output name {name}_1.                                                   *)
(***************************************************************************)
EXTENDS Integers, FiniteSets, Sequences, SequencesExt, FiniteSetsExt

CONSTANTS
    Null,     \* SQL NULL
    None,     \* an absent part
    Missing,  \* what a column no frame has evaluates to: a KeyError
    Schema    \* [tables -> sequence of column names]

----------------------------------------------------------------------------
(***************************************************************************)
(* Expressions.                                                            *)
(***************************************************************************)

Col(table, name) == [op |-> "col", args |-> <<>>, table |-> table, name |-> name]
Lit(value) == [op |-> "lit", args |-> <<>>, value |-> value]
Star == [op |-> "star", args |-> <<>>]
\* BinOp, And, Or, Not, IsNull, In, Case, Coalesce: fn is the operator or "not" for the
\* negated form; Case has <<condition, value, ..., default>>.
Op(op, fn, args) == [op |-> op, fn |-> fn, args |-> args]
And(l, r) == Op("and", "", <<l, r>>)
Eq(l, r) == Op("compare", "=", <<l, r>>)
\* The filter of an aggregate, if any, is its second operand.
AggFunc(func, arg, distinct, filter) ==
    [op |-> "agg", func |-> func, distinct |-> distinct,
     args |-> IF filter = None THEN <<arg>> ELSE <<arg, filter>>]

FrameBound(kind, n) == [kind |-> kind, n |-> n]
Frame(mode, start, end) == [mode |-> mode, start |-> start, end |-> end]
\* Operands: the partition keys, the order keys, the argument.
WindowFunc(func, arg, part, order, asc, frame, offset, default) ==
    [op |-> "window", func |-> func, args |-> part \o order \o <<arg>>, parts |-> Len(part),
     asc |-> asc, frame |-> frame, offset |-> offset, default |-> default]
PartitionKeys(wf) == SubSeq(wf.args, 1, wf.parts)
OrderKeys(wf) == SubSeq(wf.args, wf.parts + 1, Len(wf.args) - 1)
WindowArg(wf) == wf.args[Len(wf.args)]

RECURSIVE Nodes(_)
\* e and the expressions in it, outermost first.
Nodes(e) == <<e>> \o FlattenSeq([i \in DOMAIN e.args |-> Nodes(e.args[i])])
NodesOf(e, op) == LET is(x) == x.op = op IN SelectSeq(Nodes(e), is)
Has(e, op) == NodesOf(e, op) # <<>>
ColRefs(e) == ToSet(NodesOf(e, "col"))
\* Expr.columns: bare names.
Columns(e) == {c.name : c \in ColRefs(e)}

RECURSIVE Replace(_, _)
\* e with each expression in the domain of m replaced by its image.
Replace(e, m) ==
    IF e \in DOMAIN m THEN m[e]
    ELSE [e EXCEPT !.args = [i \in DOMAIN e.args |-> Replace(e.args[i], m)]]

RECURSIVE SplitAnd(_)
SplitAnd(e) == IF e.op = "and" THEN SplitAnd(e.args[1]) \o SplitAnd(e.args[2]) ELSE <<e>>
RECURSIVE Conjoin(_)
Conjoin(parts) == IF Len(parts) = 1 THEN parts[1] ELSE And(Conjoin(Front(parts)), Last(parts))

----------------------------------------------------------------------------
(***************************************************************************)
(* Plan nodes.  An item is [e, as]: an expression and an output column; a  *)
(* sort key is [e, asc].                                                   *)
(***************************************************************************)

Scan(table, alias) == [node |-> "scan", kids |-> <<>>, table |-> table, alias |-> alias, columns |-> None]
Filter(in, predicate) == [node |-> "filter", kids |-> <<in>>, predicate |-> predicate]
Project(in, items) == [node |-> "project", kids |-> <<in>>, items |-> items]
Join(l, r, onl, onr, how, predicate, using) ==
    [node |-> "join", kids |-> <<l, r>>, on_left |-> onl, on_right |-> onr, how |-> how,
     on_predicate |-> predicate, using |-> using]
Aggregate(in, keys, aggs) == [node |-> "aggregate", kids |-> <<in>>, group_keys |-> keys, aggs |-> aggs]
Window(in, funcs) == [node |-> "window", kids |-> <<in>>, funcs |-> funcs]
Sort(in, keys) == [node |-> "sort", kids |-> <<in>>, keys |-> keys]
Limit(in, n, offset) == [node |-> "limit", kids |-> <<in>>, n |-> n, offset |-> offset]
Distinct(in) == [node |-> "distinct", kids |-> <<in>>]
Derived(in, alias) == [node |-> "derived", kids |-> <<in>>, alias |-> alias]
SetOp(l, r, fn, distinct) == [node |-> "setop", kids |-> <<l, r>>, fn |-> fn, distinct |-> distinct]

Item(e, as) == [e |-> e, as |-> as]
Key(e, asc) == [e |-> e, asc |-> asc]
\* An output column with a plain name.
Out(name) == <<"", name>>

RECURSIVE Walk(_)
\* walk: the nodes of a plan.
Walk(n) == {n} \cup UNION {Walk(n.kids[i]) : i \in DOMAIN n.kids}

Exprs(items) == [i \in DOMAIN items |-> items[i].e]
Names(items) == [i \in DOMAIN items |-> items[i].as]
\* exprs_in: the expressions a node evaluates.
ExprsIn(n) ==
    CASE n.node = "filter"    -> <<n.predicate>>
      [] n.node = "project"   -> Exprs(n.items)
      [] n.node = "aggregate" -> Exprs(n.group_keys) \o Exprs(n.aggs)
      [] n.node = "sort"      -> Exprs(n.keys)
      [] n.node = "window"    -> Exprs(n.funcs)
      [] n.node = "join" /\ n.on_predicate # None -> <<n.on_predicate>>
      [] OTHER -> <<>>
=============================================================================
