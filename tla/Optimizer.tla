----------------------------- MODULE Optimizer ------------------------------
(***************************************************************************)
(* The rule-based optimizer (ryudb/sql/optimize.py): predicate pushdown,   *)
(* projection pruning, join-side selection, in this order.  Row counts are *)
(* small, so the caps on estimates are left out.                           *)
(***************************************************************************)
EXTENDS Plan

Rebuilt(n, kids) == [n EXCEPT !.kids = kids]

----------------------------------------------------------------------------
(***************************************************************************)
(* Predicate pushdown.                                                     *)
(***************************************************************************)

\* col_to_tables
TablesWith(col) == {t \in DOMAIN Schema : col \in ToSet(Schema[t])}

RECURSIVE SubtreeTables(_)
\* subtree_tables: the tables of a subtree in this scope; a subquery in FROM is opaque.
SubtreeTables(n) ==
    IF n.node = "scan" THEN {n.table}
    ELSE IF n.node = "derived" THEN {}
    ELSE UNION {SubtreeTables(n.kids[i]) : i \in DOMAIN n.kids}

RECURSIVE Insert(_, _)
\* insert: the conjuncts of each table in the domain of per go right above its scan.
Insert(n, per) ==
    LET only(kid) == [t \in DOMAIN per \cap SubtreeTables(kid) |-> per[t]]
    IN CASE n.node = "scan" -> IF n.table \in DOMAIN per THEN Filter(n, Conjoin(per[n.table])) ELSE n
         [] n.node = "derived" -> n
         [] n.node \in {"join", "setop"} -> Rebuilt(n, [i \in DOMAIN n.kids |-> Insert(n.kids[i], only(n.kids[i]))])
         [] OTHER -> Rebuilt(n, [i \in DOMAIN n.kids |-> Insert(n.kids[i], per)])

PushableBothSides(j) ==
    LET l == SubtreeTables(j.kids[1])
        r == SubtreeTables(j.kids[2])
    IN CASE j.how \in {"left", "right", "inner"} -> l \cup r
         [] j.how \in {"semi", "anti"} -> l
         [] j.how \in {"full", "cross"} -> {}

\* The tables below a join into which its kind lets a conjunct go.
PushableSides(j) ==
    LET l == SubtreeTables(j.kids[1])
        r == SubtreeTables(j.kids[2])
    IN CASE j.how \in {"left", "semi", "anti"} -> l
         [] j.how = "right" -> r
         [] j.how = "inner" -> l \cup r
         [] j.how \in {"full", "cross"} -> {}

\* The table a conjunct above a join is pushed to, or None: it names one table, on one side,
\* and only columns of tables.
RouteConjunct(c, j) ==
    LET l == SubtreeTables(j.kids[1])
        r == SubtreeTables(j.kids[2])
        ts == UNION {TablesWith(col) : col \in Columns(c)} \cap (l \cup r)
    IN IF (\E col \in Columns(c) : TablesWith(col) = {}) \/ ts \cap l \cap r # {} \/ Cardinality(ts) # 1
       THEN None
       ELSE LET t == CHOOSE t \in ts : TRUE IN IF t \in PushableSides(j) THEN t ELSE None

PushBelow(n) ==
    LET j == n.kids[1]
        parts == SplitAnd(n.predicate)
        routed(t) == SelectSeq(parts, LAMBDA c : RouteConjunct(c, j) = t)
        targets == {RouteConjunct(parts[i], j) : i \in DOMAIN parts} \ {None}
        pushed == Insert(j, [t \in targets |-> routed(t)])
    IN IF targets = {} THEN n
       ELSE IF routed(None) = <<>> THEN pushed ELSE Filter(pushed, Conjoin(routed(None)))

RECURSIVE PushPredicates(_)
PushPredicates(n) ==
    LET m == Rebuilt(n, [i \in DOMAIN n.kids |-> PushPredicates(n.kids[i])])
    IN IF m.node = "filter" /\ m.kids[1].node = "join" THEN PushBelow(m) ELSE m

----------------------------------------------------------------------------
(***************************************************************************)
(* Projection pruning.                                                     *)
(***************************************************************************)

ReferencedWithoutKeys(plan) ==
    UNION {UNION {Columns(ExprsIn(n)[i]) : i \in DOMAIN ExprsIn(n)} : n \in Walk(plan)}

\* _all_referenced_columns
AllReferencedColumns(plan) ==
    LET of(n) == UNION {Columns(ExprsIn(n)[i]) : i \in DOMAIN ExprsIn(n)}
        keys(n) == IF n.node = "join" THEN ToSet(n.on_left) \cup ToSet(n.on_right) ELSE {}
    IN UNION {of(n) \cup keys(n) : n \in Walk(plan)}

RECURSIVE PruneScans(_, _)
PruneScans(n, referenced) ==
    IF n.node = "scan" THEN [n EXCEPT !.columns = referenced \cap ToSet(Schema[n.table])]
    ELSE Rebuilt(n, [i \in DOMAIN n.kids |-> PruneScans(n.kids[i], referenced)])

\* prune_projections: a plan without a projection or an aggregate is a SELECT *.
PruneProjections(plan) ==
    LET referenced == AllReferencedColumns(plan)
        starMode == ~\E n \in Walk(plan) : n.node \in {"project", "aggregate"}
    IN IF starMode \/ referenced = {} THEN plan ELSE PruneScans(plan, referenced)

----------------------------------------------------------------------------
(***************************************************************************)
(* Join-side selection.                                                    *)
(***************************************************************************)

RECURSIVE EstRows(_, _)
EstRows(n, stats) ==
    LET est(i) == EstRows(n.kids[i], stats)
    IN CASE n.node = "scan" -> stats[n.table]
         [] n.node = "join" -> est(1) * est(2)
         [] n.node = "setop" -> est(1) + est(2)
         [] OTHER -> est(1)

\* Swapping the sides of an outer join swaps which side it preserves.
Swapped(how) == CASE how = "left" -> "right"
                  [] how = "right" -> "left"
                  [] OTHER -> how

RECURSIVE SelectJoinSides(_, _)
SelectJoinSides(n, stats) ==
    LET m == Rebuilt(n, [i \in DOMAIN n.kids |-> SelectJoinSides(n.kids[i], stats)])
        swap == /\ m.node = "join" /\ m.how \notin {"semi", "anti"}
                /\ EstRows(m.kids[2], stats) < EstRows(m.kids[1], stats)
    IN IF swap THEN Join(m.kids[2], m.kids[1], m.on_right, m.on_left, Swapped(m.how), m.on_predicate, m.using)
       ELSE m
=============================================================================
