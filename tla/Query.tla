------------------------------- MODULE Query --------------------------------
(***************************************************************************)
(* A query on its way through the engine: built into a plan (parse.py),    *)
(* rewritten by the three passes of the optimizer (optimize.py) and        *)
(* executed (executor.py _exec).  The answer must be SQL's, and stay it    *)
(* after every pass.                                                       *)
(***************************************************************************)
EXTENDS SqlReference, Relational, Optimizer

CONSTANTS
    Queries,      \* parsed queries
    Databases,    \* [tables -> sequence of rows, each [columns -> values]]
    Statistics    \* [tables -> row count], as the catalog has them: they may be stale

VARIABLES
    query, db, stats,
    plan,     \* the logical plan, None before there is one
    stage     \* what was done last

vars == <<query, db, stats, plan, stage>>

Init ==
    /\ query \in Queries /\ db \in Databases /\ stats \in Statistics
    /\ plan = None /\ stage = "parsed"

Pass(from, to, p) ==
    stage = from /\ stage' = to /\ plan' = p /\ UNCHANGED <<query, db, stats>>

\* parse_sql
BuildPlan == Supported(query) /\ Pass("parsed", "built", Build(query))
Refuse == ~Supported(query) /\ Pass("parsed", "refused", None)

\* optimize: pushdown, pruning, sides.
Push == Pass("built", "pushed", PushPredicates(plan))
Prune == Pass("pushed", "pruned", PruneProjections(plan))
SelectSides == Pass("pruned", "optimized", SelectJoinSides(plan, stats))

Next == BuildPlan \/ Refuse \/ Push \/ Prune \/ SelectSides
Spec == Init /\ [][Next]_vars

----------------------------------------------------------------------------
\* A frame's rows as sequences of values.
Tuples(f) == [i \in DOMAIN f.rows |-> [k \in DOMAIN f.cols |-> f.rows[i][f.cols[k]]]]

\* The plan answers the query as SQL does, when it is built and after every pass of the
\* optimizer: pushdown (optimize.py push_predicates), pruning (prune_projections) and the choice
\* of join sides (select_join_sides) change no answer, and neither does the lowering of
\* subqueries to joins, of grouping sets to unions or of windows to running totals.
AnswersSql == plan # None => Answers(Tuples(Exec(plan, db)), query, db)

\* What the expressions and the keys of a node name is in the frames it reads them from.
NamesFound(n, frame) ==
    \A c \in UNION {ColRefs(e) : e \in ToSet(ExprsIn(n))} : <<c.table, c.name>> \in frame \/ Out(c.name) \in frame
KeysFound(names, cols) == \A k \in DOMAIN names : Out(names[k]) \in cols
RECURSIVE Resolves(_)
Resolves(n) ==
    LET cols(m) == ToSet(Exec(m, db).cols)
        below == n.kids[1]
        read == CASE n.node = "join" -> {n}
                  [] n.node = "sort" /\ below.node = "project" -> {below, below.kids[1]}
                  [] n.node = "scan" -> {}
                  [] OTHER -> {below}
    IN /\ NamesFound(n, UNION {cols(m) : m \in read})
       /\ n.node = "join" => KeysFound(n.on_left, cols(below)) /\ KeysFound(n.on_right, cols(n.kids[2]))
       /\ \A i \in DOMAIN n.kids : Resolves(n.kids[i])
\* Every column that an expression or a join key of the plan names is in the frame it is read
\* from, whatever the passes pruned, renamed or moved: no query fails with a KeyError.
ColumnsResolve == plan # None => Resolves(plan)
=============================================================================
