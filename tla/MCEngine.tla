------------------------------ MODULE MCEngine ------------------------------
(***************************************************************************)
(* Model-checking instances of Engine and of its refinement of VersionedDb.*)
(***************************************************************************)
EXTENDS EngineRefinement, TLC

\* Sessions, keys and values are interchangeable; Null is not a member of Vals here.
Symmetry == Permutations(Sessions) \cup Permutations(Keys) \cup Permutations(Vals)
KeySymmetry == Permutations(Keys)
\* Bound: tables with a primary key start with the same single row, the others empty.
OneRowBase == \A t \in Tables : Cardinality(RowsOf(base[t])) = IF t \in PKTables THEN 1 ELSE 0
\* Bound: a fold that is replayed and folded again doubles its rows once.
TwoCopies == \A t \in Tables, r \in Row : base[t][r] <= 2
\* Timestamps a client may ask the admin restore for, one of them below every commit's.
AnyTargets == {-2, 1}
OneRowInit == Init /\ OneRowBase
OneRowSpec == OneRowInit /\ [][Next]_vars
=============================================================================
