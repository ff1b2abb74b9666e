------------------------------ MODULE MCServer ------------------------------
\* Model-checking instances of Server; connections are interchangeable.
EXTENDS Server, TLC

ConnSymmetry == Permutations(Conns)

\* Bounds of MCServerTxn: some client stays, at most one request is cancelled or left behind,
\* and at most two roll back or rewrite history.
TxnBounds ==
    LET rewrites == {r \in Requests : req[r] # None /\ req[r].op \in {"rollback", "restore", "admin"}}
    IN  up # {} /\ Cardinality(cancel) <= 1 /\ Cardinality(rewrites) <= 2
=============================================================================
