----------------------------- MODULE MCStorage ------------------------------
\* Model-checking instances of Storage.
EXTENDS Storage, TLC

CONSTANTS f1, f2, b1, b2, d1, d2

\* Two directories, each with a client's file and its base; or one directory for both.
TwoDirs == (f1 :> d1) @@ (b1 :> d1) @@ (f2 :> d2) @@ (b2 :> d2)
OneDir  == (f1 :> d1) @@ (b1 :> d1) @@ (f2 :> d1) @@ (b2 :> d2)
Bases   == (d1 :> b1) @@ (d2 :> b2)

NameSymmetry == Permutations(Names)
=============================================================================
