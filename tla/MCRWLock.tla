------------------------------ MODULE MCRWLock ------------------------------
(* Model-checking instances of RWLock. *)
EXTENDS RWLock
=============================================================================
