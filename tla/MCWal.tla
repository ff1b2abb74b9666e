------------------------------- MODULE MCWal -------------------------------
(* Model-checking instances of Wal. *)
EXTENDS Wal
=============================================================================
