----------------------------- MODULE MCTmkLock -----------------------------
(* TmkLock for TLC: the constants of the runs are given in the .cfg files. *)
EXTENDS TmkLock
=============================================================================
