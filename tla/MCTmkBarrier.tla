---------------------------- MODULE MCTmkBarrier ----------------------------
(* TmkBarrier with the constants of MCTmkBarrier_*.cfg. *)
EXTENDS TmkBarrier

=============================================================================
