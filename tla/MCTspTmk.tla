----------------------------- MODULE MCTspTmk -----------------------------
(* TspTmk on the map of six cities of TspGraphs. *)
EXTENDS TspTmk, TspGraphs
=============================================================================
