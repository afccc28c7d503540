----------------------------- MODULE MCTmkPage -----------------------------
EXTENDS TmkPage, TLC

WordSymmetry == Permutations(Words)
=============================================================================
