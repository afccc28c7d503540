----------------------------- MODULE MCTmkHeap -----------------------------
EXTENDS TmkHeap
=============================================================================
