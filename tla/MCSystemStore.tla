---------------------------- MODULE MCSystemStore ----------------------------
EXTENDS SystemStore, TLC

Symmetry == Permutations(Procs) \union Permutations(Pairs)
=============================================================================
