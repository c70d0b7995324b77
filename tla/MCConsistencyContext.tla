-------------------------- MODULE MCConsistencyContext --------------------------
EXTENDS ConsistencyContext, TLC

CONSTANTS x1, x2, k1, k2, A, B

Symmetry == Permutations(Contexts) \cup Permutations(Calls) \cup Permutations(Clusters)
=============================================================================
