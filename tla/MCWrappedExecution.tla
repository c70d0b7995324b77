-------------------------- MODULE MCWrappedExecution --------------------------
EXTENDS WrappedExecution, TLC

Symmetry == Permutations(Handles)
=============================================================================
