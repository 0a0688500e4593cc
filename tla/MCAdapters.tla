---------------------------- MODULE MCAdapters -----------------------------
EXTENDS Adapters, TLC

CONSTANTS c1, c2
Symmetry == Permutations(Calls)

============================================================================
