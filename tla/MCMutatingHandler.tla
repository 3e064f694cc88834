------------------------- MODULE MCMutatingHandler -------------------------
EXTENDS MutatingHandler, TLC

Symmetry == Permutations(Requests) \cup Permutations(Keys) \cup Permutations(Digests)
=============================================================================
