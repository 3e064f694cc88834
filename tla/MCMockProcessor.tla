--------------------------- MODULE MCMockProcessor ---------------------------
EXTENDS MockProcessor, TLC

Symmetry == Permutations(Contracts) \cup Permutations(Bindings)
              \cup Permutations(BillKeys) \cup Permutations(Holds)
              \cup Permutations(SettleRefs)

=============================================================================
