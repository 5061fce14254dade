----------------------------- MODULE MCLifecycle -----------------------------
EXTENDS ExecutionLifecycle_proofs, TLC
CONSTANTS e1, e2, w1, w2
MCSym == Permutations(Workers)
=============================================================================
