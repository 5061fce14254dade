------------------------------ MODULE MCAgentRun ------------------------------
EXTENDS AgentRun_proofs, TLC
CONSTANTS w1, w2, a1, a2
MCSym == Permutations(Workers)
===============================================================================
