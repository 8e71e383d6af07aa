---------------------------- MODULE MCAgentRuns ----------------------------
EXTENDS AgentRuns, TLC

Symmetry == Permutations(Callers)
=============================================================================
