--------------------------- MODULE MCPolicyReload ---------------------------
EXTENDS PolicyReload, TLC

PolicySymmetry == Permutations(Dirs) \cup Permutations(Changes)
=============================================================================
