--------------------------- MODULE MCSystemFaults ---------------------------
EXTENDS SystemFaults, TLC

Symmetry == Permutations(Server) \cup Permutations(Request)
=============================================================================
