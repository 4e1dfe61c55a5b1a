-------------------------------- MODULE MCSmp --------------------------------
EXTENDS SmpAtomic, TLC

Symmetry == Permutations(CPU) \cup Permutations(Server) \cup Permutations(Request)
=============================================================================
