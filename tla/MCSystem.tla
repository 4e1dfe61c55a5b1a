------------------------------ MODULE MCSystem ------------------------------
EXTENDS SystemService, TLC

Symmetry == Permutations(Server) \cup Permutations(Request)
=============================================================================
