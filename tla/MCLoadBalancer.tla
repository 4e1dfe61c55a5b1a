--------------------------- MODULE MCLoadBalancer ---------------------------
(* lb.c in any surroundings, with one host more than it has slots.         *)
EXTENDS LoadBalancer, TLC

Symmetry == Permutations(Server) \cup Permutations(Request)
=============================================================================
