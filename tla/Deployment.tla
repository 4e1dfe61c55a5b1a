----------------------------- MODULE Deployment -----------------------------
(***************************************************************************)
(* The parameters shared by the models of part B: the hosts of the docker  *)
(* network that ping the load balancer, the client's jobs, and the sizes   *)
(* that lb.c and server.py fix with #defines and literals.                 *)
(***************************************************************************)
EXTENDS Integers, FiniteSets

CONSTANTS
  Server,          \* hosts that run server.py; a host stands for its address
  Request,         \* the client's 8-byte payloads, one element per datagram
  MAX_THREADS,     \* lb.c:18, free threads credited at registration (5)
  QUEUE_MAX,       \* lb.c:54, max_entries of the queue map (100)
  U16,             \* number of values of a __u16 (65536)
  ServerThreads,   \* server.py:38, the limit of the busy test (5)
  TailGrows,       \* outcomes of bpf_xdp_adjust_tail: TRUE when the frame grew
  NoAddr,          \* saddr 0: the content of an unused slot of the servers map
  NoRequest        \* no payload

MAX_SERVERS == 3   \* lb.c:17; the three lookups of lb.c are written out

ASSUME ServersAssumption ==
  /\ IsFiniteSet(Server)
  /\ NoAddr \notin Server

ASSUME RequestsAssumption ==
  /\ IsFiniteSet(Request)
  /\ NoRequest \notin Request

ASSUME SizesAssumption ==
  /\ MAX_THREADS \in Nat \ {0}
  /\ QUEUE_MAX \in Nat \ {0}
  /\ U16 \in Nat
  /\ MAX_THREADS + 1 < U16   \* or the clamp of a completion would see 0
  /\ MAX_SERVERS < U16
  /\ ServerThreads \in Nat \ {0}

ASSUME TailAssumption == TailGrows \in SUBSET BOOLEAN
=============================================================================
