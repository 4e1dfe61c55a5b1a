------------------------------ MODULE SmpAtomic ------------------------------
(***************************************************************************)
(* What the step-by-step model of lb.c shows to an observer who looks at   *)
(* the maps between invocations only: shown holds the maps as they were    *)
(* when all CPUs were last idle.  When the invocations since then did not  *)
(* overlap, there was one of them, and it must have been an action of the  *)
(* atomic model LoadBalancer: what is proved there holds of the accesses   *)
(* lb.c really makes, as long as no second CPU comes between them.         *)
(***************************************************************************)
EXTENDS LoadBalancerSmp

VARIABLES
  shown,       \* the maps when all CPUs were last idle
  overlapped   \* two CPUs have been at work at the same time since then

Maps == [ip_to_key |-> ip_to_key, servers |-> servers,
         server_cnt |-> server_cnt, queue |-> queue]

Working == {c \in CPU : ~At(c, "idle")}

AtomicInit ==
  /\ Init
  /\ shown = Maps
  /\ overlapped = FALSE

AtomicNext ==
  /\ Next
  /\ shown' = IF Working' = {} THEN Maps' ELSE shown
  /\ overlapped' = \/ Working # {} /\ overlapped
                   \/ Cardinality(Working') > 1

AtomicSpec == AtomicInit /\ [][AtomicNext]_<<vars, shown, overlapped>>

Atomic == INSTANCE LoadBalancer WITH
  ip_to_key <- shown.ip_to_key, servers <- shown.servers,
  server_cnt <- shown.server_cnt, queue <- shown.queue

(* The loads, stores and helper calls of an invocation of lb.c that no     *)
(* other CPU disturbs add up to one action of LoadBalancer (registration,  *)
(* completion with or without a dispatch, forwarding or queueing), also in *)
(* maps that earlier races have left inconsistent.                         *)
ImplementsLoadBalancer ==
  Atomic!LbInit /\ [][overlapped \/ Atomic!LbNext]_shown
=============================================================================
