--------------------------- MODULE SystemService ----------------------------
(***************************************************************************)
(* Part B seen from outside: lb.c's maps, the datagrams under way and the  *)
(* workers' threads are mapped to the slots and jobs of JobService.  A job *)
(* runs at a worker from the moment lb.c charges it until its thread sends *)
(* 'D'; the slot comes back when lb.c handles that ping.                   *)
(***************************************************************************)
EXTENDS System

\* The slots of s that lb.c has to give.
FreeSlots(s) ==
  IF ip_to_key[s] = NoKey THEN 0 ELSE servers[ip_to_key[s]].free_threads

\* The jobs sent to s for which it has not sent its ping.
Busied(s) ==
  {r \in Request : r \in jobs[s] \/ Held(s, r) \/ thread[s][r] \in Live}

Done == {r \in Request : \E s \in Server : thread[s][r] = "done"}

Service == INSTANCE JobService WITH
  Worker <- Server, Job <- Request, Slots <- MAX_THREADS, Room <- QUEUE_MAX,
  members <- Known, free <- [s \in Server |-> FreeSlots(s)],
  running <- [s \in Server |-> Busied(s)], waiting <- queue,
  offered <- unsent \cup reqs, finished <- Done, refused <- dropped

(* In the README's start order client, lb.c and workers together do what   *)
(* JobService says: a slot is never given to two jobs, a returned one goes *)
(* to the oldest waiting job at once, and only a full queue refuses a job. *)
ImplementsService == Service!Spec
=============================================================================
