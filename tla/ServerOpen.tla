----------------------------- MODULE ServerOpen -----------------------------
(***************************************************************************)
(* The workers of server.py in any surroundings: datagrams arrive whenever *)
(* they like, also more than the load balancer would send, as after a      *)
(* reload of lb.c that forgets the jobs under way, and also empty ones.    *)
(* Nobody reads the pings.                                                 *)
(***************************************************************************)
EXTENDS Server

VARIABLE coming   \* datagrams that have not yet arrived anywhere

openvars == <<wires, servervars, coming>>

OpenInit == ServerInit /\ coming = Request

Arrive(s, r) ==
  /\ r \in coming
  /\ coming' = coming \ {r}
  /\ jobs' = [jobs EXCEPT ![s] = @ \cup {r}]
  /\ UNCHANGED <<pings, servervars>>

\* recvfrom returns a datagram without a payload, sent by another host.
RecvEmpty(s) ==
  /\ mainpc[s] = "recv"
  /\ mainpc' = [mainpc EXCEPT ![s] = "check"]
  /\ data' = [data EXCEPT ![s] = NoRequest]
  /\ UNCHANGED <<wires, n_threads, thread, job, total_sleep_time, coming>>

Main(s) == MainStep(s) /\ UNCHANGED coming

Handler(s, t) == ThreadStep(s, t) /\ UNCHANGED coming

\* All datagrams were handled and the main threads wait in recvfrom.
Waiting ==
  /\ coming = {}
  /\ \A s \in Server :
       /\ mainpc[s] = "recv"
       /\ jobs[s] = {}
       /\ \A t \in Request : thread[s][t] \in {"none", "done"}
  /\ UNCHANGED openvars

OpenNext ==
  \/ \E s \in Server, r \in Request : Arrive(s, r)
  \/ \E s \in Server : RecvEmpty(s)
  \/ \E s \in Server : Main(s)
  \/ \E s \in Server, t \in Request : Handler(s, t)
  \/ Waiting

\* Python runs every thread and sleeps end; datagrams need not come.
OpenSpec ==
  /\ OpenInit
  /\ [][OpenNext]_openvars
  /\ \A s \in Server :
       /\ WF_openvars(Main(s))
       /\ \A t \in Request : WF_openvars(Handler(s, t))

-----------------------------------------------------------------------------
\* The state of a worker stays well formed.
OpenTypeOK ==
  /\ jobs \in [Server -> SUBSET Request]
  /\ pings \in [Server -> 0 .. (Cardinality(Request) + 1)]
  /\ mainpc \in [Server -> MainPc]
  /\ data \in [Server -> Request \cup {NoRequest}]
  /\ n_threads \in [Server -> 0 .. Cardinality(Request)]
  /\ thread \in [Server -> [Request -> ThreadPc]]
  /\ job \in [Server -> [Request -> Request \cup {NoRequest}]]
  /\ total_sleep_time \in [Server -> [Request -> Nat]]
  /\ coming \in SUBSET Request

\* The threads that have sent their ping.
Finished == {"done"}

(* However many datagrams are refused in between, n_threads is the number  *)
(* of threads between its two updates, and one 'D' was sent per finished   *)
(* thread after the 'S' of the start: a refused datagram leaves no trace   *)
(* in the counter and none on the wire.                                    *)
CounterExact ==
  \A s \in Server :
    /\ n_threads[s] = Cardinality(ThreadsAt(s, Counted))
    /\ pings[s] = Cardinality(ThreadsAt(s, Finished))
                    + (IF mainpc[s] = "start" THEN 0 ELSE 1)

(* A worker that refuses datagrams accepts some again: the busy test of    *)
(* server.py:38 does not stay true for ever.                               *)
AcceptsAgain ==
  \A s \in Server : n_threads[s] >= ServerThreads ~> n_threads[s] < ServerThreads
=============================================================================
