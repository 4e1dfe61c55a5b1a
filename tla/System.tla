------------------------------- MODULE System -------------------------------
(***************************************************************************)
(* Part B put together: the client, the load balancer's XDP program and    *)
(* the workers, joined by the docker network.  The network reorders freely *)
(* (datagrams of one kind are a set or a count) and neither loses nor      *)
(* duplicates; what the programs themselves throw away is in dropped.      *)
(***************************************************************************)
EXTENDS LoadBalancer, Server

CONSTANT
  ServersFirst   \* TRUE: the README's start order, all workers before the client

ASSUME OrderAssumption == ServersFirst \in BOOLEAN

\* docker-compose.yaml starts as many workers as lb.c has slots.
ASSUME FleetAssumption == Cardinality(Server) <= MAX_SERVERS

\* server.py accepts as many threads as lb.c charges to it.
ASSUME ThreadsAssumption == MAX_THREADS <= ServerThreads

VARIABLES
  unsent,    \* jobs the client has still to send
  reqs,      \* eight-byte datagrams under way from the client to the lb
  dropped    \* jobs the load balancer took and neither kept nor sent on

clientvars == <<unsent, reqs>>
vars == <<lbvars, wires, servervars, clientvars, dropped>>

Init ==
  /\ LbInit
  /\ ServerInit
  /\ unsent = Request
  /\ reqs = {}
  /\ dropped = {}

-----------------------------------------------------------------------------
(* client.py sends its jobs one by one and waits for nothing.  In the      *)
(* README's order it is started when all workers are known.                *)
ClientSend(r) ==
  /\ r \in unsent
  /\ ServersFirst /\ unsent = Request =>
       \A s \in Server : ip_to_key[s] # NoKey
  /\ unsent' = unsent \ {r}
  /\ reqs' = reqs \cup {r}
  /\ UNCHANGED <<lbvars, wires, servervars, dropped>>

-----------------------------------------------------------------------------
(* The frame left by the handler is sent to the address it carries. *)
Transmit(v) ==
  jobs' = IF v.action = "XDP_TX"
          THEN [jobs EXCEPT ![v.daddr] = @ \cup {v.payload}]
          ELSE jobs

\* The jobs in hand before an invocation that are neither queued nor sent
\* after it.
Discarded(in, v) == (in \cup Queued) \ (Queued' \cup {v.payload})

LbPing(s) ==
  /\ pings[s] > 0
  /\ pings' = [pings EXCEPT ![s] = @ - 1]
  /\ \E v \in Verdict :
       /\ OnPing(s, v)
       /\ Transmit(v)
       /\ dropped' = dropped \cup Discarded({}, v)
  /\ UNCHANGED <<servervars, clientvars>>

LbRequest(r) ==
  /\ r \in reqs
  /\ reqs' = reqs \ {r}
  /\ \E v \in Verdict :
       /\ OnRequest(r, v)
       /\ Transmit(v)
       /\ dropped' = dropped \cup Discarded({r}, v)
  /\ UNCHANGED <<pings, servervars, unsent>>

WorkerMain(s) ==
  /\ MainStep(s)
  /\ UNCHANGED <<lbvars, clientvars, dropped>>

WorkerThread(s, t) ==
  /\ ThreadStep(s, t)
  /\ UNCHANGED <<lbvars, clientvars, dropped>>

\* Every job was sent, every thread has reported and every report was read.
Quiet ==
  /\ unsent = {}
  /\ reqs = {}
  /\ \A s \in Server :
       /\ mainpc[s] = "recv"
       /\ jobs[s] = {}
       /\ pings[s] = 0
       /\ \A t \in Request : thread[s][t] \in {"none", "done"}

\* The workers then wait for datagrams that nobody sends.
Idle == Quiet /\ UNCHANGED vars

Next ==
  \/ \E r \in Request : ClientSend(r)
  \/ \E s \in Server : LbPing(s)
  \/ \E r \in Request : LbRequest(r)
  \/ \E s \in Server : WorkerMain(s)
  \/ \E s \in Server, t \in Request : WorkerThread(s, t)
  \/ Idle

Spec == Init /\ [][Next]_vars

\* The kernel runs the XDP program on every frame that arrives, Python's
\* threads are scheduled and sleeps end, the client's loop is not interrupted.
Fairness ==
  /\ \A r \in Request : WF_vars(ClientSend(r)) /\ WF_vars(LbRequest(r))
  /\ \A s \in Server :
       /\ WF_vars(LbPing(s))
       /\ WF_vars(WorkerMain(s))
       /\ \A t \in Request : WF_vars(WorkerThread(s, t))

FairSpec == Spec /\ Fairness

-----------------------------------------------------------------------------
(* The maps of lb.c, the globals and threads of every server.py and what   *)
(* is under way between them stay well typed; in particular free_threads   *)
(* stays within 0..MAX_THREADS and never wraps below zero.                 *)
TypeOK ==
  /\ LbTypeOK
  /\ jobs \in [Server -> SUBSET Request]
  /\ pings \in [Server -> Nat]
  /\ mainpc \in [Server -> MainPc]
  /\ data \in [Server -> Request \cup {NoRequest}]
  /\ n_threads \in [Server -> Int]
  /\ thread \in [Server -> [Request -> ThreadPc]]
  /\ job \in [Server -> [Request -> Request \cup {NoRequest}]]
  /\ total_sleep_time \in [Server -> [Request -> Nat]]
  /\ unsent \in SUBSET Request
  /\ reqs \in SUBSET Request
  /\ dropped \in SUBSET Request

\* What the load balancer has charged to s and not yet got back: datagrams
\* under way to s, the one the main thread holds, threads, pings under way.
Outstanding(s) ==
  Cardinality(jobs[s]) + (IF mainpc[s] = "check" THEN 1 ELSE 0)
    + Cardinality(ThreadsAt(s, Live)) + pings[s]

(* Thread conservation: for every registered worker, the free_threads the  *)
(* load balancer keeps and the work it has outstanding at that worker add  *)
(* up to MAX_THREADS, wherever client, network, workers and lb.c stand.    *)
Conservation ==
  \A k \in Key, s \in Server : servers[k].saddr = s =>
    servers[k].free_threads + Outstanding(s) = MAX_THREADS

(* The busy test of server.py:38 never throws a job away: a worker's       *)
(* main thread that holds a datagram finds n_threads below the limit.      *)
NeverBusy ==
  \A s \in Server : mainpc[s] = "check" => n_threads[s] < ServerThreads

(* No worker ever has more than MAX_THREADS handler threads alive, though  *)
(* server.py tests n_threads without the lock and before it is counted.    *)
ThreadsBounded ==
  \A s \in Server : Cardinality(ThreadsAt(s, Live)) <= MAX_THREADS

(* No job waits in the queue while the load balancer knows a free thread.  *)
WorkConserving ==
  queue # << >> => \A k \in Key :
                     Occupied(servers, k) => servers[k].free_threads = 0

(* The chain of completions that empties the queue does not break: while   *)
(* jobs wait, every worker is known and has work or a ping outstanding     *)
(* whose end makes lb.c look at the queue; a worker that is down pings     *)
(* when it starts.                                                         *)
QueueAwaited ==
  queue # << >> =>
    \A s \in Server : /\ ip_to_key[s] # NoKey
                      /\ mainpc[s] = "start" \/ Outstanding(s) > 0

\* The main thread of s holds the datagram r, between recvfrom and start().
Held(s, r) == mainpc[s] = "check" /\ data[s] = r

AtWorker(s, r) == r \in jobs[s] \/ Held(s, r) \/ thread[s][r] # "none"

(* Every job is in exactly one place: still with the client, under way to  *)
(* the load balancer, at one position of the queue, dropped, or at one     *)
(* worker, where it is a datagram, held by the main thread or a thread.    *)
(* Forwarding, queueing and dispatching double no job and lose none but    *)
(* those in dropped; when lb.c may drop one is what NoNeedlessDrop says.   *)
ExactlyOnePlace ==
  /\ unsent \cap reqs = {}
  /\ unsent \cap dropped = {}
  /\ reqs \cap dropped = {}
  /\ (unsent \cup reqs \cup dropped) \cap Queued = {}
  /\ \A i, j \in 1 .. Len(queue) : queue[i] = queue[j] => i = j
  /\ \A s \in Server, r \in Request :
       /\ AtWorker(s, r) => r \notin unsent \cup reqs \cup dropped \cup Queued
       /\ r \in jobs[s] => ~Held(s, r) /\ thread[s][r] = "none"
       /\ Held(s, r) => thread[s][r] = "none"
       /\ \A u \in Server : AtWorker(s, r) /\ AtWorker(u, r) => s = u
  /\ \A r \in Request :
       r \in unsent \cup reqs \cup dropped \cup Queued
         \/ \E s \in Server : AtWorker(s, r)

\* A worker the load balancer does not know has sent nothing or its first
\* ping is under way, and it has no work.  A known worker has started.
RegistrationSound ==
  \A s \in Server :
    /\ ip_to_key[s] = NoKey =>
         /\ jobs[s] = {}
         /\ mainpc[s] # "check"
         /\ \A t \in Request : thread[s][t] = "none"
         /\ pings[s] = IF mainpc[s] = "start" THEN 0 ELSE 1
    /\ ip_to_key[s] # NoKey => mainpc[s] # "start"

\* n_threads counts the threads between its two updates, and a thread that
\* is to read data or to sleep has a job to read or to sleep for.
ThreadsSound ==
  \A s \in Server :
    /\ n_threads[s] = Cardinality(ThreadsAt(s, Counted))
    /\ mainpc[s] = "check" => data[s] \in Request
    /\ \A t \in Request :
         /\ thread[s][t] = "started" => data[s] \in Request
         /\ thread[s][t] \in {"bound", "sleeping"} => job[s][t] \in Request

\* The inductive invariant from which the properties above follow.
SysInv ==
  /\ TypeOK
  /\ LbInv
  /\ RegistrationSound
  /\ ThreadsSound
  /\ Conservation
  /\ ExactlyOnePlace

\* In the README's start order every worker is known once a job was sent.
StartOrder ==
  ServersFirst /\ unsent # Request => \A s \in Server : ip_to_key[s] # NoKey

(* Jobs are served in the order they reached the load balancer: what is    *)
(* sent to a worker is the oldest job waiting, and a request that arrives  *)
(* never overtakes the queue.                                              *)
OldestFirst ==
  [][\A s \in Server, r \in Request :
       r \in jobs'[s] \ jobs[s] => queue = << >> \/ r = Head(queue)]_vars

(* A job is given up only when all threads lb.c knows are taken and the    *)
(* queue is full: the error of the push that enqueue() ignores.            *)
NoNeedlessDrop ==
  [][dropped' # dropped =>
       /\ Len(queue) = QUEUE_MAX
       /\ \A k \in Key : Occupied(servers, k) => servers[k].free_threads = 0]_vars

(* Every request that was sent is eventually finished by the thread that   *)
(* was started for its datagram, unless the queue had no room for it.      *)
EveryJobServed ==
  \A r \in Request :
    r \in reqs ~> \/ \E s \in Server : thread[s][r] = "done"
                  \/ r \in dropped

(* When everything has calmed down, a worker's total_sleep_time holds each *)
(* job it finished once and no other job.                                  *)
SleepsEachJobOnce ==
  Quiet => \A s \in Server, r \in Request :
             total_sleep_time[s][r] = IF thread[s][r] = "done" THEN 1 ELSE 0
=============================================================================
