---------------------------- MODULE SystemProofs ----------------------------
(***************************************************************************)
(* Proofs about the composed system of part B, for every number of workers *)
(* up to MAX_SERVERS, every number of jobs and threads, every start order  *)
(* and whether or not frames can be grown; and the proof that part B does  *)
(* what JobService promises.                                               *)
(***************************************************************************)
EXTENDS SystemService, LoadBalancerProofs, ServerProofs

-----------------------------------------------------------------------------
\* A used slot belongs to one worker and a worker has one slot.
LEMMA SlotUnique ==
  ASSUME LbInv, NEW j \in Key, Occupied(servers, j),
         NEW k \in Key, Occupied(servers, k),
         servers[j].saddr = servers[k].saddr
  PROVE  j = k
BY DEF LbInv, KeysSound

LEMMA SlotOwner ==
  ASSUME LbInv, NEW s \in Server, ip_to_key[s] # NoKey
  PROVE  /\ ip_to_key[s] \in Key
         /\ Occupied(servers, ip_to_key[s])
         /\ servers[ip_to_key[s]].saddr = s
         /\ KeyOf(s) = ip_to_key[s]
BY ServersAssumption DEF LbInv, KeysSound, Known, Occupied, KeyOf

LEMMA SlotHost ==
  ASSUME LbInv, NEW k \in Key, Occupied(servers, k)
  PROVE  servers[k].saddr \in Server /\ ip_to_key[servers[k].saddr] = k
BY DEF LbInv, LbTypeOK, KeysSound, Occupied, dest_info

-----------------------------------------------------------------------------
(* What an invocation of the XDP program does in a state of the system.    *)

\* What the slot j gains when a thread of the slot up comes back: none when
\* all its threads are recorded free already.
Gain(up, j) ==
  IF j = up /\ servers[j].free_threads < MAX_THREADS THEN 1 ELSE 0

\* The thread counts after the slot up gained and the slot down lost one.
SlotsMove(up, down) ==
  \A j \in Key :
    /\ servers'[j].saddr = servers[j].saddr
    /\ servers'[j].free_threads = servers[j].free_threads
         + Gain(up, j) - (IF j = down THEN 1 ELSE 0)

\* No job waits twice.
WaitsOnce == \A i, j \in 1 .. Len(queue) : queue[i] = queue[j] => i = j

SendTo(k, r) ==
  jobs' = [jobs EXCEPT ![servers[k].saddr] = @ \cup {r}]

FirstPing(s) ==
  /\ ip_to_key[s] = NoKey
  /\ server_cnt \in Key
  /\ ~Occupied(servers, server_cnt)
  /\ ip_to_key' = [ip_to_key EXCEPT ![s] = server_cnt]
  /\ servers' = [servers EXCEPT ![server_cnt] =
                   [saddr |-> s, free_threads |-> MAX_THREADS]]
  /\ queue' = queue
  /\ jobs' = jobs
  /\ dropped' = dropped

Credit(s) ==
  /\ ip_to_key[s] # NoKey
  /\ ip_to_key' = ip_to_key
  /\ SlotsMove(ip_to_key[s], NoKey)
  /\ queue = << >>
  /\ queue' = queue
  /\ jobs' = jobs
  /\ dropped' = dropped

HandOver(s) ==
  /\ ip_to_key[s] # NoKey
  /\ ip_to_key' = ip_to_key
  /\ queue # << >>
  /\ queue' = Tail(queue)
  /\ \E b \in Key : /\ Occupied(servers, b)
                   /\ SlotsMove(ip_to_key[s], b)
                   /\ SendTo(b, Head(queue))
  /\ dropped' = dropped

Waste(s) ==
  /\ ip_to_key[s] # NoKey
  /\ ip_to_key' = ip_to_key
  /\ queue # << >>
  /\ queue' = Tail(queue)
  /\ FALSE \in TailGrows
  /\ SlotsMove(ip_to_key[s], NoKey)
  /\ jobs' = jobs
  /\ dropped' = dropped \cup {Head(queue)}

\* A ping that is under way stands for a thread that is not recorded free:
\* the clamp of a completion never bites.
LEMMA PingRoom ==
  ASSUME SysInv, NEW s \in Server, ip_to_key[s] # NoKey, pings[s] > 0
  PROVE  servers[ip_to_key[s]].free_threads < MAX_THREADS
<1> DEFINE k == ip_to_key[s]
<1>1. k \in Key /\ Occupied(servers, k) /\ servers[k].saddr = s
  BY SlotOwner DEF SysInv
<1>2. servers[k].free_threads \in Nat
  BY <1>1, SizesAssumption DEF SysInv, LbInv, LbTypeOK, dest_info, Cnt
<1>3. servers[k].free_threads + Outstanding(s) = MAX_THREADS
  BY <1>1 DEF SysInv, Conservation
<1>4. Outstanding(s) \in Nat /\ Outstanding(s) >= 1
  <2>1. Cardinality(jobs[s]) \in Nat /\ pings[s] \in Nat
    BY JobSetFinite DEF SysInv, TypeOK
  <2> QED
    BY <2>1, ThreadSets DEF Outstanding
<1> QED
  BY <1>2, <1>3, <1>4, SizesAssumption

LEMMA CreditMove ==
  ASSUME LbInv, NEW s \in Server, ip_to_key[s] # NoKey
  PROVE  LET k == ip_to_key[s]
             credited == ReturnThread(servers, k)
         IN  \A j \in Key :
               /\ credited[j].saddr = servers[j].saddr
               /\ credited[j].free_threads = servers[j].free_threads + Gain(k, j)
<1> DEFINE k == ip_to_key[s]
<1>1. k \in Key
  BY SlotOwner
<1>2. /\ servers \in [Key -> dest_info]
      /\ \A j \in Key : servers[j].free_threads <= MAX_THREADS
      /\ \A j \in Key : servers[j].free_threads \in Nat
  BY SizesAssumption DEF LbInv, LbTypeOK, dest_info, Cnt
<1> QED
  BY <1>1, <1>2, ReturnThreadType, SizesAssumption DEF Gain

LEMMA PingOutcomes ==
  ASSUME LbInv, WaitsOnce, NEW s \in Server, LbPing(s)
  PROVE  FirstPing(s) \/ Credit(s) \/ HandOver(s) \/ Waste(s)
<1>1. PICK v \in Verdict : /\ OnPing(s, v)
                          /\ Transmit(v)
                          /\ dropped' = dropped \cup Discarded({}, v)
  BY DEF LbPing
<1>3. ASSUME queue' = queue PROVE dropped' = dropped
  BY <1>1, <1>3 DEF Discarded, Queued
<1>4. CASE Register(s, v)
  <2>1. jobs' = jobs /\ queue' = queue
    BY <1>1, <1>4 DEF Register, Transmit, Drop
  <2>2. ip_to_key[s] = NoKey
    BY <1>4, RegisterCases
  <2>3. Cardinality(Known) < MAX_SERVERS
    <3>1. Known \subseteq Server \ {s}
      BY <2>2 DEF Known
    <3>2. Cardinality(Server \ {s}) = Cardinality(Server) - 1
          /\ Cardinality(Server) \in Nat /\ IsFiniteSet(Server \ {s})
      BY ServersAssumption, FS_RemoveElement, FS_CardinalityType
    <3>3. Cardinality(Known) <= Cardinality(Server \ {s})
      BY <3>1, <3>2, FS_Subset
    <3> QED
      BY <3>2, <3>3, KnownFinite, FleetAssumption DEF MAX_SERVERS
  <2>4. ~Occupied(servers, server_cnt)
    BY <1>4, <2>2 DEF Register, KeyOf
  <2> QED
    BY <1>3, <1>4, <2>1, <2>2, <2>3, <2>4, RegisterCases DEF FirstPing, MAX_SERVERS
<1>5. ASSUME Occupied(servers, KeyOf(s)) PROVE ip_to_key[s] # NoKey
  <2>1. SUFFICES ASSUME ip_to_key[s] = NoKey PROVE FALSE
    OBVIOUS
  <2>2. Occupied(servers, server_cnt)
    BY <1>5, <2>1 DEF KeyOf
  <2>3. Cardinality(Known) = MAX_SERVERS
    BY <2>2, KnownFinite DEF LbInv, CntSound, LbTypeOK, Occupied, Cnt, MAX_SERVERS
  <2>4. Known \subseteq Server \ {s}
    BY <2>1 DEF Known
  <2>5. Cardinality(Server \ {s}) = Cardinality(Server) - 1
        /\ Cardinality(Server) \in Nat /\ IsFiniteSet(Server \ {s})
    BY ServersAssumption, FS_RemoveElement, FS_CardinalityType
  <2>6. Cardinality(Known) <= Cardinality(Server \ {s})
    BY <2>4, <2>5, FS_Subset
  <2> QED
    BY <2>3, <2>5, <2>6, FleetAssumption DEF MAX_SERVERS
<1>6. CASE Complete(s, v)
  <2>1. jobs' = jobs /\ queue = << >> /\ queue' = queue
    BY <1>1, <1>6 DEF Complete, Transmit, Drop
  <2>2. ip_to_key[s] # NoKey /\ KeyOf(s) = ip_to_key[s]
    BY <1>5, <1>6 DEF Complete, KeyOf
  <2>3. ip_to_key' = ip_to_key
    BY <1>6, CompletionKeepsKeys DEF Complete
  <2>4. servers' = ReturnThread(servers, ip_to_key[s])
    BY <1>6, <2>2 DEF Complete
  <2>5. SlotsMove(ip_to_key[s], NoKey)
    <3>1. \A j \in Key : servers[j].free_threads \in Nat /\ j # NoKey
      BY SizesAssumption DEF LbInv, LbTypeOK, dest_info, Cnt, Key, NoKey
    <3> QED
      BY <2>2, <2>4, <3>1, CreditMove DEF SlotsMove, Gain
  <2> QED
    BY <1>3, <2>1, <2>2, <2>3, <2>5 DEF Credit
<1>7. CASE CompleteAndDispatch(s, v)
  <2> DEFINE credited == ReturnThread(servers, KeyOf(s))
             b == get_available_backend(credited)
  <2>1. Occupied(servers, KeyOf(s)) /\ LearnKey(s) /\ queue # << >>
    BY <1>7 DEF CompleteAndDispatch
  <2>2. ip_to_key[s] # NoKey /\ KeyOf(s) = ip_to_key[s]
    BY <1>5, <2>1 DEF KeyOf
  <2>3. ip_to_key' = ip_to_key
    BY <2>1, CompletionKeepsKeys
  <2>4. b \in Key /\ Occupied(credited, b) /\ credited[b].free_threads > 0
    BY <2>1, DispatchFindsBackend
  <2>5. PICK grown \in TailGrows :
          /\ queue' = Tail(queue)
          /\ servers' = IF grown THEN TakeThread(credited, b) ELSE credited
          /\ v = IF grown THEN Tx(credited[b].saddr, Head(queue)) ELSE Aborted
    BY <1>7, <2>4 DEF CompleteAndDispatch, Dispatch, dequeue, NoKey, Key
  <2>6. /\ credited \in [Key -> dest_info]
        /\ \A j \in Key : credited[j].free_threads <= MAX_THREADS
    BY <2>1, CreditedSlots
  <2>7. \A j \in Key :
          /\ credited[j].saddr = servers[j].saddr
          /\ credited[j].free_threads = servers[j].free_threads
               + Gain(ip_to_key[s], j)
          /\ servers[j].free_threads \in Nat
          /\ Gain(ip_to_key[s], j) \in Nat
          /\ j # NoKey
    BY <2>2, CreditMove, SizesAssumption
       DEF LbInv, LbTypeOK, dest_info, Cnt, Key, NoKey, Gain
  <2>8. queue \in Seq(Request) /\ Queued' = Queued \ {Head(queue)}
        /\ Head(queue) \in Queued
    <3>1. queue \in Seq(Request)
          /\ \A i, j \in 1 .. Len(queue) : queue[i] = queue[j] => i = j
      BY DEF LbInv, LbTypeOK, WaitsOnce
    <3> QED
      BY <2>1, <2>5, <3>1, TailElements DEF Queued
  <2>9. CASE grown
    <3>1. v = Tx(servers[b].saddr, Head(queue))
      BY <2>4, <2>5, <2>7, <2>9
    <3>2. SendTo(b, Head(queue)) /\ dropped' = dropped
      BY <1>1, <2>8, <3>1 DEF Transmit, SendTo, Discarded, Tx
    <3>3. \A j \in Key :
            /\ servers'[j].saddr = credited[j].saddr
            /\ servers'[j].free_threads =
                 credited[j].free_threads - (IF j = b THEN 1 ELSE 0)
      <4>1. \A j \in Key : credited[j].free_threads \in Nat
        BY <2>7
      <4> QED
        BY <2>4, <2>5, <2>6, <2>9, <4>1, TakeThreadType
    <3>4. SlotsMove(ip_to_key[s], b)
      BY <2>7, <3>3 DEF SlotsMove
    <3>5. Occupied(servers, b)
      BY <2>4, <2>7 DEF Occupied
    <3> QED
      BY <2>1, <2>2, <2>3, <2>4, <2>5, <3>2, <3>4, <3>5 DEF HandOver
  <2>10. CASE ~grown
    <3>1. jobs' = jobs /\ dropped' = dropped \cup {Head(queue)}
      <4>1. v = Aborted /\ NoRequest # Head(queue)
        BY <2>5, <2>8, <2>10, <2>1, RequestsAssumption
      <4> QED
        BY <1>1, <2>8, <4>1 DEF Transmit, Discarded, Aborted
    <3>2. SlotsMove(ip_to_key[s], NoKey)
      BY <2>5, <2>7, <2>10 DEF SlotsMove
    <3>3. FALSE \in TailGrows
      BY <2>5, <2>10, TailAssumption
    <3> QED
      BY <2>1, <2>2, <2>3, <2>5, <3>1, <3>2, <3>3 DEF Waste
  <2> QED
    BY <2>9, <2>10
<1> QED
  BY <1>1, <1>4, <1>6, <1>7 DEF OnPing

LEMMA PingCases ==
  ASSUME SysInv, NEW s \in Server, LbPing(s)
  PROVE  FirstPing(s) \/ Credit(s) \/ HandOver(s) \/ Waste(s)
BY PingOutcomes DEF SysInv, ExactlyOnePlace, WaitsOnce

-----------------------------------------------------------------------------
Direct(r) ==
  /\ ip_to_key' = ip_to_key
  /\ \E b \in Key : /\ Occupied(servers, b)
                   /\ servers[b].free_threads > 0
                   /\ \A k \in Key : Occupied(servers, k) =>
                        servers[k].free_threads <= servers[b].free_threads
                   /\ SlotsMove(NoKey, b)
                   /\ SendTo(b, r)
  /\ queue' = queue
  /\ dropped' = dropped

\* No thread is free.
Hold ==
  /\ ip_to_key' = ip_to_key
  /\ \A k \in Key : Occupied(servers, k) => servers[k].free_threads = 0
  /\ servers' = servers
  /\ jobs' = jobs

Wait(r) ==
  /\ Hold
  /\ queue' = Append(queue, r)
  /\ dropped' = dropped

Overflow(r) ==
  /\ Hold
  /\ queue' = queue
  /\ Len(queue) = QUEUE_MAX
  /\ dropped' = dropped \cup {r}

LEMMA RequestOutcomes ==
  ASSUME LbInv, NEW r \in Request, r \notin Queued, LbRequest(r)
  PROVE  Direct(r) \/ Wait(r) \/ Overflow(r)
<1> DEFINE b == get_available_backend(servers)
<1>1. PICK v \in Verdict : /\ OnRequest(r, v)
                          /\ Transmit(v)
                          /\ dropped' = dropped \cup Discarded({r}, v)
  BY DEF LbRequest
<1>2. /\ servers \in [Key -> dest_info]
      /\ \A j \in Key : servers[j].free_threads <= MAX_THREADS
      /\ \A j \in Key : servers[j].free_threads \in Nat /\ j # NoKey
      /\ queue \in Seq(Request) /\ Len(queue) <= QUEUE_MAX
  BY SizesAssumption DEF LbInv, LbTypeOK, dest_info, Cnt, Key, NoKey
<1>3. CASE Forward(r, v)
  <2>1. /\ b \in Key /\ servers[b].free_threads > 0 /\ Occupied(servers, b)
        /\ \A k \in Key : Occupied(servers, k) =>
             servers[k].free_threads <= servers[b].free_threads
    BY <1>2, <1>3, BackendSelection DEF Forward
  <2>2. SlotsMove(NoKey, b)
    BY <1>2, <1>3, <2>1, TakeThreadType DEF Forward, SlotsMove, Gain
  <2>3. queue' = queue /\ ip_to_key' = ip_to_key
        /\ v = Tx(servers[b].saddr, r)
    BY <1>3 DEF Forward
  <2>4. SendTo(b, r) /\ dropped' = dropped
    BY <1>1, <2>3 DEF SendTo, Transmit, Tx, Discarded, Queued
  <2> QED
    BY <2>1, <2>2, <2>3, <2>4 DEF Direct
<1>4. CASE Enqueue(r, v)
  <2>1. v = Aborted /\ servers' = servers /\ ip_to_key' = ip_to_key
        /\ queue' = IF Len(queue) < QUEUE_MAX THEN Append(queue, r) ELSE queue
    BY <1>4 DEF Enqueue, enqueue
  <2>2. jobs' = jobs
    BY <1>1, <2>1 DEF Transmit, Aborted
  <2>3. \A k \in Key : Occupied(servers, k) => servers[k].free_threads = 0
    BY <1>2, <1>4, BackendSelection DEF Enqueue
  <2>4. Hold
    BY <2>1, <2>2, <2>3 DEF Hold
  <2>5. CASE Len(queue) < QUEUE_MAX
    <3>1. queue' = Append(queue, r)
      BY <2>1, <2>5
    <3>2. Queued' = Queued \cup {r}
      BY <1>2, <3>1, AppendElements DEF Queued
    <3>3. dropped' = dropped
      BY <1>1, <3>2 DEF Discarded
    <3> QED
      BY <2>4, <3>1, <3>3 DEF Wait
  <2>6. CASE ~(Len(queue) < QUEUE_MAX)
    <3>1. queue' = queue /\ Len(queue) = QUEUE_MAX
      BY <1>2, <2>1, <2>6, SizesAssumption
    <3>2. r \notin Queued /\ r # NoRequest
      BY RequestsAssumption
    <3>3. dropped' = dropped \cup {r}
      BY <1>1, <2>1, <3>1, <3>2 DEF Discarded, Queued, Aborted
    <3> QED
      BY <2>4, <3>1, <3>3 DEF Overflow
  <2> QED
    BY <2>5, <2>6
<1> QED
  BY <1>1, <1>3, <1>4 DEF OnRequest

LEMMA RequestCases ==
  ASSUME SysInv, NEW r \in Request, LbRequest(r)
  PROVE  Direct(r) \/ Wait(r) \/ Overflow(r)
<1>1. r \notin Queued
  BY DEF SysInv, ExactlyOnePlace, LbRequest
<1> QED
  BY <1>1, RequestOutcomes DEF SysInv

-----------------------------------------------------------------------------
(* The load balancer inside the system is the load balancer in any         *)
(* surroundings: what was proved about the latter holds here.              *)

LEMMA StepIsLbStep == [Next]_vars => [LbNext]_lbvars
<1> SUFFICES ASSUME [Next]_vars PROVE [LbNext]_lbvars
  OBVIOUS
<1>1. ASSUME NEW s \in Server, LbPing(s) PROVE LbNext
  BY <1>1 DEF LbPing, LbNext
<1>2. ASSUME NEW r \in Request, LbRequest(r) PROVE LbNext
  BY <1>2 DEF LbRequest, LbNext
<1>3. ASSUME NEW r \in Request, ClientSend(r) PROVE UNCHANGED lbvars
  BY <1>3 DEF ClientSend
<1>4. ASSUME NEW s \in Server, WorkerMain(s) PROVE UNCHANGED lbvars
  BY <1>4 DEF WorkerMain
<1>5. ASSUME NEW s \in Server, NEW t \in Request, WorkerThread(s, t)
      PROVE  UNCHANGED lbvars
  BY <1>5 DEF WorkerThread
<1>6. CASE Idle
  BY <1>6 DEF Idle, vars
<1>7. CASE UNCHANGED vars
  BY <1>7 DEF vars
<1> QED
  BY <1>1, <1>2, <1>3, <1>4, <1>5, <1>6, <1>7 DEF Next

(* The composed system implements the specification of lb.c alone: every   *)
(* step is one invocation of the program or leaves its maps untouched.     *)
THEOREM SystemImplementsLb == Spec => LbSpec
<1>1. Init => LbInit
  BY DEF Init
<1> QED
  BY <1>1, StepIsLbStep, PTL DEF Spec, LbSpec

-----------------------------------------------------------------------------
(* The threads of a worker and what lb.c has charged. *)

LEMMA OutstandingType ==
  ASSUME TypeOK, NEW s \in Server
  PROVE  /\ Outstanding(s) \in Nat
         /\ Cardinality(jobs[s]) \in Nat
         /\ Cardinality(ThreadsAt(s, Live)) <= Outstanding(s)
         /\ mainpc[s] = "check" =>
              Cardinality(ThreadsAt(s, Live)) + 1 <= Outstanding(s)
<1>1. Cardinality(jobs[s]) \in Nat /\ pings[s] \in Nat
  BY JobSetFinite DEF TypeOK
<1> QED
  BY <1>1, ThreadSets DEF Outstanding

\* A worker with a thread, a datagram or work in hand is registered.
LEMMA BusyIsKnown ==
  ASSUME SysInv, NEW s \in Server, ip_to_key[s] # NoKey
  PROVE  /\ Outstanding(s) <= MAX_THREADS
         /\ n_threads[s] <= Cardinality(ThreadsAt(s, Live))
<1>1. servers[ip_to_key[s]].free_threads + Outstanding(s) = MAX_THREADS
      /\ ip_to_key[s] \in Key
  BY SlotOwner DEF SysInv, Conservation
<1>2. servers[ip_to_key[s]].free_threads \in Nat
  BY <1>1, SizesAssumption DEF SysInv, LbInv, LbTypeOK, dest_info, Cnt
<1>3. ThreadsAt(s, Counted) \subseteq ThreadsAt(s, Live)
  BY DEF ThreadsAt, Live, Counted
<1>4. Cardinality(ThreadsAt(s, Counted))
        <= Cardinality(ThreadsAt(s, Live))
  BY <1>3, ThreadSets, JobSetFinite, FS_Subset
<1>5. Outstanding(s) \in Nat
  BY OutstandingType DEF SysInv
<1> QED
  BY <1>1, <1>2, <1>4, <1>5, SizesAssumption DEF SysInv, ThreadsSound

\* The strengthened invariant gives the properties of the workers.
LEMMA InvNeverBusy == SysInv => NeverBusy
<1> SUFFICES ASSUME SysInv, NEW s \in Server, mainpc[s] = "check"
             PROVE  n_threads[s] < ServerThreads
  BY DEF NeverBusy
<1>1. ip_to_key[s] # NoKey
  BY DEF SysInv, RegistrationSound
<1>2. Cardinality(ThreadsAt(s, Live)) + 1 <= Outstanding(s)
      /\ Outstanding(s) \in Nat /\ n_threads[s] \in Int
      /\ Cardinality(ThreadsAt(s, Live)) \in Nat
  BY OutstandingType, ThreadSets DEF SysInv, TypeOK
<1>3. Outstanding(s) <= MAX_THREADS
      /\ n_threads[s] <= Cardinality(ThreadsAt(s, Live))
  BY <1>1, BusyIsKnown
<1> QED
  BY <1>2, <1>3, ThreadsAssumption, SizesAssumption

LEMMA InvThreadsBounded == SysInv => ThreadsBounded
<1> SUFFICES ASSUME SysInv, NEW s \in Server
             PROVE  Cardinality(ThreadsAt(s, Live)) <= MAX_THREADS
  BY DEF ThreadsBounded
<1>1. CASE ip_to_key[s] = NoKey
  <2>1. ThreadsAt(s, Live) = {}
    BY <1>1 DEF SysInv, RegistrationSound, ThreadsAt, Live
  <2> QED
    BY <2>1, FS_EmptySet, SizesAssumption
<1>2. CASE ip_to_key[s] # NoKey
  <2>1. Cardinality(ThreadsAt(s, Live)) <= Outstanding(s)
        /\ Outstanding(s) \in Nat /\ Cardinality(ThreadsAt(s, Live)) \in Nat
    BY OutstandingType, ThreadSets DEF SysInv
  <2> QED
    BY <1>2, <2>1, BusyIsKnown, SizesAssumption
<1> QED
  BY <1>1, <1>2

-----------------------------------------------------------------------------
(* Steps of the client and of the workers. *)

LEMMA LbUntouched ==
  ASSUME LbInv, UNCHANGED lbvars
  PROVE  LbInv' /\ LbTypeOK' /\ Queued' = Queued
<1>1. LbInv'
  BY LbStepInv
<1> QED
  BY <1>1 DEF LbInv, lbvars, Queued

LEMMA ClientSendInv ==
  ASSUME SysInv, NEW r \in Request, ClientSend(r)
  PROVE  SysInv'
<1> USE DEF SysInv
<1>1. /\ UNCHANGED lbvars /\ UNCHANGED wires /\ UNCHANGED servervars
      /\ dropped' = dropped /\ r \in unsent
      /\ unsent' = unsent \ {r} /\ reqs' = reqs \cup {r}
  BY DEF ClientSend
<1>2. LbInv' /\ LbTypeOK' /\ Queued' = Queued
  BY <1>1, LbUntouched
<1>3. TypeOK'
  BY <1>1, <1>2 DEF TypeOK, wires, servervars
<1>4. \A s \in Server : \A P : ThreadsAt(s, P)' = ThreadsAt(s, P)
  BY <1>1 DEF ThreadsAt, servervars
<1>5. RegistrationSound' /\ ThreadsSound'
  BY <1>1, <1>4 DEF RegistrationSound, ThreadsSound, lbvars, wires, servervars
<1>6. Conservation'
  BY <1>1, <1>4 DEF Conservation, Outstanding, Occupied, lbvars, wires, servervars
<1>7. \A s \in Server, x \in Request :
        AtWorker(s, x)' = AtWorker(s, x) /\ Held(s, x)' = Held(s, x)
  BY <1>1 DEF AtWorker, Held, wires, servervars
<1>8. ExactlyOnePlace'
  BY <1>1, <1>2, <1>7 DEF ExactlyOnePlace, lbvars, wires, servervars
<1> QED
  BY <1>2, <1>3, <1>5, <1>6, <1>8

\* A worker's step moves a job within the worker, and the rest of the system
\* does not notice.
LEMMA WorkerPlaces ==
  ASSUME SysInv, UNCHANGED <<lbvars, clientvars, dropped>>,
         \A s \in Server, r \in Request :
           /\ AtWorker(s, r)' <=> AtWorker(s, r)
           /\ r \in jobs'[s] => ~Held(s, r)' /\ thread'[s][r] = "none"
           /\ Held(s, r)' => thread'[s][r] = "none"
  PROVE  ExactlyOnePlace'
<1>1. Queued' = Queued /\ queue' = queue /\ UNCHANGED <<unsent, reqs, dropped>>
  BY DEF Queued, lbvars, clientvars
<1> QED
  BY <1>1 DEF SysInv, ExactlyOnePlace

LEMMA WorkerConserves ==
  ASSUME SysInv, UNCHANGED lbvars,
         \A s \in Server : ip_to_key[s] # NoKey =>
                             Outstanding(s)' = Outstanding(s)
  PROVE  Conservation'
<1>1. ASSUME NEW k \in Key, NEW s \in Server, servers[k].saddr = s
      PROVE  ip_to_key[s] # NoKey
  <2>1. Occupied(servers, k)
    BY <1>1, ServersAssumption DEF Occupied
  <2> QED
    BY <1>1, <2>1, SlotHost DEF SysInv, NoKey, Key
<1> QED
  BY <1>1 DEF SysInv, Conservation, lbvars

\* Every datagram of the system carries a job: "if data:" never fails.
LEMMA NeverSkips ==
  ASSUME ThreadsSound, NEW s \in Server, Skip(s)
  PROVE  FALSE
BY RequestsAssumption DEF ThreadsSound, Skip

LEMMA WorkerMainInv ==
  ASSUME SysInv, NEW s \in Server, WorkerMain(s)
  PROVE  SysInv'
<1> USE DEF SysInv
<1>1. MainStep(s) /\ UNCHANGED lbvars /\ UNCHANGED clientvars /\ dropped' = dropped
  BY DEF WorkerMain
<1>2. LbInv' /\ LbTypeOK' /\ Queued' = Queued /\ ip_to_key' = ip_to_key
  BY <1>1, LbUntouched DEF lbvars
<1>3. CASE SendStart(s)
  <2>1. /\ mainpc[s] = "start"
        /\ mainpc' = [mainpc EXCEPT ![s] = "recv"]
        /\ pings' = [pings EXCEPT ![s] = @ + 1]
        /\ UNCHANGED <<jobs, data, n_threads, thread, job, total_sleep_time>>
    BY <1>3 DEF SendStart
  <2>2. ip_to_key[s] = NoKey
    BY <2>1 DEF RegistrationSound
  <2>3. TypeOK'
    BY <1>1, <1>2, <2>1 DEF TypeOK, MainPc, clientvars
  <2>4. \A u \in Server : \A P : ThreadsAt(u, P)' = ThreadsAt(u, P)
    BY <2>1 DEF ThreadsAt
  <2>5. RegistrationSound'
    BY <1>2, <2>1, <2>2 DEF RegistrationSound, TypeOK
  <2>6. ThreadsSound'
    BY <2>1, <2>4 DEF ThreadsSound, TypeOK
  <2>7. Conservation'
    <3>1. \A u \in Server : u # s => Outstanding(u)' = Outstanding(u)
      BY <2>1, <2>4 DEF Outstanding, TypeOK
    <3> QED
      BY <1>1, <2>2, <3>1, WorkerConserves
  <2>8. ExactlyOnePlace'
    <3>1. \A u \in Server, x \in Request : Held(u, x)' = Held(u, x)
      BY <2>1 DEF Held, TypeOK
    <3>2. \A u \in Server, x \in Request : AtWorker(u, x)' = AtWorker(u, x)
      BY <2>1, <3>1 DEF AtWorker
    <3> QED
      BY <1>1, <2>1, <3>1, <3>2, WorkerPlaces DEF ExactlyOnePlace
  <2> QED
    BY <1>2, <2>3, <2>5, <2>6, <2>7, <2>8
<1>4. ASSUME NEW r \in Request, Recv(s, r) PROVE SysInv'
  <2>1. /\ mainpc[s] = "recv"
        /\ r \in jobs[s]
        /\ mainpc' = [mainpc EXCEPT ![s] = "check"]
        /\ jobs' = [jobs EXCEPT ![s] = @ \ {r}]
        /\ data' = [data EXCEPT ![s] = r]
        /\ UNCHANGED <<pings, n_threads, thread, job, total_sleep_time>>
    BY <1>4 DEF Recv
  <2>2. ip_to_key[s] # NoKey
    BY <2>1 DEF RegistrationSound
  <2>3. TypeOK'
    BY <1>1, <1>2, <2>1 DEF TypeOK, MainPc, clientvars
  <2>4. \A u \in Server : \A P : ThreadsAt(u, P)' = ThreadsAt(u, P)
    BY <2>1 DEF ThreadsAt
  <2>5. RegistrationSound'
    BY <1>2, <2>1, <2>2 DEF RegistrationSound, TypeOK
  <2>6. ThreadsSound'
    BY <2>1, <2>4 DEF ThreadsSound, TypeOK
  <2>7. Conservation'
    <3>1. \A u \in Server : u # s => Outstanding(u)' = Outstanding(u)
      BY <2>1, <2>4 DEF Outstanding, TypeOK
    <3>2. Cardinality(jobs'[s]) = Cardinality(jobs[s]) - 1
      BY <2>1, RemoveJob DEF TypeOK
    <3>3. Outstanding(s)' = Outstanding(s)
      BY <2>1, <2>4, <3>2, OutstandingType, ThreadSets DEF Outstanding, TypeOK
    <3> QED
      BY <1>1, <3>1, <3>3, WorkerConserves
  <2>8. ExactlyOnePlace'
    <3>1. \A u \in Server, x \in Request :
            Held(u, x)' <=> (Held(u, x) \/ (u = s /\ x = r))
      BY <2>1 DEF Held, TypeOK
    <3>2. \A u \in Server, x \in Request :
            x \in jobs'[u] <=> (x \in jobs[u] /\ ~(u = s /\ x = r))
      BY <2>1 DEF TypeOK
    <3>3. \A u \in Server, x \in Request : AtWorker(u, x)' <=> AtWorker(u, x)
      BY <2>1, <3>1, <3>2 DEF AtWorker
    <3> QED
      BY <1>1, <2>1, <3>1, <3>2, <3>3, WorkerPlaces DEF ExactlyOnePlace
  <2> QED
    BY <1>2, <2>3, <2>5, <2>6, <2>7, <2>8
<1>5. ~Busy(s)
  <2>1. NeverBusy /\ n_threads[s] \in Int
    BY InvNeverBusy DEF TypeOK
  <2> QED
    BY <2>1, SizesAssumption DEF NeverBusy, Busy
<1>6. CASE Spawn(s)
  <2>0. data[s] \in Request
    BY <1>6 DEF Spawn, ThreadsSound
  <2> PICK t \in Request : t = data[s]
    BY <2>0
  <2>1. /\ mainpc[s] = "check"
        /\ mainpc' = [mainpc EXCEPT ![s] = "recv"]
        /\ thread' = [thread EXCEPT ![s][t] = "started"]
        /\ UNCHANGED <<jobs, pings, data, n_threads, job, total_sleep_time>>
    BY <1>6 DEF Spawn, wires
  <2>2. Held(s, t) /\ ip_to_key[s] # NoKey
    BY <2>1 DEF RegistrationSound, Held
  <2>3. thread[s][t] = "none"
    BY <2>2 DEF ExactlyOnePlace
  <2>4. Goto(s, t, "none", "started") /\ thread \in [Server -> [Request -> ThreadPc]]
    BY <2>1, <2>3 DEF Goto, TypeOK
  <2>5. TypeOK'
    BY <1>1, <1>2, <2>1, <2>2 DEF TypeOK, MainPc, ThreadPc, clientvars
  <2>6. \A u \in Server, x \in Request :
          thread'[u][x] = IF u = s /\ x = t THEN "started" ELSE thread[u][x]
    BY <2>1, <2>2 DEF TypeOK
  <2>7. RegistrationSound'
    BY <1>2, <2>1, <2>2, <2>6 DEF RegistrationSound, TypeOK
  <2>8. \A u \in Server :
          /\ Cardinality(ThreadsAt(u, Counted)') = Cardinality(ThreadsAt(u, Counted))
          /\ Cardinality(ThreadsAt(u, Live)') = Cardinality(ThreadsAt(u, Live))
               + (IF u = s THEN 1 ELSE 0)
    <3>1. /\ "started" \notin Counted /\ "none" \notin Counted
          /\ "started" \in Live /\ "none" \notin Live
      BY DEF Live, Counted
    <3>2. \A u \in Server : /\ Cardinality(ThreadsAt(u, Live)) \in Nat
                            /\ Cardinality(ThreadsAt(u, Counted)) \in Nat
      BY ThreadSets
    <3>3. /\ \A u \in Server :
               Cardinality(ThreadsAt(u, Live)') = Cardinality(ThreadsAt(u, Live))
                 + (IF u = s /\ "started" \in Live THEN 1 ELSE 0)
                 - (IF u = s /\ "none" \in Live THEN 1 ELSE 0)
          /\ \A u \in Server :
               Cardinality(ThreadsAt(u, Counted)')
                 = Cardinality(ThreadsAt(u, Counted))
                 + (IF u = s /\ "started" \in Counted THEN 1 ELSE 0)
                 - (IF u = s /\ "none" \in Counted THEN 1 ELSE 0)
      BY <2>4, GotoLive
    <3> QED
      BY <3>1, <3>2, <3>3
  <2>9. ThreadsSound' /\ Conservation'
    <3>1. ThreadsSound'
      BY <2>1, <2>6, <2>8 DEF ThreadsSound, TypeOK
    <3>2. ASSUME NEW u \in Server PROVE Outstanding(u)' = Outstanding(u)
      <4>1. /\ Cardinality(jobs[u]) \in Nat /\ pings[u] \in Nat
            /\ Cardinality(ThreadsAt(u, Live)) \in Nat
        BY JobSetFinite, ThreadSets DEF TypeOK
      <4>2. mainpc'[u] = IF u = s THEN "recv" ELSE mainpc[u]
        BY <2>1 DEF TypeOK
      <4> QED
        BY <2>1, <2>8, <4>1, <4>2 DEF Outstanding
    <3> QED
      BY <1>1, <3>1, <3>2, WorkerConserves
  <2>10. ExactlyOnePlace'
    <3>1. \A u \in Server, x \in Request :
            Held(u, x)' <=> (Held(u, x) /\ ~(u = s /\ x = t))
      BY <2>1 DEF Held, TypeOK
    <3>2. \A u \in Server, x \in Request : AtWorker(u, x)' <=> AtWorker(u, x)
      BY <2>1, <2>2, <2>6, <3>1 DEF AtWorker
    <3> QED
      BY <1>1, <2>1, <2>2, <2>6, <3>1, <3>2, WorkerPlaces DEF ExactlyOnePlace
  <2> QED
    BY <1>2, <2>5, <2>7, <2>9, <2>10
<1> QED
  BY <1>1, <1>3, <1>4, <1>5, <1>6, NeverSkips DEF MainStep

-----------------------------------------------------------------------------
(* Steps of handler threads. *)

\* What all steps of a handler thread have in common.
LEMMA ThreadMoves ==
  ASSUME SysInv, NEW s \in Server, NEW t \in Request,
         NEW from \in Live, NEW to \in Live \cup {"done"}, Goto(s, t, from, to),
         UNCHANGED <<lbvars, clientvars, dropped, jobs, mainpc, data>>
  PROVE  /\ LbInv' /\ LbTypeOK'
         /\ thread' \in [Server -> [Request -> ThreadPc]]
         /\ ip_to_key[s] # NoKey
         /\ \A u \in Server, x \in Request :
              thread'[u][x] = IF u = s /\ x = t THEN to ELSE thread[u][x]
         /\ ExactlyOnePlace'
<1>1. LbInv' /\ LbTypeOK'
  BY LbUntouched DEF SysInv
<1>2. thread[s][t] = from /\ from # "none" /\ to # "none" /\ to \in ThreadPc
  BY DEF Goto, Live, ThreadPc
<1>3. thread' \in [Server -> [Request -> ThreadPc]]
      /\ \A u \in Server, x \in Request :
           thread'[u][x] = IF u = s /\ x = t THEN to ELSE thread[u][x]
  BY <1>2 DEF Goto, SysInv, TypeOK
<1>4. ip_to_key[s] # NoKey
  BY <1>2 DEF SysInv, RegistrationSound
<1>5. ExactlyOnePlace'
  <2>1. \A u \in Server, x \in Request :
          /\ Held(u, x)' = Held(u, x)
          /\ thread'[u][x] = "none" <=> thread[u][x] = "none"
    BY <1>2, <1>3 DEF Held
  <2>2. \A u \in Server, x \in Request : AtWorker(u, x)' <=> AtWorker(u, x)
    BY <2>1 DEF AtWorker
  <2>3. \A u \in Server, r \in Request :
          /\ r \in jobs[u] => ~Held(u, r) /\ thread[u][r] = "none"
          /\ Held(u, r) => thread[u][r] = "none"
    BY DEF SysInv, ExactlyOnePlace
  <2> QED
    BY <2>1, <2>2, <2>3, WorkerPlaces
<1> QED
  BY <1>1, <1>3, <1>4, <1>5

\* A thread that stays alive and outside the socket changes nothing that the
\* load balancer has charged.
LEMMA ThreadStaysLive ==
  ASSUME SysInv, NEW s \in Server, NEW t \in Request,
         NEW from, from \in Live, NEW to, to \in Live, Goto(s, t, from, to),
         UNCHANGED <<lbvars, jobs, pings, mainpc>>
  PROVE  Conservation'
<1>0. thread \in [Server -> [Request -> ThreadPc]]
  BY DEF SysInv, TypeOK
<1>1. ASSUME NEW u \in Server PROVE Outstanding(u)' = Outstanding(u)
  <2>1. Cardinality(ThreadsAt(u, Live)') = Cardinality(ThreadsAt(u, Live))
          + (IF u = s /\ to \in Live THEN 1 ELSE 0)
          - (IF u = s /\ from \in Live THEN 1 ELSE 0)
    BY <1>0, GotoCounts
  <2>2. Cardinality(ThreadsAt(u, Live)) \in Nat
    BY ThreadSets
  <2> QED
    BY <2>1, <2>2 DEF Outstanding
<1> QED
  BY <1>1, WorkerConserves

\* n_threads follows the number of counted threads.
LEMMA ThreadCounted ==
  ASSUME TypeOK, ThreadsSound, NEW s \in Server, NEW t \in Request,
         NEW from, NEW to, Goto(s, t, from, to)
  PROVE  \A u \in Server :
           Cardinality(ThreadsAt(u, Counted)') = n_threads[u]
             + (IF u = s /\ to \in Counted THEN 1 ELSE 0)
             - (IF u = s /\ from \in Counted THEN 1 ELSE 0)
BY GotoLive DEF TypeOK, ThreadsSound

LEMMA ThreadTypes ==
  ASSUME TypeOK, UNCHANGED <<clientvars, dropped, jobs, mainpc, data>>, LbTypeOK',
         thread' \in [Server -> [Request -> ThreadPc]],
         pings' \in [Server -> Nat],
         n_threads' \in [Server -> Int],
         job' \in [Server -> [Request -> Request \cup {NoRequest}]],
         total_sleep_time' \in [Server -> [Request -> Nat]]
  PROVE  TypeOK'
BY DEF TypeOK, clientvars

LEMMA WorkerThreadInv ==
  ASSUME SysInv, NEW s \in Server, NEW t \in Request, WorkerThread(s, t)
  PROVE  SysInv'
<1> USE DEF SysInv
<1>1. ThreadStep(s, t) /\ UNCHANGED <<lbvars, clientvars, dropped>>
      /\ ip_to_key' = ip_to_key
  BY DEF WorkerThread, lbvars
<1>2. \A x \in {"started", "bound", "sleeping", "slept", "left"} : x \in Live
  BY DEF Live
<1>3. /\ "started" \notin Counted /\ "bound" \notin Counted
      /\ "sleeping" \in Counted /\ "slept" \in Counted /\ "left" \notin Counted
      /\ "done" \notin Counted /\ "done" \notin Live
  BY DEF Counted, Live
<1>4. n_threads \in [Server -> Int]
  BY DEF TypeOK
<1>5. CASE ReadData(s, t)
  <2>1. /\ Goto(s, t, "started", "bound")
        /\ job' = [job EXCEPT ![s][t] = data[s]]
        /\ UNCHANGED <<jobs, pings, mainpc, data, n_threads, total_sleep_time>>
    BY <1>5 DEF ReadData, wires
  <2>2. /\ LbInv' /\ LbTypeOK' /\ ExactlyOnePlace' /\ ip_to_key[s] # NoKey
        /\ thread' \in [Server -> [Request -> ThreadPc]]
        /\ \A u \in Server, x \in Request :
             thread'[u][x] = IF u = s /\ x = t THEN "bound" ELSE thread[u][x]
    BY <1>1, <1>2, <2>1, ThreadMoves
  <2>3. data[s] \in Request
    BY <2>1 DEF Goto, ThreadsSound
  <2>4. TypeOK'
    <3>1. /\ pings' \in [Server -> Nat]
          /\ n_threads' \in [Server -> Int]
          /\ job' \in [Server -> [Request -> Request \cup {NoRequest}]]
          /\ total_sleep_time' \in [Server -> [Request -> Nat]]
      BY <2>1, <2>3 DEF TypeOK
    <3> QED
      BY <1>1, <2>1, <2>2, <3>1, ThreadTypes
  <2>5. RegistrationSound'
    BY <1>1, <2>1, <2>2 DEF RegistrationSound
  <2>6. ThreadsSound'
    <3>1. \A u \in Server : Cardinality(ThreadsAt(u, Counted)') = n_threads[u]
      BY <1>3, <1>4, <2>1, ThreadCounted
    <3>2. \A u \in Server, x \in Request :
            job'[u][x] = IF u = s /\ x = t THEN data[s] ELSE job[u][x]
      BY <2>1 DEF TypeOK
    <3> QED
      BY <2>1, <2>2, <2>3, <3>1, <3>2 DEF ThreadsSound
  <2>7. Conservation'
    BY <1>1, <1>2, <2>1, ThreadStaysLive
  <2> QED
    BY <2>2, <2>4, <2>5, <2>6, <2>7
<1>6. CASE CountIn(s, t)
  <2>1. /\ Goto(s, t, "bound", "sleeping")
        /\ n_threads' = [n_threads EXCEPT ![s] = @ + 1]
        /\ UNCHANGED <<jobs, pings, mainpc, data, job, total_sleep_time>>
    BY <1>6 DEF CountIn, wires
  <2>2. /\ LbInv' /\ LbTypeOK' /\ ExactlyOnePlace' /\ ip_to_key[s] # NoKey
        /\ thread' \in [Server -> [Request -> ThreadPc]]
        /\ \A u \in Server, x \in Request :
             thread'[u][x] = IF u = s /\ x = t THEN "sleeping" ELSE thread[u][x]
    BY <1>1, <1>2, <2>1, ThreadMoves
  <2>3. thread[s][t] = "bound"
    BY <2>1 DEF Goto
  <2>4. TypeOK'
    <3>1. /\ pings' \in [Server -> Nat]
          /\ n_threads' \in [Server -> Int]
          /\ job' \in [Server -> [Request -> Request \cup {NoRequest}]]
          /\ total_sleep_time' \in [Server -> [Request -> Nat]]
      BY <2>1 DEF TypeOK
    <3> QED
      BY <1>1, <2>1, <2>2, <3>1, ThreadTypes
  <2>5. RegistrationSound'
    BY <1>1, <2>1, <2>2 DEF RegistrationSound
  <2>6. ThreadsSound'
    <3>1. \A u \in Server : Cardinality(ThreadsAt(u, Counted)') = n_threads'[u]
      BY <1>3, <1>4, <2>1, ThreadCounted
    <3> QED
      BY <2>1, <2>2, <2>3, <3>1 DEF ThreadsSound
  <2>7. Conservation'
    BY <1>1, <1>2, <2>1, ThreadStaysLive
  <2> QED
    BY <2>2, <2>4, <2>5, <2>6, <2>7
<1>7. CASE WakeUp(s, t)
  <2>1. /\ Goto(s, t, "sleeping", "slept")
        /\ total_sleep_time' =
             [total_sleep_time EXCEPT ![s] =
                [r \in Request |-> IF job[s][t] = r THEN @[r] + 1 ELSE @[r]]]
        /\ UNCHANGED <<jobs, pings, mainpc, data, n_threads, job>>
    BY <1>7 DEF WakeUp, wires
  <2>2. /\ LbInv' /\ LbTypeOK' /\ ExactlyOnePlace' /\ ip_to_key[s] # NoKey
        /\ thread' \in [Server -> [Request -> ThreadPc]]
        /\ \A u \in Server, x \in Request :
             thread'[u][x] = IF u = s /\ x = t THEN "slept" ELSE thread[u][x]
    BY <1>1, <1>2, <2>1, ThreadMoves
  <2>3. job[s][t] \in Request
    BY <2>1 DEF Goto, ThreadsSound
  <2>4. TypeOK'
    <3>1. /\ pings' \in [Server -> Nat]
          /\ n_threads' \in [Server -> Int]
          /\ job' \in [Server -> [Request -> Request \cup {NoRequest}]]
          /\ total_sleep_time' \in [Server -> [Request -> Nat]]
      BY <2>1, <2>3 DEF TypeOK
    <3> QED
      BY <1>1, <2>1, <2>2, <3>1, ThreadTypes
  <2>5. RegistrationSound'
    BY <1>1, <2>1, <2>2 DEF RegistrationSound
  <2>6. ThreadsSound'
    <3>1. \A u \in Server : Cardinality(ThreadsAt(u, Counted)') = n_threads[u]
      BY <1>3, <1>4, <2>1, ThreadCounted
    <3> QED
      BY <2>1, <2>2, <3>1 DEF ThreadsSound
  <2>7. Conservation'
    BY <1>1, <1>2, <2>1, ThreadStaysLive
  <2> QED
    BY <2>2, <2>4, <2>5, <2>6, <2>7
<1>8. CASE CountOut(s, t)
  <2>1. /\ Goto(s, t, "slept", "left")
        /\ n_threads' = [n_threads EXCEPT ![s] = @ - 1]
        /\ UNCHANGED <<jobs, pings, mainpc, data, job, total_sleep_time>>
    BY <1>8 DEF CountOut, wires
  <2>2. /\ LbInv' /\ LbTypeOK' /\ ExactlyOnePlace' /\ ip_to_key[s] # NoKey
        /\ thread' \in [Server -> [Request -> ThreadPc]]
        /\ \A u \in Server, x \in Request :
             thread'[u][x] = IF u = s /\ x = t THEN "left" ELSE thread[u][x]
    BY <1>1, <1>2, <2>1, ThreadMoves
  <2>3. TypeOK'
    <3>1. /\ pings' \in [Server -> Nat]
          /\ n_threads' \in [Server -> Int]
          /\ job' \in [Server -> [Request -> Request \cup {NoRequest}]]
          /\ total_sleep_time' \in [Server -> [Request -> Nat]]
      BY <2>1 DEF TypeOK
    <3> QED
      BY <1>1, <2>1, <2>2, <3>1, ThreadTypes
  <2>4. RegistrationSound'
    BY <1>1, <2>1, <2>2 DEF RegistrationSound
  <2>5. ThreadsSound'
    <3>1. \A u \in Server : Cardinality(ThreadsAt(u, Counted)') = n_threads'[u]
      BY <1>3, <1>4, <2>1, ThreadCounted
    <3> QED
      BY <2>1, <2>2, <3>1 DEF ThreadsSound
  <2>6. Conservation'
    BY <1>1, <1>2, <2>1, ThreadStaysLive
  <2> QED
    BY <2>2, <2>3, <2>4, <2>5, <2>6
<1>9. CASE SendDone(s, t)
  <2>1. /\ Goto(s, t, "left", "done")
        /\ pings' = [pings EXCEPT ![s] = @ + 1]
        /\ UNCHANGED <<jobs, mainpc, data, n_threads, job, total_sleep_time>>
    BY <1>9 DEF SendDone
  <2>2. /\ LbInv' /\ LbTypeOK' /\ ExactlyOnePlace' /\ ip_to_key[s] # NoKey
        /\ thread' \in [Server -> [Request -> ThreadPc]]
        /\ \A u \in Server, x \in Request :
             thread'[u][x] = IF u = s /\ x = t THEN "done" ELSE thread[u][x]
    BY <1>1, <1>2, <2>1, ThreadMoves
  <2>3. TypeOK'
    <3>1. /\ pings' \in [Server -> Nat]
          /\ n_threads' \in [Server -> Int]
          /\ job' \in [Server -> [Request -> Request \cup {NoRequest}]]
          /\ total_sleep_time' \in [Server -> [Request -> Nat]]
      BY <2>1 DEF TypeOK
    <3> QED
      BY <1>1, <2>1, <2>2, <3>1, ThreadTypes
  <2>4. RegistrationSound'
    BY <1>1, <2>1, <2>2 DEF RegistrationSound, TypeOK
  <2>5. ThreadsSound'
    <3>1. \A u \in Server : Cardinality(ThreadsAt(u, Counted)') = n_threads[u]
      BY <1>3, <1>4, <2>1, ThreadCounted
    <3> QED
      BY <2>1, <2>2, <3>1 DEF ThreadsSound
  <2>6. Conservation'
    <3>1. ASSUME NEW u \in Server PROVE Outstanding(u)' = Outstanding(u)
      <4>1. Cardinality(ThreadsAt(u, Live)') = Cardinality(ThreadsAt(u, Live))
              + (IF u = s /\ "done" \in Live THEN 1 ELSE 0)
              - (IF u = s /\ "left" \in Live THEN 1 ELSE 0)
        BY <2>1, GotoLive DEF TypeOK
      <4>2. /\ Cardinality(jobs[u]) \in Nat /\ pings[u] \in Nat
            /\ Cardinality(ThreadsAt(u, Live)) \in Nat
        BY JobSetFinite, ThreadSets DEF TypeOK
      <4>3. pings'[u] = IF u = s THEN pings[u] + 1 ELSE pings[u]
        BY <2>1 DEF TypeOK
      <4> QED
        BY <1>2, <1>3, <2>1, <4>1, <4>2, <4>3 DEF Outstanding
    <3> QED
      BY <1>1, <3>1, WorkerConserves
  <2> QED
    BY <2>2, <2>3, <2>4, <2>5, <2>6
<1> QED
  BY <1>1, <1>5, <1>6, <1>7, <1>8, <1>9 DEF ThreadStep

-----------------------------------------------------------------------------
(* Invocations of the XDP program. *)

\* The program runs next to the workers: it touches their sockets only.
LEMMA BesideWorkers ==
  ASSUME UNCHANGED servervars
  PROVE  /\ UNCHANGED <<mainpc, data, n_threads, thread, job, total_sleep_time>>
         /\ \A u \in Server, x \in Request : Held(u, x)' = Held(u, x)
         /\ \A u \in Server : /\ ThreadsAt(u, Live)' = ThreadsAt(u, Live)
                              /\ ThreadsAt(u, Counted)' = ThreadsAt(u, Counted)
BY DEF servervars, Held, ThreadsAt

LEMMA ThreadsKept ==
  ASSUME ThreadsSound, UNCHANGED servervars
  PROVE  ThreadsSound'
BY BesideWorkers DEF ThreadsSound

\* A job moves from the load balancer's hands to the socket of a worker.
LEMMA JobSent ==
  ASSUME LbInv, jobs \in [Server -> SUBSET Request],
         NEW b \in Key, Occupied(servers, b), NEW r \in Request,
         \A u \in Server : ~AtWorker(u, r),
         SendTo(b, r), UNCHANGED servervars
  PROVE  /\ jobs' \in [Server -> SUBSET Request]
         /\ \A u \in Server : jobs'[u] = IF servers[b].saddr = u
                                         THEN jobs[u] \cup {r} ELSE jobs[u]
         /\ \A u \in Server : Cardinality(jobs'[u]) = Cardinality(jobs[u])
                                + (IF servers[b].saddr = u THEN 1 ELSE 0)
         /\ \A u \in Server, x \in Request :
              AtWorker(u, x)' <=> \/ AtWorker(u, x)
                                  \/ u = servers[b].saddr /\ x = r
<1>1. servers[b].saddr \in Server /\ jobs \in [Server -> SUBSET Request]
  BY SlotHost
<1>2. jobs' \in [Server -> SUBSET Request]
      /\ \A u \in Server : jobs'[u] = IF servers[b].saddr = u
                                      THEN jobs[u] \cup {r} ELSE jobs[u]
  BY <1>1 DEF SendTo
<1>3. ASSUME NEW u \in Server
      PROVE  Cardinality(jobs'[u]) = Cardinality(jobs[u])
                                + (IF servers[b].saddr = u THEN 1 ELSE 0)
  <2>1. jobs[u] \in SUBSET Request /\ r \notin jobs[u] /\ Cardinality(jobs[u]) \in Nat
    BY <1>1, JobSetFinite DEF AtWorker
  <2> QED
    BY <1>2, <2>1, AddJob
<1>4. \A u \in Server, x \in Request :
        AtWorker(u, x)' <=> \/ AtWorker(u, x)
                            \/ u = servers[b].saddr /\ x = r
  BY <1>2, BesideWorkers DEF AtWorker
<1> QED
  BY <1>2, <1>3, <1>4

\* Slots and outstanding work move together.
LEMMA MoveConserves ==
  ASSUME SysInv, NEW up, NEW down, SlotsMove(up, down),
         up \in Key => servers[up].free_threads < MAX_THREADS,
         \A k \in Key : servers[k].free_threads \in Nat,
         \A k \in Key, u \in Server : servers[k].saddr = u =>
           Outstanding(u)' = Outstanding(u)
             - (IF k = up THEN 1 ELSE 0) + (IF k = down THEN 1 ELSE 0)
  PROVE  Conservation'
<1> SUFFICES ASSUME NEW k \in Key, NEW u \in Server, servers'[k].saddr = u
             PROVE  servers'[k].free_threads + Outstanding(u)' = MAX_THREADS
  BY DEF Conservation
<1>1. servers[k].saddr = u
      /\ servers'[k].free_threads = servers[k].free_threads
           + (IF k = up THEN 1 ELSE 0) - (IF k = down THEN 1 ELSE 0)
  BY DEF SlotsMove, Gain
<1>2. Outstanding(u)' = Outstanding(u)
        - (IF k = up THEN 1 ELSE 0) + (IF k = down THEN 1 ELSE 0)
  BY <1>1
<1>3. servers[k].free_threads + Outstanding(u) = MAX_THREADS
  BY <1>1 DEF SysInv, Conservation
<1>4. Outstanding(u) \in Nat /\ servers[k].free_threads \in Nat
  BY OutstandingType DEF SysInv
<1> QED
  BY <1>1, <1>2, <1>3, <1>4, SizesAssumption

LEMMA LbOutstanding ==
  ASSUME TypeOK, UNCHANGED servervars, NEW u \in Server,
         NEW dj \in Int, Cardinality(jobs'[u]) = Cardinality(jobs[u]) + dj,
         NEW dp \in Int, pings'[u] = pings[u] + dp
  PROVE  Outstanding(u)' = Outstanding(u) + dj + dp
<1>1. /\ Cardinality(jobs[u]) \in Nat /\ pings[u] \in Nat
      /\ Cardinality(ThreadsAt(u, Live)) \in Nat
  BY JobSetFinite, ThreadSets DEF TypeOK
<1>2. ThreadsAt(u, Live)' = ThreadsAt(u, Live) /\ mainpc' = mainpc
  BY BesideWorkers
<1> QED
  BY <1>1, <1>2 DEF Outstanding

\* The facts every ping of s and every slot share.
LEMMA SlotFacts ==
  ASSUME LbInv, NEW k \in Key, NEW j \in Key, NEW u \in Server, NEW s \in Server,
         servers[k].saddr = u, servers[j].saddr = s
  PROVE  u = s <=> k = j
BY SlotUnique, ServersAssumption DEF Occupied

LEMMA FreeNat ==
  ASSUME LbInv, NEW k \in Key
  PROVE  servers[k].free_threads \in Nat
BY SizesAssumption DEF LbInv, LbTypeOK, dest_info, Cnt

\* The places of all jobs when the load balancer's step moves no job.
LEMMA NoJobMoves ==
  ASSUME SysInv, UNCHANGED <<queue, jobs, dropped, servervars, clientvars>>
  PROVE  ExactlyOnePlace'
<1>1. Queued' = Queued /\ UNCHANGED <<queue, unsent, reqs, dropped, thread>>
  BY DEF Queued, servervars, clientvars
<1>2. \A u \in Server, x \in Request :
        AtWorker(u, x)' = AtWorker(u, x) /\ Held(u, x)' = Held(u, x)
  BY DEF AtWorker, Held, servervars
<1> QED
  BY <1>1, <1>2 DEF SysInv, ExactlyOnePlace

LEMMA FirstPingConserves ==
  ASSUME SysInv, NEW s \in Server, FirstPing(s), UNCHANGED servervars,
         pings[s] > 0, pings' = [pings EXCEPT ![s] = @ - 1]
  PROVE  Conservation'
<1> USE DEF SysInv
<1> SUFFICES ASSUME NEW k \in Key, NEW u \in Server, servers'[k].saddr = u
             PROVE  servers'[k].free_threads + Outstanding(u)' = MAX_THREADS
  BY DEF Conservation
<1>1. servers'[k] = IF k = server_cnt
                    THEN [saddr |-> s, free_threads |-> MAX_THREADS]
                    ELSE servers[k]
  BY DEF FirstPing, LbInv, LbTypeOK
<1>2. jobs' = jobs /\ ip_to_key[s] = NoKey
  BY DEF FirstPing
<1>3. CASE k = server_cnt
  <2>1. u = s /\ servers'[k].free_threads = MAX_THREADS
    BY <1>1, <1>3
  <2>2. /\ jobs[s] = {} /\ mainpc[s] # "check" /\ pings[s] = 1
        /\ \A t \in Request : thread[s][t] = "none"
    BY <1>2 DEF RegistrationSound, TypeOK
  <2>3. ThreadsAt(s, Live) = {}
    BY <2>2 DEF ThreadsAt, Live
  <2>4. Outstanding(s)' = 0
    <3>1. /\ pings'[s] = 0 /\ ThreadsAt(s, Live)' = {} /\ mainpc' = mainpc
          /\ jobs'[s] = {}
      BY <1>2, <2>2, <2>3, BesideWorkers DEF TypeOK
    <3>2. Cardinality({}) = 0
      BY FS_EmptySet
    <3> QED
      BY <2>2, <3>1, <3>2 DEF Outstanding
  <2> QED
    BY <2>1, <2>4, SizesAssumption
<1>4. CASE k # server_cnt
  <2>1. servers[k].saddr = u /\ servers'[k] = servers[k] /\ u # s
    <3>1. servers'[k] = servers[k] /\ servers[k].saddr = u
      BY <1>1, <1>4
    <3>2. Occupied(servers, k)
      BY <3>1, ServersAssumption DEF Occupied
    <3> QED
      BY <1>2, <3>1, <3>2, SlotHost DEF NoKey, Key
  <2>2. Outstanding(u)' = Outstanding(u)
    <3>0. Cardinality(jobs[u]) \in Nat
      BY OutstandingType
    <3>1. pings'[u] = pings[u] + 0 /\ Cardinality(jobs'[u]) = Cardinality(jobs[u]) + 0
      BY <1>2, <2>1, <3>0 DEF TypeOK
    <3>2. Outstanding(u)' = Outstanding(u) + 0 + 0
      BY <3>1, LbOutstanding
    <3> QED
      BY <3>2, OutstandingType
  <2> QED
    BY <2>1, <2>2 DEF Conservation
<1> QED
  BY <1>3, <1>4

\* The owner of the slot down, and nobody else, got a datagram.
JobsMove(down) ==
  \A k \in Key, u \in Server : servers[k].saddr = u =>
    Cardinality(jobs'[u]) = Cardinality(jobs[u]) + (IF k = down THEN 1 ELSE 0)

\* A ping of a registered worker: its slot gains a thread and the ping is
\* gone; the slot down, if any, is charged the job that was sent to it.
LEMMA PingConserves ==
  ASSUME SysInv, NEW s \in Server, ip_to_key[s] # NoKey, UNCHANGED servervars,
         pings[s] > 0, pings' = [pings EXCEPT ![s] = @ - 1],
         NEW up \in Key, up = ip_to_key[s], NEW down \in Key \cup {NoKey},
         SlotsMove(up, down), JobsMove(down)
  PROVE  Conservation'
<1>1. servers[up].saddr = s
  BY SlotOwner DEF SysInv
<1>2. ASSUME NEW k \in Key, NEW u \in Server, servers[k].saddr = u
      PROVE  Outstanding(u)' = Outstanding(u)
               - (IF k = up THEN 1 ELSE 0) + (IF k = down THEN 1 ELSE 0)
  <2> DEFINE dj == IF k = down THEN 1 ELSE 0
             dp == IF k = up THEN -1 ELSE 0
  <2>1. pings'[u] = pings[u] + dp
    <3>1. u = s <=> k = up
      BY <1>1, <1>2, SlotFacts DEF SysInv
    <3> QED
      BY <3>1 DEF SysInv, TypeOK
  <2>2. Cardinality(jobs'[u]) = Cardinality(jobs[u]) + dj
    BY <1>2 DEF JobsMove
  <2>3. dj \in Int /\ dp \in Int
    OBVIOUS
  <2> HIDE DEF dj, dp
  <2>4. Outstanding(u)' = Outstanding(u) + dj + dp
    BY <2>1, <2>2, <2>3, LbOutstanding DEF SysInv
  <2>5. Outstanding(u) \in Nat
    BY OutstandingType DEF SysInv
  <2> QED
    BY <2>4, <2>5 DEF dj, dp
<1>3. servers[up].free_threads < MAX_THREADS
  BY PingRoom
<1> QED
  BY <1>2, <1>3, FreeNat, MoveConserves DEF SysInv

LEMMA LbPingInv ==
  ASSUME SysInv, NEW s \in Server, LbPing(s)
  PROVE  SysInv'
<1> USE DEF SysInv
<1>1. /\ pings[s] > 0
      /\ pings' = [pings EXCEPT ![s] = @ - 1]
      /\ UNCHANGED servervars /\ UNCHANGED clientvars
  BY DEF LbPing
<1>2. LbInv' /\ LbTypeOK'
  <2>1. [LbNext]_lbvars
    BY StepIsLbStep DEF Next
  <2> QED
    BY <2>1, LbStepInv DEF LbInv
<1>3. ThreadsSound'
  BY <1>1, ThreadsKept
<1>4. mainpc[s] # "start" /\ pings' \in [Server -> Nat]
      /\ \A u \in Server : u # s => pings'[u] = pings[u]
  BY <1>1 DEF RegistrationSound, TypeOK
<1>5. ASSUME jobs' \in [Server -> SUBSET Request], dropped' \in SUBSET Request
      PROVE  TypeOK'
  BY <1>1, <1>2, <1>4, <1>5 DEF TypeOK, servervars, clientvars
<1>6. CASE FirstPing(s)
  <2>1. UNCHANGED <<queue, jobs, dropped>>
    BY <1>6 DEF FirstPing
  <2>2. TypeOK' /\ ExactlyOnePlace'
    BY <1>1, <1>5, <2>1, NoJobMoves DEF TypeOK
  <2>3. \A u \in Server : ip_to_key'[u] = IF u = s THEN server_cnt ELSE ip_to_key[u]
    BY <1>6 DEF FirstPing, TypeOK, LbTypeOK
  <2>4. server_cnt # NoKey
    BY <1>6 DEF FirstPing, Key, NoKey
  <2>5. RegistrationSound'
    BY <1>1, <1>4, <2>1, <2>3, <2>4, BesideWorkers DEF RegistrationSound
  <2>6. Conservation'
    BY <1>1, <1>6, FirstPingConserves
  <2> QED
    BY <1>2, <1>3, <2>2, <2>5, <2>6
<1>7. ASSUME ip_to_key[s] # NoKey, ip_to_key' = ip_to_key,
             \A u \in Server : jobs[u] = {} => \/ jobs'[u] = {}
                                               \/ ip_to_key[u] # NoKey
      PROVE  RegistrationSound'
  BY <1>1, <1>4, <1>7, BesideWorkers DEF RegistrationSound
<1>8. ASSUME ip_to_key[s] # NoKey
      PROVE  \E up \in Key : up = ip_to_key[s]
  BY <1>8, SlotOwner
<1>9. CASE Credit(s)
  <2>1. UNCHANGED <<queue, jobs, dropped>> /\ ip_to_key[s] # NoKey
        /\ ip_to_key' = ip_to_key /\ SlotsMove(ip_to_key[s], NoKey)
    BY <1>9 DEF Credit
  <2>2. TypeOK' /\ ExactlyOnePlace'
    BY <1>1, <1>5, <2>1, NoJobMoves DEF TypeOK
  <2>3. RegistrationSound'
    BY <1>7, <2>1
  <2>4. Conservation'
    <3>1. PICK up \in Key : up = ip_to_key[s]
      BY <1>8, <2>1
    <3>2. SlotsMove(up, NoKey)
      BY <2>1, <3>1 DEF SlotsMove
    <3>3. JobsMove(NoKey)
      BY <2>1, OutstandingType DEF JobsMove, Key, NoKey
    <3> QED
      BY <1>1, <2>1, <3>1, <3>2, <3>3, PingConserves
  <2> QED
    BY <1>2, <1>3, <2>2, <2>3, <2>4
<1>10. ASSUME queue # << >>
       PROVE  /\ Head(queue) \in Request /\ Head(queue) \in Queued
              /\ \A u \in Server : ~AtWorker(u, Head(queue))
              /\ Head(queue) \notin unsent \cup reqs \cup dropped
  <2>1. queue \in Seq(Request)
        /\ \A i, j \in 1 .. Len(queue) : queue[i] = queue[j] => i = j
    BY DEF LbInv, LbTypeOK, ExactlyOnePlace
  <2>2. Head(queue) \in Request /\ Head(queue) \in Queued
    BY <1>10, <2>1, TailElements DEF Queued
  <2> QED
    BY <2>2 DEF ExactlyOnePlace
<1>11. ASSUME queue # << >>, queue' = Tail(queue)
       PROVE  /\ Queued' = Queued \ {Head(queue)}
              /\ \A i, j \in 1 .. Len(queue') : queue'[i] = queue'[j] => i = j
  <2>1. queue \in Seq(Request)
        /\ \A i, j \in 1 .. Len(queue) : queue[i] = queue[j] => i = j
    BY DEF LbInv, LbTypeOK, ExactlyOnePlace
  <2> QED
    BY <1>11, <2>1, TailElements DEF Queued
<1>12. CASE HandOver(s)
  <2>1. /\ ip_to_key[s] # NoKey /\ ip_to_key' = ip_to_key /\ dropped' = dropped
        /\ queue # << >> /\ queue' = Tail(queue)
    BY <1>12 DEF HandOver
  <2>2. PICK b \in Key : /\ Occupied(servers, b)
                        /\ SlotsMove(ip_to_key[s], b)
                        /\ SendTo(b, Head(queue))
    BY <1>12 DEF HandOver
  <2>3. PICK r \in Request : r = Head(queue)
    BY <1>10, <2>1
  <2>4. PICK d \in Server : d = servers[b].saddr /\ ip_to_key[d] # NoKey
    BY <2>2, SlotHost DEF Key, NoKey
  <2>5. /\ \A u \in Server : ~AtWorker(u, r)
        /\ SendTo(b, r)
    BY <1>10, <2>1, <2>2, <2>3
  <2>6. /\ jobs' \in [Server -> SUBSET Request]
        /\ \A u \in Server : jobs'[u] = IF d = u THEN jobs[u] \cup {r} ELSE jobs[u]
        /\ \A u \in Server : Cardinality(jobs'[u]) = Cardinality(jobs[u])
                               + (IF d = u THEN 1 ELSE 0)
        /\ \A u \in Server, x \in Request :
             AtWorker(u, x)' <=> (AtWorker(u, x) \/ (u = d /\ x = r))
    <3>1. LbInv /\ jobs \in [Server -> SUBSET Request] /\ UNCHANGED servervars
      BY <1>1 DEF TypeOK
    <3>2. b \in Key /\ Occupied(servers, b) /\ r \in Request
      BY <2>2
    <3> HIDE DEF SysInv
    <3>3. /\ jobs' \in [Server -> SUBSET Request]
          /\ \A u \in Server : jobs'[u] = IF servers[b].saddr = u
                                          THEN jobs[u] \cup {r} ELSE jobs[u]
          /\ \A u \in Server : Cardinality(jobs'[u]) = Cardinality(jobs[u])
                                 + (IF servers[b].saddr = u THEN 1 ELSE 0)
          /\ \A u \in Server, x \in Request :
               AtWorker(u, x)' <=> \/ AtWorker(u, x)
                                   \/ u = servers[b].saddr /\ x = r
      BY <2>5, <3>1, <3>2, JobSent
    <3> QED
      BY <2>4, <3>3
  <2>7. TypeOK'
    BY <1>5, <2>1, <2>6 DEF TypeOK
  <2>8. RegistrationSound'
    BY <1>7, <2>1, <2>4, <2>6
  <2>9. Conservation'
    <3>1. PICK up \in Key : up = ip_to_key[s]
      BY <1>8, <2>1
    <3>2. SlotsMove(up, b)
      BY <2>2, <3>1 DEF SlotsMove
    <3>3. ASSUME NEW k \in Key, NEW u \in Server, servers[k].saddr = u
          PROVE  Cardinality(jobs'[u]) = Cardinality(jobs[u])
                   + (IF k = b THEN 1 ELSE 0)
      <4>1. u = d <=> k = b
        BY <2>4, <3>3, SlotFacts
      <4> QED
        BY <2>6, <4>1
    <3>4. JobsMove(b)
      BY <3>3 DEF JobsMove
    <3> QED
      BY <1>1, <2>1, <3>1, <3>2, <3>4, PingConserves
  <2>10. ExactlyOnePlace'
    <3>1. /\ Queued' = Queued \ {r} /\ r \in Queued /\ r \notin unsent \cup reqs \cup dropped
          /\ \A i, j \in 1 .. Len(queue') : queue'[i] = queue'[j] => i = j
      BY <1>10, <1>11, <2>1, <2>3
    <3>2. /\ UNCHANGED <<unsent, reqs, dropped, thread>>
          /\ \A u \in Server, x \in Request : Held(u, x)' = Held(u, x)
      BY <1>1, <2>1, BesideWorkers DEF clientvars
    <3>3. \A u \in Server : ~Held(u, r) /\ thread[u][r] = "none" /\ r \notin jobs[u]
      BY <2>5 DEF AtWorker
    <3> QED
      BY <2>5, <2>6, <3>1, <3>2, <3>3 DEF ExactlyOnePlace
  <2> QED
    BY <1>2, <1>3, <2>7, <2>8, <2>9, <2>10
<1>13. CASE Waste(s)
  <2>1. /\ ip_to_key[s] # NoKey /\ ip_to_key' = ip_to_key /\ jobs' = jobs
        /\ queue # << >> /\ queue' = Tail(queue)
        /\ SlotsMove(ip_to_key[s], NoKey)
        /\ dropped' = dropped \cup {Head(queue)}
    BY <1>13 DEF Waste
  <2>2. TypeOK'
    BY <1>5, <1>10, <2>1 DEF TypeOK
  <2>3. RegistrationSound'
    BY <1>7, <2>1
  <2>4. Conservation'
    <3>1. PICK up \in Key : up = ip_to_key[s]
      BY <1>8, <2>1
    <3>2. SlotsMove(up, NoKey)
      BY <2>1, <3>1 DEF SlotsMove
    <3>3. JobsMove(NoKey)
      BY <2>1, OutstandingType DEF JobsMove, Key, NoKey
    <3> QED
      BY <1>1, <2>1, <3>1, <3>2, <3>3, PingConserves
  <2>5. ExactlyOnePlace'
    <3>1. PICK r \in Request : r = Head(queue)
      BY <1>10, <2>1
    <3>2. /\ Queued' = Queued \ {r} /\ r \in Queued /\ r \notin unsent \cup reqs \cup dropped
          /\ \A i, j \in 1 .. Len(queue') : queue'[i] = queue'[j] => i = j
          /\ \A u \in Server : ~AtWorker(u, r)
          /\ dropped' = dropped \cup {r}
      BY <1>10, <1>11, <2>1, <3>1
    <3>3. /\ UNCHANGED <<unsent, reqs, thread>>
          /\ \A u \in Server, x \in Request :
               Held(u, x)' = Held(u, x) /\ AtWorker(u, x)' = AtWorker(u, x)
      BY <1>1, <2>1, BesideWorkers DEF clientvars, AtWorker
    <3> QED
      BY <2>1, <3>2, <3>3 DEF ExactlyOnePlace
  <2> QED
    BY <1>2, <1>3, <2>2, <2>3, <2>4, <2>5
<1> QED
  BY <1>6, <1>9, <1>12, <1>13, PingCases

-----------------------------------------------------------------------------
LEMMA LbRequestInv ==
  ASSUME SysInv, NEW r \in Request, LbRequest(r)
  PROVE  SysInv'
<1> USE DEF SysInv
<1>1. /\ r \in reqs /\ reqs' = reqs \ {r} /\ unsent' = unsent /\ pings' = pings
      /\ UNCHANGED servervars
  BY DEF LbRequest
<1>2. LbInv' /\ LbTypeOK'
  <2>1. [LbNext]_lbvars
    BY StepIsLbStep DEF Next
  <2> QED
    BY <2>1, LbStepInv DEF LbInv
<1>3. ThreadsSound'
  BY <1>1, ThreadsKept
<1>4. ASSUME jobs' \in [Server -> SUBSET Request], dropped' \in SUBSET Request
      PROVE  TypeOK'
  BY <1>1, <1>2, <1>4 DEF TypeOK, servervars
<1>5. ASSUME ip_to_key' = ip_to_key,
             \A u \in Server : jobs[u] = {} => \/ jobs'[u] = {}
                                               \/ ip_to_key[u] # NoKey
      PROVE  RegistrationSound'
  BY <1>1, <1>5, BesideWorkers DEF RegistrationSound
<1>6. /\ r \notin unsent \cup dropped \cup Queued
      /\ \A u \in Server : ~AtWorker(u, r)
      /\ \A i, j \in 1 .. Len(queue) : queue[i] = queue[j] => i = j
      /\ queue \in Seq(Request)
  BY <1>1 DEF ExactlyOnePlace, LbInv, LbTypeOK
<1>7. /\ thread' = thread
      /\ \A u \in Server, x \in Request : Held(u, x)' = Held(u, x)
  BY <1>1, BesideWorkers
<1>8. CASE Direct(r)
  <2>1. ip_to_key' = ip_to_key /\ dropped' = dropped /\ queue' = queue
        /\ Queued' = Queued
    BY <1>8 DEF Direct, Queued
  <2>2. PICK b \in Key : /\ Occupied(servers, b)
                        /\ SlotsMove(NoKey, b)
                        /\ SendTo(b, r)
    BY <1>8 DEF Direct
  <2>3. PICK d \in Server : d = servers[b].saddr /\ ip_to_key[d] # NoKey
    BY <2>2, SlotHost DEF Key, NoKey
  <2>4. /\ jobs' \in [Server -> SUBSET Request]
        /\ \A u \in Server : jobs'[u] = IF d = u THEN jobs[u] \cup {r} ELSE jobs[u]
        /\ \A u \in Server : Cardinality(jobs'[u]) = Cardinality(jobs[u])
                               + (IF d = u THEN 1 ELSE 0)
        /\ \A u \in Server, x \in Request :
             AtWorker(u, x)' <=> (AtWorker(u, x) \/ (u = d /\ x = r))
    <3>1. LbInv /\ jobs \in [Server -> SUBSET Request] /\ UNCHANGED servervars
      BY <1>1 DEF TypeOK
    <3>2. b \in Key /\ Occupied(servers, b) /\ \A u \in Server : ~AtWorker(u, r)
      BY <1>6, <2>2
    <3> HIDE DEF SysInv
    <3>3. /\ jobs' \in [Server -> SUBSET Request]
          /\ \A u \in Server : jobs'[u] = IF servers[b].saddr = u
                                          THEN jobs[u] \cup {r} ELSE jobs[u]
          /\ \A u \in Server : Cardinality(jobs'[u]) = Cardinality(jobs[u])
                                 + (IF servers[b].saddr = u THEN 1 ELSE 0)
          /\ \A u \in Server, x \in Request :
               AtWorker(u, x)' <=> \/ AtWorker(u, x)
                                   \/ u = servers[b].saddr /\ x = r
      BY <2>2, <3>1, <3>2, JobSent
    <3> QED
      BY <2>3, <3>3
  <2>5. TypeOK'
    BY <1>4, <2>1, <2>4 DEF TypeOK
  <2>6. RegistrationSound'
    BY <1>5, <2>1, <2>3, <2>4
  <2>7. Conservation'
    <3>1. ASSUME NEW k \in Key, NEW u \in Server, servers[k].saddr = u
          PROVE  Outstanding(u)' = Outstanding(u)
                   - (IF k = NoKey THEN 1 ELSE 0) + (IF k = b THEN 1 ELSE 0)
      <4> DEFINE dj == IF k = b THEN 1 ELSE 0
                 dp == 0
      <4>1. u = d <=> k = b
        BY <2>3, <3>1, SlotFacts
      <4>2. Cardinality(jobs'[u]) = Cardinality(jobs[u]) + dj /\ dj \in Int
        BY <2>4, <4>1
      <4>3. pings'[u] = pings[u] + dp /\ dp \in Int
        BY <1>1 DEF TypeOK
      <4> HIDE DEF dj, dp
      <4>4. Outstanding(u)' = Outstanding(u) + dj + dp
        BY <1>1, <4>2, <4>3, LbOutstanding
      <4>5. Outstanding(u) \in Nat /\ k # NoKey
        BY OutstandingType DEF Key, NoKey
      <4> QED
        BY <4>4, <4>5 DEF dj, dp
    <3> QED
      BY <2>2, <3>1, FreeNat, MoveConserves DEF Key, NoKey
  <2>8. ExactlyOnePlace'
    <3>1. \A u \in Server : ~Held(u, r) /\ thread[u][r] = "none" /\ r \notin jobs[u]
      BY <1>6 DEF AtWorker
    <3> QED
      BY <1>1, <1>6, <1>7, <2>1, <2>4, <3>1 DEF ExactlyOnePlace
  <2> QED
    BY <1>2, <1>3, <2>5, <2>6, <2>7, <2>8
<1>9. ASSUME Hold
      PROVE  /\ Conservation' /\ RegistrationSound'
             /\ \A u \in Server, x \in Request : AtWorker(u, x)' = AtWorker(u, x)
  <2>1. servers' = servers /\ jobs' = jobs /\ ip_to_key' = ip_to_key
    BY <1>9 DEF Hold
  <2>2. \A u \in Server : Outstanding(u)' = Outstanding(u)
    BY <1>1, <2>1, BesideWorkers DEF Outstanding
  <2> QED
    BY <1>5, <1>7, <2>1, <2>2 DEF Conservation, AtWorker
<1>10. CASE Wait(r)
  <2>1. Hold /\ jobs' = jobs /\ dropped' = dropped /\ queue' = Append(queue, r)
    BY <1>10 DEF Wait, Hold
  <2>2. TypeOK'
    BY <1>4, <2>1 DEF TypeOK
  <2>3. ExactlyOnePlace'
    <3>1. /\ Queued' = Queued \cup {r}
          /\ \A i, j \in 1 .. Len(queue') : queue'[i] = queue'[j] => i = j
      BY <1>6, <2>1, AppendElements, AppendInjective DEF Queued
    <3> QED
      BY <1>1, <1>6, <1>7, <1>9, <2>1, <3>1 DEF ExactlyOnePlace
  <2> QED
    BY <1>2, <1>3, <1>9, <2>1, <2>2, <2>3
<1>11. CASE Overflow(r)
  <2>1. Hold /\ jobs' = jobs /\ dropped' = dropped \cup {r} /\ queue' = queue
        /\ Queued' = Queued
    BY <1>11 DEF Overflow, Hold, Queued
  <2>2. TypeOK'
    BY <1>4, <2>1 DEF TypeOK
  <2>3. ExactlyOnePlace'
    BY <1>1, <1>6, <1>7, <1>9, <2>1 DEF ExactlyOnePlace
  <2> QED
    BY <1>2, <1>3, <1>9, <2>1, <2>2, <2>3
<1> QED
  BY <1>8, <1>10, <1>11, RequestCases

-----------------------------------------------------------------------------
LEMMA InitInv == Init => SysInv
<1> SUFFICES ASSUME Init PROVE SysInv
  OBVIOUS
<1>1. LbInv /\ LbTypeOK
  BY LbInitInv DEF Init, LbInv
<1>2. TypeOK
  BY <1>1 DEF Init, ServerInit, TypeOK, MainPc, ThreadPc
<1>3. \A s \in Server : ThreadsAt(s, Counted) = {}
  BY DEF Init, ServerInit, ThreadsAt, Counted
<1>4. RegistrationSound
  BY DEF Init, LbInit, ServerInit, RegistrationSound
<1>5. ThreadsSound
  BY <1>3, FS_EmptySet DEF Init, ServerInit, ThreadsSound
<1>6. Conservation
  BY ServersAssumption DEF Init, LbInit, Conservation
<1>7. ExactlyOnePlace
  BY DEF Init, LbInit, ServerInit, ExactlyOnePlace, Queued, Elements, AtWorker, Held
<1> QED
  BY <1>1, <1>2, <1>4, <1>5, <1>6, <1>7 DEF SysInv

LEMMA StepInv == SysInv /\ [Next]_vars => SysInv'
<1> SUFFICES ASSUME SysInv, [Next]_vars PROVE SysInv'
  OBVIOUS
<1>1. ASSUME UNCHANGED vars PROVE SysInv'
  <2>1. UNCHANGED <<lbvars, wires, servervars, clientvars, dropped>>
    BY <1>1 DEF vars
  <2>2. LbInv' /\ LbTypeOK'
    BY <2>1, LbUntouched DEF SysInv
  <2>3. TypeOK'
    BY <2>1, <2>2 DEF SysInv, TypeOK, wires, servervars, clientvars
  <2>4. RegistrationSound'
    BY <2>1 DEF SysInv, RegistrationSound, lbvars, wires, servervars
  <2>5. ThreadsSound'
    BY <2>1, ThreadsKept DEF SysInv
  <2>6. Conservation'
    <3>1. \A u \in Server : Outstanding(u)' = Outstanding(u)
      BY <2>1, BesideWorkers DEF Outstanding, wires
    <3> QED
      BY <2>1, <3>1, WorkerConserves
  <2>7. ExactlyOnePlace'
    BY <2>1, NoJobMoves DEF lbvars, wires
  <2> QED
    BY <2>2, <2>3, <2>4, <2>5, <2>6, <2>7 DEF SysInv
<1>2. CASE Idle
  BY <1>1, <1>2 DEF Idle
<1> QED
  BY <1>1, <1>2, ClientSendInv, LbPingInv, LbRequestInv, WorkerMainInv,
     WorkerThreadInv DEF Next

(* The strengthened invariant holds in every state of part B: the maps, the *)
(* thread accounts and the places of the jobs agree with each other.        *)
THEOREM SystemInvariant == Spec => []SysInv
BY InitInv, StepInv, PTL DEF Spec

(* The maps of lb.c, the globals and threads of every server.py and what   *)
(* is under way stay well typed: free_threads never wraps below zero.      *)
THEOREM SystemTypeCorrect == Spec => []TypeOK
<1>1. SysInv => TypeOK
  BY DEF SysInv
<1> QED
  BY <1>1, SystemInvariant, PTL

(* lb.c keeps the books right: in every state the free threads it records  *)
(* for a worker and the work it has outstanding there add up to            *)
(* MAX_THREADS.                                                            *)
THEOREM ThreadsConserved == Spec => []Conservation
<1>1. SysInv => Conservation
  BY DEF SysInv
<1> QED
  BY <1>1, SystemInvariant, PTL

(* The busy test of server.py never throws a job of the system away.       *)
THEOREM WorkersNeverBusy == Spec => []NeverBusy
BY InvNeverBusy, SystemInvariant, PTL

(* No worker ever runs more than MAX_THREADS handler threads.              *)
THEOREM WorkersBounded == Spec => []ThreadsBounded
BY InvThreadsBounded, SystemInvariant, PTL

(* Every job is in exactly one place: none is doubled, none disappears     *)
(* without being counted as dropped.                                       *)
THEOREM JobsConserved == Spec => []ExactlyOnePlace
<1>1. SysInv => ExactlyOnePlace
  BY DEF SysInv
<1> QED
  BY <1>1, SystemInvariant, PTL

-----------------------------------------------------------------------------
(* Work conservation in the documented deployment. *)

\* What this needs to know of lb.c and its queue, with or without faults.
WaitingSound ==
  /\ LbInv
  /\ WaitsOnce
  /\ (unsent \cup reqs) \cap Queued = {}

LEMMA SystemWaiting == SysInv => WaitingSound
BY DEF SysInv, ExactlyOnePlace, WaitsOnce, WaitingSound

LEMMA LbCases ==
  ASSUME WaitingSound
  PROVE  /\ \A s \in Server : LbPing(s) =>
              FirstPing(s) \/ Credit(s) \/ HandOver(s) \/ Waste(s)
         /\ \A r \in Request : LbRequest(r) =>
              Direct(r) \/ Wait(r) \/ Overflow(r)
<1>1. ASSUME NEW r \in Request, LbRequest(r) PROVE r \notin Queued
  BY <1>1 DEF WaitingSound, LbRequest
<1> QED
  BY <1>1, PingOutcomes, RequestOutcomes DEF WaitingSound

LEMMA StartOrderStep ==
  ASSUME WaitingSound, StartOrder, [Next]_vars
  PROVE  StartOrder'
<1>1. ASSUME \A s \in Server : ip_to_key[s] # NoKey => ip_to_key'[s] # NoKey,
             unsent' = unsent
      PROVE  StartOrder'
  BY <1>1 DEF StartOrder
<1>2. ASSUME NEW r \in Request, ClientSend(r) PROVE StartOrder'
  BY <1>2 DEF ClientSend, StartOrder, lbvars
<1>3. ASSUME NEW s \in Server, LbPing(s) PROVE StartOrder'
  <2>1. unsent' = unsent
    BY <1>3 DEF LbPing, clientvars
  <2>2. FirstPing(s) => \A u \in Server : u # s => ip_to_key'[u] = ip_to_key[u]
    BY DEF FirstPing, WaitingSound, LbInv, LbTypeOK
  <2>3. FirstPing(s) \/ ip_to_key' = ip_to_key
    BY <1>3, LbCases DEF Credit, HandOver, Waste
  <2>4. FirstPing(s) => ip_to_key[s] = NoKey
    BY DEF FirstPing
  <2> QED
    BY <1>1, <2>1, <2>2, <2>3, <2>4
<1>4. ASSUME NEW r \in Request, LbRequest(r) PROVE StartOrder'
  <2>1. unsent' = unsent
    BY <1>4 DEF LbRequest
  <2>2. ip_to_key' = ip_to_key
    BY <1>4, LbCases DEF Direct, Wait, Overflow, Hold
  <2> QED
    BY <1>1, <2>1, <2>2
<1>5. ASSUME NEW s \in Server, WorkerMain(s) PROVE StartOrder'
  BY <1>5 DEF WorkerMain, StartOrder, lbvars, clientvars
<1>6. ASSUME NEW s \in Server, NEW t \in Request, WorkerThread(s, t)
      PROVE  StartOrder'
  BY <1>6 DEF WorkerThread, StartOrder, lbvars, clientvars
<1>7. CASE Idle \/ UNCHANGED vars
  BY <1>7 DEF Idle, vars, StartOrder, lbvars, clientvars
<1> QED
  BY <1>2, <1>3, <1>4, <1>5, <1>6, <1>7 DEF Next

\* Nobody waits when a worker is first heard of.
LEMMA JoinsEarly ==
  ASSUME WaitingSound, StartOrder, ServersFirst, NEW s \in Server, ip_to_key[s] = NoKey
  PROVE  queue = << >>
<1> USE DEF WaitingSound
<1>1. unsent = Request
  BY DEF StartOrder
<1>2. SUFFICES ASSUME queue # << >> PROVE FALSE
  OBVIOUS
<1>3. queue \in Seq(Request)
  BY DEF LbInv, LbTypeOK
<1>4. 1 \in 1 .. Len(queue) /\ queue[1] \in Request
  BY <1>2, <1>3
<1>5. queue[1] \in Queued
  BY <1>4 DEF Queued, Elements
<1> QED
  BY <1>1, <1>4, <1>5 DEF WaitingSound

\* While no thread is recorded free, the oldest job goes to the worker whose
\* ping returned one, and no slot's count changes.
LEMMA HandsToSender ==
  ASSUME WaitingSound, WorkConserving, NEW s \in Server, LbPing(s), HandOver(s)
  PROVE  /\ SendTo(ip_to_key[s], Head(queue))
         /\ \A k \in Key : /\ servers'[k].saddr = servers[k].saddr
                           /\ servers'[k].free_threads = servers[k].free_threads
<1> USE DEF WaitingSound
<1> DEFINE up == ip_to_key[s]
<1>1. PICK b \in Key : /\ Occupied(servers, b)
                      /\ SlotsMove(up, b)
                      /\ SendTo(b, Head(queue))
  BY DEF HandOver
<1>2. \A k \in Key : Occupied(servers, k) => servers[k].free_threads = 0
  BY DEF HandOver, WorkConserving
<1>3. \A k \in Key : servers'[k].free_threads \in Nat
  <2>1. LbTypeOK'
    BY StepIsLbStep, LbStepInv DEF Next, LbInv
  <2> QED
    BY <2>1, SizesAssumption DEF LbTypeOK, dest_info, Cnt
<1>4. b = up
  <2>1. servers[b].free_threads = 0
    BY <1>1, <1>2
  <2>2. servers'[b].free_threads = 0 + (IF b = up THEN 1 ELSE 0) - 1
    BY <1>1, <2>1, SizesAssumption DEF SlotsMove, Gain
  <2> QED
    BY <1>3, <2>2
<1>5. servers[b].free_threads < MAX_THREADS
  BY <1>1, <1>2, SizesAssumption
<1> QED
  BY <1>1, <1>4, <1>5, FreeNat DEF SlotsMove, Gain

LEMMA WorkConservingPing ==
  ASSUME WaitingSound, StartOrder, WorkConserving, ServersFirst, FALSE \notin TailGrows,
         NEW s \in Server, LbPing(s)
  PROVE  WorkConserving'
<1>1. CASE FirstPing(s)
  BY <1>1, JoinsEarly DEF FirstPing, WorkConserving
<1>2. CASE Credit(s)
  BY <1>2 DEF Credit, WorkConserving
<1>3. CASE HandOver(s)
  BY <1>3, HandsToSender DEF HandOver, WorkConserving, Occupied
<1>4. ~Waste(s)
  BY DEF Waste
<1> QED
  BY <1>1, <1>2, <1>3, <1>4, LbCases

LEMMA WorkConservingRequest ==
  ASSUME WaitingSound, WorkConserving, NEW r \in Request, LbRequest(r)
  PROVE  WorkConserving'
<1>1. CASE Direct(r)
  <2>1. PICK b \in Key : Occupied(servers, b) /\ servers[b].free_threads > 0
    BY <1>1 DEF Direct
  <2>2. queue = << >>
    BY <2>1 DEF WorkConserving
  <2> QED
    BY <1>1, <2>2 DEF Direct, WorkConserving
<1>2. CASE Hold
  BY <1>2 DEF Hold, WorkConserving, Occupied
<1> QED
  BY <1>1, <1>2, LbCases DEF Wait, Overflow

LEMMA ConservingStep ==
  ASSUME ServersFirst, FALSE \notin TailGrows,
         WaitingSound, StartOrder, WorkConserving, [Next]_vars
  PROVE  StartOrder' /\ WorkConserving'
<1>1. ASSUME queue' = queue, servers' = servers PROVE WorkConserving'
  BY <1>1 DEF WorkConserving, Occupied
<1>2. ASSUME NEW r \in Request, ClientSend(r) PROVE WorkConserving'
  BY <1>1, <1>2 DEF ClientSend, lbvars
<1>3. ASSUME NEW s \in Server, WorkerMain(s) PROVE WorkConserving'
  BY <1>1, <1>3 DEF WorkerMain, lbvars
<1>4. ASSUME NEW s \in Server, NEW t \in Request, WorkerThread(s, t)
      PROVE  WorkConserving'
  BY <1>1, <1>4 DEF WorkerThread, lbvars
<1>5. ASSUME Idle \/ UNCHANGED vars PROVE WorkConserving'
  BY <1>1, <1>5 DEF Idle, vars, lbvars
<1>6. WorkConserving'
  BY <1>2, <1>3, <1>4, <1>5, WorkConservingPing, WorkConservingRequest DEF Next
<1> QED
  BY <1>6, StartOrderStep

LEMMA StartedInit == Init => SysInv /\ StartOrder /\ WorkConserving
<1>1. Init => StartOrder /\ WorkConserving
  BY DEF Init, LbInit, StartOrder, WorkConserving
<1> QED
  BY <1>1, InitInv

LEMMA StartedStep ==
  ASSUME ServersFirst, FALSE \notin TailGrows,
         SysInv, StartOrder, WorkConserving, [Next]_vars
  PROVE  SysInv' /\ StartOrder' /\ WorkConserving'
BY StepInv, SystemWaiting, ConservingStep

(* If all workers register before the first job is sent, as the README     *)
(* says to start them, and frames can be grown, then no job ever waits in  *)
(* the queue while lb.c knows a free thread.                               *)
THEOREM QueueOnlyWhenFull ==
  ASSUME ServersFirst, FALSE \notin TailGrows
  PROVE  Spec => []WorkConserving
<1> DEFINE I == SysInv /\ StartOrder /\ WorkConserving
<1>1. I /\ [Next]_vars => I'
  BY StartedStep
<1> QED
  BY <1>1, StartedInit, PTL DEF Spec

(* And the queue is never left to itself: while jobs wait, every worker is *)
(* known to lb.c and has work or a ping outstanding, so that a completion  *)
(* is to come that makes lb.c look at the queue.                           *)
THEOREM QueueStaysAwaited ==
  ASSUME ServersFirst, FALSE \notin TailGrows
  PROVE  Spec => []QueueAwaited
<1> DEFINE I == SysInv /\ StartOrder /\ WorkConserving
<1>1. I /\ [Next]_vars => I'
  BY StartedStep
<1>2. I => QueueAwaited
  <2> SUFFICES ASSUME SysInv, StartOrder, WorkConserving, queue # << >>,
                      NEW s \in Server
               PROVE  ip_to_key[s] # NoKey /\ Outstanding(s) > 0
    BY DEF QueueAwaited
  <2>1. ip_to_key[s] # NoKey
    BY JoinsEarly, SystemWaiting
  <2>2. PICK k \in Key : Occupied(servers, k) /\ servers[k].saddr = s
    BY <2>1, SlotOwner DEF SysInv
  <2>3. servers[k].free_threads = 0
    BY <2>2 DEF WorkConserving
  <2>4. 0 + Outstanding(s) = MAX_THREADS
    BY <2>2, <2>3 DEF SysInv, Conservation
  <2>5. Outstanding(s) \in Nat
    BY OutstandingType DEF SysInv
  <2> QED
    BY <2>1, <2>4, <2>5, SizesAssumption
<1> QED
  BY <1>1, <1>2, StartedInit, PTL DEF Spec

(* In the same deployment the load balancer serves jobs in the order they  *)
(* reached it.                                                             *)
THEOREM ServedInOrder ==
  ASSUME ServersFirst, FALSE \notin TailGrows
  PROVE  Spec => OldestFirst
<1> DEFINE I == SysInv /\ StartOrder /\ WorkConserving
<1>1. I /\ [Next]_vars => I'
  BY StartedStep
<1>2. ASSUME I, [Next]_vars, NEW s \in Server, NEW r \in Request,
             r \in jobs'[s] \ jobs[s]
      PROVE  queue = << >> \/ r = Head(queue)
  <2>1. jobs \in [Server -> SUBSET Request]
    BY <1>2 DEF SysInv, TypeOK
  <2>2. ASSUME NEW u \in Server, LbPing(u) PROVE queue = << >> \/ r = Head(queue)
    <3>1. HandOver(u)
      BY <1>2, <2>2, PingCases DEF FirstPing, Credit, Waste
    <3>2. PICK b \in Key : Occupied(servers, b) /\ SendTo(b, Head(queue))
      BY <3>1 DEF HandOver
    <3>3. servers[b].saddr \in Server
      BY <1>2, <3>2, SlotHost DEF SysInv
    <3> QED
      BY <1>2, <2>1, <3>2, <3>3 DEF SendTo
  <2>3. ASSUME NEW x \in Request, LbRequest(x) PROVE queue = << >>
    <3>1. Direct(x)
      BY <1>2, <2>3, RequestCases DEF Wait, Overflow, Hold
    <3>2. PICK b \in Key : Occupied(servers, b) /\ servers[b].free_threads > 0
      BY <3>1 DEF Direct
    <3> QED
      BY <1>2, <3>2 DEF WorkConserving
  <2>4. ASSUME NEW x \in Request, ClientSend(x) PROVE FALSE
    BY <1>2, <2>4 DEF ClientSend, wires
  <2>5. ASSUME NEW u \in Server, WorkerMain(u) PROVE FALSE
    BY <1>2, <2>1, <2>5
       DEF WorkerMain, MainStep, SendStart, Recv, Busy, Skip, Spawn, wires
  <2>6. ASSUME NEW u \in Server, NEW t \in Request, WorkerThread(u, t) PROVE FALSE
    BY <1>2, <2>6
       DEF WorkerThread, ThreadStep, ReadData, CountIn, WakeUp, CountOut, SendDone,
           wires
  <2>7. ASSUME Idle \/ UNCHANGED vars PROVE FALSE
    BY <1>2, <2>7 DEF Idle, vars, wires
  <2> QED
    BY <1>2, <2>2, <2>3, <2>4, <2>5, <2>6, <2>7 DEF Next
<1>3. I /\ [Next]_vars =>
        [\A s \in Server, r \in Request :
           r \in jobs'[s] \ jobs[s] => queue = << >> \/ r = Head(queue)]_vars
  BY <1>2
<1> QED
  BY <1>1, <1>3, StartedInit, PTL DEF Spec, OldestFirst

(* In any start order, a job is lost only to a full queue while every      *)
(* thread lb.c knows is taken, as long as frames can be grown.             *)
THEOREM LostOnlyWhenFull ==
  ASSUME FALSE \notin TailGrows
  PROVE  Spec => NoNeedlessDrop
<1>1. ASSUME SysInv, [Next]_vars, dropped' # dropped
      PROVE  /\ Len(queue) = QUEUE_MAX
             /\ \A k \in Key : Occupied(servers, k) => servers[k].free_threads = 0
  <2>1. ASSUME NEW s \in Server, LbPing(s) PROVE FALSE
    BY <1>1, <2>1, PingCases DEF FirstPing, Credit, HandOver, Waste
  <2>2. PICK r \in Request : LbRequest(r)
    BY <1>1, <2>1
       DEF Next, ClientSend, WorkerMain, WorkerThread, Idle, vars
  <2>3. Overflow(r)
    BY <1>1, <2>2, RequestCases DEF Direct, Wait
  <2> QED
    BY <2>3 DEF Overflow, Hold
<1> QED
  BY <1>1, SystemInvariant, PTL DEF Spec, NoNeedlessDrop

-----------------------------------------------------------------------------
(***************************************************************************)
(* Part B implements JobService: every step of client, lb.c and server.py  *)
(* is a step of JobService under the mapping of SystemService, or leaves   *)
(* what it shows unchanged.                                                *)
(***************************************************************************)

\* The states of the README's start order.
Ordered == SysInv /\ StartOrder /\ WorkConserving

-----------------------------------------------------------------------------
(* What the mapping shows of lb.c and of the workers. *)

LEMMA LbView ==
  ASSUME ip_to_key' = ip_to_key, servers' = servers
  PROVE  /\ Known' = Known
         /\ \A u \in Server : FreeSlots(u)' = FreeSlots(u)
BY DEF Known, FreeSlots

LEMMA WorkerView ==
  ASSUME UNCHANGED servervars
  PROVE  /\ Done' = Done
         /\ \A u \in Server : jobs'[u] = jobs[u] => Busied(u)' = Busied(u)
BY DEF servervars, Done, Busied, Held

LEMMA Shown ==
  ASSUME Known' = Known, queue' = queue, dropped' = dropped, Done' = Done,
         unsent' \cup reqs' = unsent \cup reqs,
         \A u \in Server : FreeSlots(u)' = FreeSlots(u),
         \A u \in Server : Busied(u)' = Busied(u)
  PROVE  UNCHANGED Service!svars
BY DEF Service!svars

LEMMA SlotsView ==
  ASSUME LbInv, NEW s \in Server
  PROVE  /\ FreeSlots(s) \in Nat
         /\ ip_to_key[s] # NoKey =>
              FreeSlots(s) = servers[ip_to_key[s]].free_threads
<1>1. CASE ip_to_key[s] = NoKey
  BY <1>1 DEF FreeSlots
<1>2. CASE ip_to_key[s] # NoKey
  BY <1>2, SlotOwner, FreeNat DEF FreeSlots
<1> QED
  BY <1>1, <1>2

\* A job that runs is a datagram, in hand or a thread; each of these is in
\* lb.c's accounts.
LEMMA BusiedCount ==
  ASSUME TypeOK, NEW s \in Server
  PROVE  /\ Cardinality(Busied(s)) \in Nat
         /\ Cardinality(Busied(s)) + pings[s] <= Outstanding(s)
<1> DEFINE H == {r \in Request : Held(s, r)}
           L == ThreadsAt(s, Live)
           J == jobs[s]
<1>1. J \in SUBSET Request /\ H \in SUBSET Request /\ L \in SUBSET Request
      /\ pings[s] \in Nat
  BY ThreadSets DEF TypeOK
<1>2. Busied(s) = (J \cup H) \cup L
  BY <1>1 DEF Busied, ThreadsAt
<1>3. Cardinality(H) <= (IF mainpc[s] = "check" THEN 1 ELSE 0)
      /\ Cardinality(H) \in Nat
  <2>1. Cardinality({}) = 0 /\ Cardinality({data[s]}) = 1
    BY FS_EmptySet, FS_Singleton
  <2>2. H = {} \/ (H = {data[s]} /\ mainpc[s] = "check")
    BY DEF Held
  <2> HIDE DEF H
  <2> QED
    BY <2>1, <2>2
<1> HIDE DEF H, L, J
<1>4. /\ IsFiniteSet(J) /\ IsFiniteSet(H) /\ IsFiniteSet(L)
      /\ Cardinality(J) \in Nat /\ Cardinality(L) \in Nat
  BY <1>1, JobSetFinite
<1>5. /\ Cardinality(J \cup H) = Cardinality(J) + Cardinality(H) - Cardinality(J \cap H)
      /\ Cardinality(J \cap H) \in Nat /\ IsFiniteSet(J \cup H)
      /\ Cardinality(J \cup H) \in Nat
  BY <1>1, <1>4, JobSetFinite, FS_Union
<1>6. /\ Cardinality((J \cup H) \cup L)
           = Cardinality(J \cup H) + Cardinality(L) - Cardinality((J \cup H) \cap L)
      /\ Cardinality((J \cup H) \cap L) \in Nat
      /\ Cardinality((J \cup H) \cup L) \in Nat
  BY <1>1, <1>4, <1>5, JobSetFinite, FS_Union
<1>7. Outstanding(s) = Cardinality(J) + (IF mainpc[s] = "check" THEN 1 ELSE 0)
                         + Cardinality(L) + pings[s]
  BY DEF Outstanding, J, L
<1> QED
  BY <1>1, <1>2, <1>3, <1>4, <1>5, <1>6, <1>7

\* lb.c sends the job r to the worker s.
LEMMA SentView ==
  ASSUME TypeOK, UNCHANGED servervars, NEW s \in Server, NEW r \in Request,
         jobs' = [jobs EXCEPT ![s] = @ \cup {r}]
  PROVE  [u \in Server |-> Busied(u)]'
           = [[u \in Server |-> Busied(u)] EXCEPT ![s] = @ \cup {r}]
<1>1. \A u \in Server : jobs'[u] = IF u = s THEN jobs[u] \cup {r} ELSE jobs[u]
  BY DEF TypeOK
<1>2. /\ thread' = thread
      /\ \A u \in Server, x \in Request : Held(u, x)' = Held(u, x)
  BY BesideWorkers
<1>3. \A u \in Server :
        Busied(u)' = IF u = s THEN Busied(u) \cup {r} ELSE Busied(u)
  BY <1>1, <1>2 DEF Busied
<1> QED
  BY <1>3

-----------------------------------------------------------------------------
(* Steps of the client and of the workers. *)

LEMMA ClientShows ==
  ASSUME NEW r \in Request, ClientSend(r)
  PROVE  UNCHANGED Service!svars
<1>1. /\ r \in unsent /\ unsent' = unsent \ {r} /\ reqs' = reqs \cup {r}
      /\ UNCHANGED <<lbvars, wires, servervars, dropped>>
  BY DEF ClientSend
<1>2. unsent' \cup reqs' = unsent \cup reqs
  BY <1>1
<1> QED
  BY <1>1, <1>2, LbView, WorkerView, Shown DEF lbvars, wires

\* A step of a worker that neither starts nor ends a job.
LEMMA WorkerShows ==
  ASSUME UNCHANGED <<lbvars, clientvars, dropped>>, Done' = Done,
         \A u \in Server : Busied(u)' = Busied(u)
  PROVE  UNCHANGED Service!svars
BY LbView, Shown DEF lbvars, clientvars

LEMMA MainShows ==
  ASSUME SysInv, NEW s \in Server, WorkerMain(s)
  PROVE  UNCHANGED Service!svars
<1> USE DEF SysInv
<1>1. /\ MainStep(s) /\ UNCHANGED <<lbvars, clientvars, dropped>>
      /\ jobs \in [Server -> SUBSET Request] /\ mainpc \in [Server -> MainPc]
      /\ data \in [Server -> Request \cup {NoRequest}]
      /\ thread \in [Server -> [Request -> ThreadPc]]
  BY DEF WorkerMain, TypeOK
<1>2. CASE SendStart(s)
  <2>1. \A u \in Server, x \in Request : Held(u, x)' = Held(u, x)
    BY <1>1, <1>2 DEF SendStart, Held
  <2> QED
    BY <1>1, <1>2, <2>1, WorkerShows DEF SendStart, Busied, Done
<1>3. ASSUME NEW r \in Request, Recv(s, r) PROVE UNCHANGED Service!svars
  <2>1. /\ \A u \in Server, x \in Request :
             Held(u, x)' <=> Held(u, x) \/ (u = s /\ x = r)
        /\ \A u \in Server, x \in Request :
             x \in jobs'[u] <=> x \in jobs[u] /\ ~(u = s /\ x = r)
        /\ r \in jobs[s] /\ thread' = thread
    BY <1>1, <1>3 DEF Recv, Held
  <2>2. \A u \in Server : Busied(u)' = Busied(u)
    BY <2>1 DEF Busied
  <2> QED
    BY <1>1, <2>1, <2>2, WorkerShows DEF Done
<1>4. ~Busy(s)
  <2>1. mainpc[s] = "check" => n_threads[s] < ServerThreads
    BY InvNeverBusy DEF NeverBusy
  <2> QED
    BY <2>1, SizesAssumption DEF Busy, TypeOK
<1>5. CASE Spawn(s)
  <2>1. data[s] \in Request /\ Held(s, data[s])
    BY <1>1, <1>5 DEF Spawn, ThreadsSound, Held
  <2>2. thread[s][data[s]] = "none"
    BY <2>1 DEF ExactlyOnePlace
  <2>3. \A u \in Server, x \in Request :
          /\ Held(u, x) <=> Held(u, x)' \/ (u = s /\ x = data[s])
          /\ thread'[u][x] = IF u = s /\ x = data[s] THEN "started" ELSE thread[u][x]
    BY <1>1, <1>5, <2>1 DEF Spawn, Held
  <2>4. "started" \in Live /\ "none" \notin Live /\ "done" # "started" /\ jobs' = jobs
    BY <1>5 DEF Live, Spawn, wires
  <2>5. \A u \in Server : Busied(u)' = Busied(u)
    BY <2>2, <2>3, <2>4 DEF Busied
  <2>6. Done' = Done
    BY <2>2, <2>3 DEF Done
  <2> QED
    BY <1>1, <2>5, <2>6, WorkerShows
<1> QED
  BY <1>1, <1>2, <1>3, <1>4, <1>5, NeverSkips DEF MainStep

LEMMA ThreadShows ==
  ASSUME SysInv, NEW s \in Server, NEW t \in Request, WorkerThread(s, t)
  PROVE  UNCHANGED Service!svars \/ Service!Finish(s, t)
<1> USE DEF SysInv
<1>1. /\ ThreadStep(s, t) /\ UNCHANGED <<lbvars, clientvars, dropped>>
      /\ thread \in [Server -> [Request -> ThreadPc]]
  BY DEF WorkerThread, TypeOK
<1>2. jobs' = jobs /\ mainpc' = mainpc /\ data' = data
  BY <1>1 DEF ThreadStep, ReadData, CountIn, WakeUp, CountOut, SendDone, wires
<1>3. \A u \in Server, x \in Request : Held(u, x)' = Held(u, x)
  BY <1>2 DEF Held
<1>4. ASSUME NEW from \in Live, NEW to \in Live, Goto(s, t, from, to)
      PROVE  UNCHANGED Service!svars
  <2>1. \A u \in Server, x \in Request :
          /\ thread'[u][x] \in Live <=> thread[u][x] \in Live
          /\ thread'[u][x] = "done" <=> thread[u][x] = "done"
    BY <1>1, <1>4 DEF Goto, Live
  <2>2. \A u \in Server : Busied(u)' = Busied(u)
    BY <1>2, <1>3, <2>1 DEF Busied
  <2>3. Done' = Done
    BY <2>1 DEF Done
  <2> QED
    BY <1>1, <2>2, <2>3, WorkerShows
<1>5. CASE SendDone(s, t)
  <2>1. /\ thread[s][t] = "left"
        /\ \A u \in Server, x \in Request :
             thread'[u][x] = IF u = s /\ x = t THEN "done" ELSE thread[u][x]
    BY <1>1, <1>5 DEF SendDone, Goto
  <2>2. t \notin jobs[s] /\ ~Held(s, t)
    BY <2>1 DEF ExactlyOnePlace
  <2>3. "left" \in Live /\ "done" \notin Live
    BY DEF Live
  <2>4. \A u \in Server :
          Busied(u)' = IF u = s THEN Busied(u) \ {t} ELSE Busied(u)
    BY <1>2, <1>3, <2>1, <2>2, <2>3 DEF Busied
  <2>5. Done' = Done \cup {t}
    BY <2>1 DEF Done
  <2>6. t \in Busied(s)
    BY <2>1, <2>3 DEF Busied
  <2>7. [u \in Server |-> Busied(u)]'
          = [[u \in Server |-> Busied(u)] EXCEPT ![s] = @ \ {t}]
    BY <2>4
  <2>8. Known' = Known /\ \A u \in Server : FreeSlots(u)' = FreeSlots(u)
    BY <1>1, LbView DEF lbvars
  <2> QED
    BY <1>1, <2>5, <2>6, <2>7, <2>8 DEF Service!Finish, lbvars, clientvars
<1>6. {"started", "bound", "sleeping", "slept", "left"} \subseteq Live
  BY DEF Live
<1> QED
  BY <1>1, <1>4, <1>5, <1>6 DEF ThreadStep, ReadData, CountIn, WakeUp, CountOut

-----------------------------------------------------------------------------
(* Invocations of the XDP program. *)

\* The slot of the worker s gets the free threads n, those of the others stay.
LEMMA SlotsShow ==
  ASSUME LbInv, ip_to_key' = ip_to_key, NEW s \in Server, ip_to_key[s] # NoKey,
         NEW n,
         \A j \in Key : servers'[j].free_threads =
                          IF j = ip_to_key[s] THEN n ELSE servers[j].free_threads
  PROVE  [u \in Server |-> FreeSlots(u)]'
           = [[u \in Server |-> FreeSlots(u)] EXCEPT ![s] = n]
<1>1. ASSUME NEW u \in Server
      PROVE  FreeSlots(u)' = IF u = s THEN n ELSE FreeSlots(u)
  <2>1. CASE ip_to_key[u] = NoKey
    BY <2>1 DEF FreeSlots
  <2>2. CASE ip_to_key[u] # NoKey
    <3>1. ip_to_key[u] \in Key /\ (ip_to_key[u] = ip_to_key[s] => u = s)
      BY <2>2, SlotOwner
    <3> QED
      BY <2>2, <3>1 DEF FreeSlots
  <2> QED
    BY <2>1, <2>2
<1> QED
  BY <1>1

LEMMA FirstPingShows ==
  ASSUME Ordered, ServersFirst, NEW s \in Server, FirstPing(s),
         UNCHANGED <<servervars, clientvars>>
  PROVE  Service!Join(s)
<1> USE DEF Ordered, SysInv
<1>1. /\ ip_to_key[s] = NoKey /\ server_cnt \in Key
      /\ ~Occupied(servers, server_cnt)
      /\ ip_to_key' = [ip_to_key EXCEPT ![s] = server_cnt]
      /\ servers' = [servers EXCEPT ![server_cnt] =
                       [saddr |-> s, free_threads |-> MAX_THREADS]]
      /\ queue' = queue /\ jobs' = jobs /\ dropped' = dropped
  BY DEF FirstPing
<1>2. /\ ip_to_key \in [Server -> Cnt \cup {NoKey}]
      /\ servers \in [Key -> dest_info]
  BY DEF LbInv, LbTypeOK
<1>3. server_cnt # NoKey
  BY <1>1 DEF Key, NoKey
<1>4. Known' = Known \cup {s} /\ s \notin Known
  BY <1>1, <1>2, <1>3 DEF Known
<1>5. ASSUME NEW u \in Server
      PROVE  FreeSlots(u)' = IF u = s THEN MAX_THREADS ELSE FreeSlots(u)
  <2>1. CASE u = s
    <3>1. ip_to_key'[u] = server_cnt
      BY <1>1, <1>2, <2>1
    <3>2. servers'[server_cnt].free_threads = MAX_THREADS
      BY <1>1, <1>2
    <3> QED
      BY <1>3, <2>1, <3>1, <3>2 DEF FreeSlots
  <2>2. CASE u # s /\ ip_to_key[u] = NoKey
    BY <1>1, <1>2, <2>2 DEF FreeSlots
  <2>3. CASE u # s /\ ip_to_key[u] # NoKey
    <3>1. ip_to_key[u] \in Key /\ ip_to_key[u] # server_cnt
      BY <1>1, <2>3, SlotOwner
    <3>2. ip_to_key'[u] = ip_to_key[u]
      BY <1>1, <1>2, <2>3
    <3>3. servers'[ip_to_key[u]] = servers[ip_to_key[u]]
      BY <1>1, <1>2, <3>1
    <3> QED
      BY <2>3, <3>2, <3>3 DEF FreeSlots
  <2> QED
    BY <2>1, <2>2, <2>3
<1>6. [u \in Server |-> FreeSlots(u)]'
        = [[u \in Server |-> FreeSlots(u)] EXCEPT ![s] = MAX_THREADS]
  BY <1>5
<1>7. Done' = Done /\ \A u \in Server : Busied(u)' = Busied(u)
  BY <1>1, WorkerView
<1>8. queue = << >>
  BY <1>1, JoinsEarly, SystemWaiting
<1> QED
  BY <1>1, <1>4, <1>6, <1>7, <1>8 DEF Service!Join, clientvars

\* A ping that is under way stands for a slot that no job uses.
LEMMA PingSlot ==
  ASSUME SysInv, NEW s \in Server, ip_to_key[s] # NoKey, pings[s] > 0
  PROVE  FreeSlots(s) + Cardinality(Busied(s)) < MAX_THREADS
<1> USE DEF SysInv
<1>1. FreeSlots(s) \in Nat /\ FreeSlots(s) = servers[ip_to_key[s]].free_threads
  BY SlotsView
<1>2. servers[ip_to_key[s]].free_threads + Outstanding(s) = MAX_THREADS
  BY SlotOwner DEF Conservation
<1>3. /\ Cardinality(Busied(s)) \in Nat /\ pings[s] \in Nat /\ Outstanding(s) \in Nat
      /\ Cardinality(Busied(s)) + pings[s] <= Outstanding(s)
  BY BusiedCount, OutstandingType DEF TypeOK
<1> QED
  BY <1>1, <1>2, <1>3, SizesAssumption

\* JobService counts with the same Cardinality, reached through its instance.
LEMMA SameCardinality ==
  ASSUME NEW S
  PROVE  Service!Cardinality(S) = Cardinality(S)
BY DEF Service!Cardinality, Cardinality

\* A slot of s comes back and stays free, or goes to the oldest waiting job.
LEMMA ReleaseShown ==
  ASSUME NEW s \in Server, s \in Known,
         FreeSlots(s) + Cardinality(Busied(s)) < MAX_THREADS,
         Known' = Known, UNCHANGED <<unsent, reqs>>, Done' = Done, dropped' = dropped,
         \/ /\ queue = << >> /\ queue' = queue
            /\ [u \in Server |-> FreeSlots(u)]'
                 = [[u \in Server |-> FreeSlots(u)] EXCEPT ![s] = @ + 1]
            /\ \A u \in Server : Busied(u)' = Busied(u)
         \/ /\ queue # << >> /\ queue' = Tail(queue)
            /\ [u \in Server |-> Busied(u)]'
                 = [[u \in Server |-> Busied(u)] EXCEPT ![s] = @ \cup {Head(queue)}]
            /\ \A u \in Server : FreeSlots(u)' = FreeSlots(u)
  PROVE  Service!Release(s)
<1>1. [u \in Server |-> FreeSlots(u)][s]
        + Service!Cardinality([u \in Server |-> Busied(u)][s]) < MAX_THREADS
  BY SameCardinality
<1>2. (unsent \cup reqs)' = unsent \cup reqs
  OBVIOUS
<1>3. UNCHANGED <<Known, unsent \cup reqs, Done, dropped>>
  BY <1>2
<1>4. CASE queue = << >>
  <2>1. [u \in Server |-> FreeSlots(u)]'
          = [[u \in Server |-> FreeSlots(u)] EXCEPT ![s] = @ + 1]
    BY <1>4
  <2>2. UNCHANGED <<[u \in Server |-> Busied(u)], queue>>
    BY <1>4
  <2> QED
    BY <1>1, <1>3, <1>4, <2>1, <2>2, Zenon DEF Service!Release
<1>5. CASE queue # << >>
  <2>1. [u \in Server |-> Busied(u)]'
          = [[u \in Server |-> Busied(u)] EXCEPT ![s] = @ \cup {Head(queue)}]
    BY <1>5
  <2>2. UNCHANGED [u \in Server |-> FreeSlots(u)] /\ queue' = Tail(queue)
    BY <1>5
  <2> QED
    BY <1>1, <1>3, <1>5, <2>1, <2>2, Zenon DEF Service!Release
<1> QED
  BY <1>4, <1>5

LEMMA CreditShows ==
  ASSUME Ordered, NEW s \in Server, Credit(s), pings[s] > 0,
         UNCHANGED <<servervars, clientvars>>
  PROVE  Service!Release(s)
<1> USE DEF Ordered, SysInv
<1>1. /\ ip_to_key[s] # NoKey /\ ip_to_key' = ip_to_key
      /\ SlotsMove(ip_to_key[s], NoKey)
      /\ queue = << >> /\ queue' = queue /\ jobs' = jobs /\ dropped' = dropped
  BY DEF Credit
<1>2. FreeSlots(s) + Cardinality(Busied(s)) < MAX_THREADS /\ s \in Known
  BY <1>1, PingSlot DEF Known
<1>3. FreeSlots(s) = servers[ip_to_key[s]].free_threads
  BY <1>1, SlotsView
<1>4. ASSUME NEW j \in Key
      PROVE  servers'[j].free_threads =
               IF j = ip_to_key[s] THEN FreeSlots(s) + 1 ELSE servers[j].free_threads
  <2>1. j # NoKey /\ servers[j].free_threads \in Nat
    BY FreeNat DEF Key, NoKey
  <2>2. servers[ip_to_key[s]].free_threads < MAX_THREADS
    BY <1>1, PingRoom
  <2> QED
    BY <1>1, <1>3, <2>1, <2>2 DEF SlotsMove, Gain
<1>5. [u \in Server |-> FreeSlots(u)]'
        = [[u \in Server |-> FreeSlots(u)] EXCEPT ![s] = FreeSlots(s) + 1]
  BY <1>1, <1>4, SlotsShow
<1>6. [u \in Server |-> FreeSlots(u)]'
        = [[u \in Server |-> FreeSlots(u)] EXCEPT ![s] = @ + 1]
  BY <1>5
<1>7. Done' = Done /\ \A u \in Server : Busied(u)' = Busied(u)
  BY <1>1, WorkerView
<1>8. Known' = Known
  BY <1>1 DEF Known
<1> QED
  BY <1>1, <1>2, <1>6, <1>7, <1>8, ReleaseShown DEF clientvars

LEMMA HandOverShows ==
  ASSUME Ordered, NEW s \in Server, LbPing(s), HandOver(s)
  PROVE  Service!Release(s)
<1> USE DEF Ordered, SysInv
<1>1. /\ ip_to_key[s] # NoKey /\ ip_to_key' = ip_to_key
      /\ queue # << >> /\ queue' = Tail(queue) /\ dropped' = dropped
      /\ pings[s] > 0 /\ UNCHANGED <<servervars, clientvars>>
  BY DEF HandOver, LbPing
<1>2. /\ SendTo(ip_to_key[s], Head(queue))
      /\ \A k \in Key : servers'[k].free_threads = servers[k].free_threads
  BY HandsToSender, SystemWaiting
<1>3. \A u \in Server : FreeSlots(u)' = FreeSlots(u)
  BY <1>1, <1>2, SlotOwner DEF FreeSlots
<1>4. Head(queue) \in Request
  BY <1>1 DEF LbInv, LbTypeOK
<1>5. [u \in Server |-> Busied(u)]'
        = [[u \in Server |-> Busied(u)] EXCEPT ![s] = @ \cup {Head(queue)}]
  <2>1. jobs' = [jobs EXCEPT ![s] = @ \cup {Head(queue)}]
    BY <1>1, <1>2, SlotOwner DEF SendTo
  <2> QED
    BY <1>1, <1>4, <2>1, SentView
<1>6. FreeSlots(s) + Cardinality(Busied(s)) < MAX_THREADS /\ s \in Known
  BY <1>1, PingSlot DEF Known
<1>7. Done' = Done /\ Known' = Known
  BY <1>1, WorkerView DEF Known
<1> QED
  BY <1>1, <1>3, <1>5, <1>6, <1>7, ReleaseShown DEF clientvars

LEMMA PingShows ==
  ASSUME Ordered, ServersFirst, FALSE \notin TailGrows, NEW s \in Server, LbPing(s)
  PROVE  Service!Join(s) \/ Service!Release(s)
<1>1. pings[s] > 0 /\ UNCHANGED <<servervars, clientvars>>
  BY DEF LbPing
<1>2. ~Waste(s)
  BY DEF Waste
<1> QED
  BY <1>1, <1>2, PingCases, FirstPingShows, CreditShows, HandOverShows DEF Ordered

\* Every thread lb.c knows is taken.
LEMMA HoldShows ==
  ASSUME LbInv, Hold
  PROVE  /\ Service!Exhausted /\ Known' = Known
         /\ \A u \in Server : FreeSlots(u)' = FreeSlots(u)
<1>1. \A u \in Server : FreeSlots(u) = 0
  BY SlotOwner DEF Hold, FreeSlots
<1> QED
  BY <1>1, LbView DEF Hold, Service!Exhausted

LEMMA RequestShows ==
  ASSUME Ordered, NEW r \in Request, LbRequest(r)
  PROVE  \/ \E w \in Server : Service!Start(r, w)
         \/ Service!Wait(r)
         \/ Service!Refuse(r)
<1> USE DEF Ordered, SysInv
<1>1. /\ r \in reqs /\ reqs' = reqs \ {r} /\ unsent' = unsent
      /\ UNCHANGED servervars
  BY DEF LbRequest
<1>2. /\ r \in unsent \cup reqs
      /\ unsent' \cup reqs' = (unsent \cup reqs) \ {r}
  BY <1>1 DEF ExactlyOnePlace
<1>3. Done' = Done /\ \A u \in Server : jobs'[u] = jobs[u] => Busied(u)' = Busied(u)
  BY <1>1, WorkerView
<1>4. CASE Direct(r)
  <2>1. ip_to_key' = ip_to_key /\ queue' = queue /\ dropped' = dropped
    BY <1>4 DEF Direct
  <2>2. PICK b \in Key : /\ Occupied(servers, b)
                        /\ servers[b].free_threads > 0
                        /\ \A k \in Key : Occupied(servers, k) =>
                             servers[k].free_threads <= servers[b].free_threads
                        /\ SlotsMove(NoKey, b)
                        /\ SendTo(b, r)
    BY <1>4 DEF Direct
  <2>3. PICK w \in Server : w = servers[b].saddr /\ ip_to_key[w] = b
    BY <2>2, SlotHost
  <2>4. ip_to_key[w] # NoKey /\ b # NoKey
    BY <2>3 DEF Key, NoKey
  <2>5. FreeSlots(w) = servers[b].free_threads /\ FreeSlots(w) > 0
    BY <2>2, <2>3, <2>4, SlotsView
  <2>6. \A u \in Server : FreeSlots(u) <= FreeSlots(w)
    <3> TAKE u \in Server
    <3>1. CASE ip_to_key[u] = NoKey
      BY <2>5, <3>1, SlotsView DEF FreeSlots
    <3>2. CASE ip_to_key[u] # NoKey
      BY <2>2, <2>5, <3>2, SlotOwner, SlotsView
    <3> QED
      BY <3>1, <3>2
  <2>7. queue = << >>
    BY <2>2, FreeNat DEF WorkConserving
  <2>8. \A j \in Key : servers'[j].free_threads =
          IF j = ip_to_key[w] THEN FreeSlots(w) - 1 ELSE servers[j].free_threads
    <3>1. \A j \in Key : j # NoKey /\ servers[j].free_threads \in Nat
      BY FreeNat DEF Key, NoKey
    <3> QED
      BY <2>2, <2>3, <2>5, <3>1 DEF SlotsMove, Gain
  <2>9. [u \in Server |-> FreeSlots(u)]'
          = [[u \in Server |-> FreeSlots(u)] EXCEPT ![w] = FreeSlots(w) - 1]
    BY <2>1, <2>4, <2>8, SlotsShow
  <2>10. [u \in Server |-> FreeSlots(u)]'
           = [[u \in Server |-> FreeSlots(u)] EXCEPT ![w] = @ - 1]
    BY <2>9
  <2>11. [u \in Server |-> Busied(u)]'
           = [[u \in Server |-> Busied(u)] EXCEPT ![w] = @ \cup {r}]
    <3>1. jobs' = [jobs EXCEPT ![w] = @ \cup {r}]
      BY <2>2, <2>3 DEF SendTo
    <3> QED
      BY <1>1, <3>1, SentView
  <2>12. \A u \in Server : [x \in Server |-> FreeSlots(x)][u] = FreeSlots(u)
    OBVIOUS
  <2>13. Known' = Known
    BY <2>1 DEF Known
  <2>14. Service!Start(r, w)
    BY <1>2, <1>3, <2>1, <2>5, <2>6, <2>7, <2>10, <2>11, <2>12, <2>13
       DEF Service!Start
  <2> QED
    BY <2>14
<1>5. CASE Wait(r)
  <2>1. Hold /\ queue' = Append(queue, r) /\ dropped' = dropped /\ jobs' = jobs
    BY <1>5 DEF Wait, Hold
  <2>2. Len(queue) < QUEUE_MAX
    <3>1. LbInv'
      BY StepInv DEF Next
    <3>2. queue \in Seq(Request) /\ Len(queue') <= QUEUE_MAX
      BY <3>1 DEF LbInv, LbTypeOK
    <3>3. Len(queue') = Len(queue) + 1
      BY <2>1, <3>2
    <3> QED
      BY <3>2, <3>3, SizesAssumption
  <2> QED
    BY <1>2, <1>3, <2>1, <2>2, HoldShows DEF Service!Wait
<1>6. CASE Overflow(r)
  <2>1. /\ Hold /\ queue' = queue /\ dropped' = dropped \cup {r} /\ jobs' = jobs
        /\ Len(queue) = QUEUE_MAX
    BY <1>6 DEF Overflow, Hold
  <2> QED
    BY <1>2, <1>3, <2>1, HoldShows DEF Service!Refuse
<1> QED
  BY <1>4, <1>5, <1>6, RequestCases

-----------------------------------------------------------------------------
LEMMA ServiceInit == Init => Service!Init
<1> SUFFICES ASSUME Init PROVE Service!Init
  OBVIOUS
<1>1. Known = {} /\ \A s \in Server : FreeSlots(s) = 0
  BY DEF Init, LbInit, Known, FreeSlots
<1>2. Done = {} /\ \A s \in Server : Busied(s) = {}
  BY DEF Init, ServerInit, Done, Busied, Held, Live
<1> QED
  BY <1>1, <1>2 DEF Init, LbInit, Service!Init

LEMMA ServiceStep ==
  ASSUME Ordered, ServersFirst, FALSE \notin TailGrows, [Next]_vars
  PROVE  [Service!Next]_Service!svars
<1>1. ASSUME UNCHANGED vars PROVE UNCHANGED Service!svars
  BY <1>1, LbView, WorkerView, Shown DEF vars, lbvars, wires, clientvars
<1>2. ASSUME NEW r \in Request, ClientSend(r) PROVE [Service!Next]_Service!svars
  BY <1>2, ClientShows
<1>3. ASSUME NEW s \in Server, LbPing(s) PROVE [Service!Next]_Service!svars
  BY <1>3, PingShows DEF Service!Next
<1>4. ASSUME NEW r \in Request, LbRequest(r) PROVE [Service!Next]_Service!svars
  BY <1>4, RequestShows DEF Service!Next
<1>5. ASSUME NEW s \in Server, WorkerMain(s) PROVE [Service!Next]_Service!svars
  BY <1>5, MainShows DEF Ordered
<1>6. ASSUME NEW s \in Server, NEW t \in Request, WorkerThread(s, t)
      PROVE  [Service!Next]_Service!svars
  BY <1>6, ThreadShows DEF Ordered, Service!Next
<1> QED
  BY <1>1, <1>2, <1>3, <1>4, <1>5, <1>6 DEF Next, Idle

(* In the README's start order, and if frames can be grown, client, lb.c   *)
(* and workers together implement JobService: a slot is never given to two *)
(* jobs, jobs wait only while no slot is free and in the order they came,  *)
(* and only a full queue turns one away.                                   *)
THEOREM SystemImplementsService ==
  ASSUME ServersFirst, FALSE \notin TailGrows
  PROVE  Spec => ImplementsService
<1>1. Ordered /\ [Next]_vars => Ordered'
  BY StartedStep DEF Ordered
<1>2. Ordered /\ [Next]_vars => [Service!Next]_Service!svars
  BY ServiceStep
<1>3. Init => Ordered
  BY StartedInit DEF Ordered
<1> QED
  BY <1>1, <1>2, <1>3, ServiceInit, PTL DEF Spec, ImplementsService, Service!Spec
=============================================================================
