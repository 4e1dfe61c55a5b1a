---------------------------- MODULE LoadBalancer ----------------------------
(***************************************************************************)
(* The XDP program A2-B/load-balancer/lb.c: its four BPF maps and, for     *)
(* each kind of frame it acts on, the whole run of load_balancer().  One   *)
(* action is one invocation on one CPU that no other CPU disturbs.         *)
(*                                                                         *)
(* An action takes the frame's sender or payload and the verdict v that    *)
(* the invocation returns; the composing module decides where a frame      *)
(* sent with XDP_TX goes.                                                  *)
(***************************************************************************)
EXTENDS Deployment, Sequences

VARIABLES
  ip_to_key,    \* hash map: address -> key, NoKey where there is no entry
  servers,      \* array map: key -> [saddr, free_threads]
  server_cnt,   \* array map with one __u16: the next key to hand out
  queue         \* queue map: payloads waiting for a thread, oldest first

lbvars == <<ip_to_key, servers, server_cnt, queue>>

Key == 0 .. (MAX_SERVERS - 1)
NoKey == -1                     \* also the selected_key of "no backend"
Cnt == 0 .. (U16 - 1)

dest_info == [saddr : Server \cup {NoAddr}, free_threads : Cnt]

\* Array maps start zeroed, the hash and the queue start empty.
LbInit ==
  /\ ip_to_key = [s \in Server |-> NoKey]
  /\ servers = [k \in Key |-> [saddr |-> NoAddr, free_threads |-> 0]]
  /\ server_cnt = 0
  /\ queue = << >>

-----------------------------------------------------------------------------
(* Verdicts: the XDP action and, for XDP_TX, the rewritten destination and *)
(* the payload the frame leaves with.                                      *)

Drop == [action |-> "XDP_DROP", daddr |-> NoAddr, payload |-> NoRequest]
Aborted == [action |-> "XDP_ABORTED", daddr |-> NoAddr, payload |-> NoRequest]
Tx(d, r) == [action |-> "XDP_TX", daddr |-> d, payload |-> r]

Verdict == {Drop, Aborted} \cup {Tx(d, r) : d \in Server, r \in Request}

-----------------------------------------------------------------------------
(* get_available_backend() looks at the three slots in order and keeps a   *)
(* slot whose free_threads is strictly larger than the best so far.        *)

Occupied(srv, k) == k \in Key /\ srv[k].saddr # NoAddr

\* Seeded fault: ">=" for ">" also takes a slot without a free thread.
VisitGeq(srv, best, k) ==
  IF Occupied(srv, k) /\ srv[k].free_threads >= best.max_free_threads
  THEN [selected_key |-> k, max_free_threads |-> srv[k].free_threads]
  ELSE best

\* Seeded fault: the maximum is not updated, so the last free slot wins.
VisitLast(srv, best, k) ==
  IF Occupied(srv, k) /\ srv[k].free_threads > best.max_free_threads
  THEN [best EXCEPT !.selected_key = k]
  ELSE best

Visit(srv, best, k) ==
  IF Occupied(srv, k) /\ srv[k].free_threads > best.max_free_threads
  THEN [selected_key |-> k, max_free_threads |-> srv[k].free_threads]
  ELSE best

get_available_backend(srv) ==
  LET none == [selected_key |-> NoKey, max_free_threads |-> 0]
  IN  Visit(srv, Visit(srv, Visit(srv, none, 0), 1), 2).selected_key

\* The slot k with n free threads.
WithFree(srv, k, n) ==
  [srv EXCEPT ![k] = [saddr |-> srv[k].saddr, free_threads |-> n]]

\* Seeded fault: a job is sent without charging the slot.
TakeNoThread(srv, k) == srv

\* send_to_backend() takes one thread of the slot, in __u16 arithmetic.
TakeThread(srv, k) == WithFree(srv, k, (srv[k].free_threads - 1) % U16)

\* Seeded fault: the clamp is missing.
ReturnThreadUnclamped(srv, k) ==
  WithFree(srv, k, (srv[k].free_threads + 1) % U16)

\* A completion returns one thread, clamped to MAX_THREADS.
ReturnThread(srv, k) ==
  LET freed == (srv[k].free_threads + 1) % U16
  IN  WithFree(srv, k, IF freed > MAX_THREADS THEN MAX_THREADS ELSE freed)

Elements(q) == {q[i] : i \in 1 .. Len(q)}
Queued == Elements(queue)

\* Seeded fault: the queue is one entry smaller than declared.
enqueueShort(r) ==
  queue' = IF Len(queue) + 1 < QUEUE_MAX THEN Append(queue, r) ELSE queue

\* enqueue() ignores the error of a push onto a full queue.
enqueue(r) ==
  queue' = IF Len(queue) < QUEUE_MAX THEN Append(queue, r) ELSE queue

\* Seeded fault: the oldest entry is read and left in the queue.
dequeuePeek(value) == value = Head(queue) /\ UNCHANGED queue

\* Seeded fault: the queue is served from the end at which jobs arrive.
dequeueNewest(value) ==
  /\ value = queue[Len(queue)]
  /\ queue' = SubSeq(queue, 1, Len(queue) - 1)

\* dequeue() of a queue that holds something.
dequeue(value) == value = Head(queue) /\ queue' = Tail(queue)

-----------------------------------------------------------------------------
(* One-byte frames. *)

\* The key of a sender: its entry, or the next unused key.
KeyOf(s) == IF ip_to_key[s] # NoKey THEN ip_to_key[s] ELSE server_cnt

Known == {s \in Server : ip_to_key[s] # NoKey}

\* Seeded fault: the new entry names the key after the one that is filled.
LearnNextKey(s) ==
  ip_to_key' = IF ip_to_key[s] = NoKey /\ Cardinality(Known) < MAX_SERVERS
               THEN [ip_to_key EXCEPT ![s] = (server_cnt + 1) % U16]
               ELSE ip_to_key

\* Seeded fault: the entry of a known sender is overwritten.
LearnAlways(s) ==
  ip_to_key' = IF ip_to_key[s] # NoKey \/ Cardinality(Known) < MAX_SERVERS
               THEN [ip_to_key EXCEPT ![s] = server_cnt]
               ELSE ip_to_key

\* A sender without an entry gets one, unless the hash is full: the error of
\* that update is ignored.
LearnKey(s) ==
  ip_to_key' = IF ip_to_key[s] = NoKey /\ Cardinality(Known) < MAX_SERVERS
               THEN [ip_to_key EXCEPT ![s] = server_cnt]
               ELSE ip_to_key

\* The sender's slot is unused or its key lies outside the array: fill the
\* slot (an update outside the array fails unnoticed) and count the server.
Register(s, v) ==
  LET k == KeyOf(s) IN
  /\ ~Occupied(servers, k)
  /\ LearnKey(s)
  /\ servers' = IF k \in Key
                THEN [servers EXCEPT ![k] =
                        [saddr |-> s, free_threads |-> MAX_THREADS]]
                ELSE servers
  /\ server_cnt' = (server_cnt + 1) % U16
  /\ v = Drop
  /\ UNCHANGED queue

\* Seeded fault: the thread is credited although jobs wait.
CompleteOnly(s, v) ==
  LET k == KeyOf(s) IN
  /\ Occupied(servers, k)
  /\ LearnKey(s)
  /\ servers' = ReturnThread(servers, k)
  /\ v = Drop
  /\ UNCHANGED <<server_cnt, queue>>

\* The sender's slot is in use: a thread became free and no job waits.
Complete(s, v) ==
  LET k == KeyOf(s) IN
  /\ Occupied(servers, k)
  /\ queue = << >>
  /\ LearnKey(s)
  /\ servers' = ReturnThread(servers, k)
  /\ v = Drop
  /\ UNCHANGED <<server_cnt, queue>>

\* Seeded fault: the slot is charged before the length of the frame is tested.
DispatchChargedFirst(credited, k, grown, v) ==
  \E value \in Request :
    /\ dequeue(value)
    /\ servers' = TakeThread(credited, k)
    /\ v = IF grown THEN Tx(credited[k].saddr, value) ELSE Aborted

\* The oldest job leaves the queue and, if the ping's frame could be grown to
\* hold it, goes to slot k.  The job is popped before the length test, so it
\* is lost when the frame did not grow.
Dispatch(credited, k, grown, v) ==
  \E value \in Request :
    /\ dequeue(value)
    /\ servers' = IF grown THEN TakeThread(credited, k) ELSE credited
    /\ v = IF grown THEN Tx(credited[k].saddr, value) ELSE Aborted

\* Seeded fault: the job always goes back to the sender of the ping.
CompleteAndDispatchSender(s, v) ==
  LET k == KeyOf(s) IN
  /\ Occupied(servers, k)
  /\ queue # << >>
  /\ LearnKey(s)
  /\ UNCHANGED server_cnt
  /\ \E grown \in TailGrows : Dispatch(ReturnThread(servers, k), k, grown, v)

\* A thread became free and jobs wait: the ping's frame is grown by 7 bytes
\* and reused to carry the oldest job to the best backend.
CompleteAndDispatch(s, v) ==
  LET k == KeyOf(s)
      credited == ReturnThread(servers, k)
      selected_key == get_available_backend(credited)
  IN
  /\ Occupied(servers, k)
  /\ queue # << >>
  /\ LearnKey(s)
  /\ UNCHANGED server_cnt
  /\ IF selected_key = NoKey
     THEN /\ servers' = credited
          /\ v = Aborted
          /\ UNCHANGED queue
     ELSE \E grown \in TailGrows : Dispatch(credited, selected_key, grown, v)

OnPing(s, v) ==
  \/ Register(s, v)
  \/ Complete(s, v)
  \/ CompleteAndDispatch(s, v)

-----------------------------------------------------------------------------
(* Eight-byte frames: forward to the best backend, or queue the payload.   *)

Forward(r, v) ==
  LET selected_key == get_available_backend(servers) IN
  /\ selected_key # NoKey
  /\ servers' = TakeThread(servers, selected_key)
  /\ v = Tx(servers[selected_key].saddr, r)
  /\ UNCHANGED <<ip_to_key, server_cnt, queue>>

Enqueue(r, v) ==
  /\ get_available_backend(servers) = NoKey
  /\ enqueue(r)
  /\ v = Aborted
  /\ UNCHANGED <<ip_to_key, servers, server_cnt>>

OnRequest(r, v) ==
  \/ Forward(r, v)
  \/ Enqueue(r, v)

-----------------------------------------------------------------------------
(* The program in any surroundings: every host may ping at any time and    *)
(* any number of times, and requests come whenever they like.  This covers *)
(* lost, repeated and late datagrams and restarted hosts.                  *)

LbNext ==
  \E v \in Verdict :
    \/ \E s \in Server : OnPing(s, v)
    \/ \E r \in Request : OnRequest(r, v)

LbSpec == LbInit /\ [][LbNext]_lbvars

\* free_threads is a __u16 and lb.c keeps it between 0 and MAX_THREADS.
LbTypeOK ==
  /\ ip_to_key \in [Server -> Cnt \cup {NoKey}]
  /\ servers \in [Key -> dest_info]
  /\ \A k \in Key : servers[k].free_threads <= MAX_THREADS
  /\ server_cnt \in Cnt
  /\ queue \in Seq(Request)
  /\ Len(queue) <= QUEUE_MAX

(* ip_to_key and servers stay inverse to each other: a known address owns  *)
(* the slot its key names and a used slot belongs to the address in it, in *)
(* whatever order hosts register, however many more hosts than slots ping, *)
(* and when server_cnt wraps around.                                       *)
KeysSound ==
  /\ \A s \in Known : ip_to_key[s] \in Key /\ servers[ip_to_key[s]].saddr = s
  /\ \A k \in Key : Occupied(servers, k) => ip_to_key[servers[k].saddr] = k

\* While an address can still be learned, keys are handed out one by one from
\* 0 and server_cnt counts them; afterwards every slot is in use.
CntSound ==
  /\ Cardinality(Known) <= MAX_SERVERS
  /\ Cardinality(Known) < MAX_SERVERS =>
       /\ server_cnt = Cardinality(Known)
       /\ \A k \in Key : Occupied(servers, k) <=> k < server_cnt
  /\ Cardinality(Known) = MAX_SERVERS => \A k \in Key : Occupied(servers, k)

LbInv == LbTypeOK /\ KeysSound /\ CntSound

\* This step runs lb.c on a frame and returns the verdict v.
Invoked(v) ==
  \/ \E s \in Server : OnPing(s, v)
  \/ \E r \in Request : OnRequest(r, v)

(* A job is sent to a backend with the most free threads (README.md:41):   *)
(* the one whose address the frame leaves with had, before it was charged, *)
(* at least as many as any other, the thread that the ping carrying the    *)
(* job has just returned included.                                         *)
ChargesTheBest ==
  [][\A v \in Verdict : Invoked(v) /\ v.action = "XDP_TX" =>
       \A k, j \in Key :
         servers'[k].saddr = v.daddr /\ Occupied(servers, j) =>
           servers'[j].free_threads <= servers'[k].free_threads + 1]_lbvars

(* A slot is given away once: a host keeps its key, and its slot keeps its *)
(* address, whoever pings later and however often.                         *)
KeysStable ==
  [][/\ \A s \in Known : ip_to_key'[s] = ip_to_key[s]
     /\ \A k \in Key : Occupied(servers, k) =>
          servers'[k].saddr = servers[k].saddr]_lbvars
=============================================================================
