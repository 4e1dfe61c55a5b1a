--------------------------- MODULE LoadBalancerSmp --------------------------
(***************************************************************************)
(* lb.c on several CPUs.  The kernel runs the program on whichever CPU a   *)
(* frame arrives and the program takes no lock, so here every access to a  *)
(* map is a step of its own.  Map helpers on the hash and the queue are    *)
(* atomic; counters are updated through pointers into the array maps by a  *)
(* load and a store (lb.ll has plain ones) and then copied onto themselves *)
(* by bpf_map_update_elem.  Two pairs of accesses are one step each, which *)
(* loses no outcome: saddr and free_threads of a slot are read together,   *)
(* as an address is never cleared, and so are the entry of the hash and    *)
(* the key it points to, as an entry never changes (SmpProofs shows it).   *)
(*                                                                         *)
(* The workers are reduced to what lb.c sees of them: they take every job, *)
(* finish it some time and ping.                                           *)
(***************************************************************************)
EXTENDS LoadBalancer

CONSTANTS
  CPU,
  WorkersFirst   \* TRUE: the client starts when all workers have registered

ASSUME OrderAssumption == WorkersFirst \in BOOLEAN

\* A frame shows what it is: a ping from a worker or a job of the client.
ASSUME FrameAssumption == Server \cap (Request \cup {NoRequest}) = {}

VARIABLES
  pc,        \* pc[c]: the next access of CPU c
  reg,       \* reg[c]: its local variables
  unsent,    \* jobs the client has still to send
  pings,     \* pings[s]: pings of worker s under way
  running,   \* running[s]: jobs under way to s or in its threads
  sent,      \* sent[v]: how often v was sent to a worker
  dropped    \* jobs that were given up

outer == <<unsent, pings, running, sent, dropped>>
vars == <<lbvars, pc, reg, outer>>

Payload == Request \cup {NoRequest}

\* An element of servers that nobody has written.
Unused == [saddr |-> NoAddr, free_threads |-> 0]

\* frame is the sender of a ping or a request; op the counter update in
\* progress, tmp its number and elem the element it copies; slot the next
\* one get_available_backend looks at.
Blank == [frame |-> NoRequest, op |-> "none", key |-> NoKey, tmp |-> 0,
          elem |-> Unused,
          best |-> [selected_key |-> NoKey, max_free_threads |-> 0],
          slot |-> 0, value |-> NoRequest]

Init ==
  /\ LbInit
  /\ pc = [c \in CPU |-> "idle"]
  /\ reg = [c \in CPU |-> Blank]
  /\ unsent = Request
  /\ pings = [s \in Server |-> 1]     \* everybody's 'S'
  /\ running = [s \in Server |-> 0]
  /\ sent = [v \in Payload |-> 0]
  /\ dropped = {}

\* CPU c is at p.
At(c, p) == pc[c] = p

\* CPU c goes on at p with the local variables r.
Goto(c, p, r) ==
  /\ pc' = [pc EXCEPT ![c] = p]
  /\ reg' = [reg EXCEPT ![c] = r]

Return(c) == Goto(c, "idle", Blank)

\* The counter updates: one more server, a thread back, a thread taken.
Update(c, op, k) == Goto(c, "load", [reg[c] EXCEPT !.op = op, !.key = k])

-----------------------------------------------------------------------------
(* A ping: find the sender's key and slot. *)

\* The lookup in the hash and, if there is an entry, the read through the
\* pointer it returns.
LookupKey(c, s) ==
  /\ At(c, "idle")
  /\ pings[s] > 0
  /\ pings' = [pings EXCEPT ![s] = @ - 1]
  /\ Goto(c, IF ip_to_key[s] = NoKey THEN "read_cnt" ELSE "read_slot",
          [Blank EXCEPT !.frame = s, !.key = ip_to_key[s]])
  /\ UNCHANGED <<lbvars, unsent, running, sent, dropped>>

ReadCnt(c) ==
  /\ At(c, "read_cnt")
  /\ Goto(c, "learn", [reg[c] EXCEPT !.key = server_cnt])
  /\ UNCHANGED <<lbvars, outer>>

\* BPF_ANY: an entry that another CPU has made meanwhile is overwritten.
Learn(c) ==
  LET s == reg[c].frame IN
  /\ At(c, "learn")
  /\ ip_to_key' = IF s \in Known \/ Cardinality(Known) < MAX_SERVERS
                  THEN [ip_to_key EXCEPT ![s] = reg[c].key] ELSE ip_to_key
  /\ Goto(c, "read_slot", reg[c])
  /\ UNCHANGED <<servers, server_cnt, queue, outer>>

\* Seeded fault: the slot is filled and counted again by every ping.
ReadSlotUntested(c) ==
  /\ At(c, "read_slot")
  /\ Goto(c, "write_slot", reg[c])
  /\ UNCHANGED <<lbvars, outer>>

ReadSlot(c) ==
  /\ At(c, "read_slot")
  /\ IF Occupied(servers, reg[c].key)
     THEN Update(c, "credit", reg[c].key)
     ELSE Goto(c, "write_slot", reg[c])
  /\ UNCHANGED <<lbvars, outer>>

WriteSlot(c) ==
  LET k == reg[c].key IN
  /\ At(c, "write_slot")
  /\ servers' = IF k \in Key
                THEN [servers EXCEPT ![k] = [saddr |-> reg[c].frame,
                                             free_threads |-> MAX_THREADS]]
                ELSE servers
  /\ Update(c, "count", NoKey)
  /\ UNCHANGED <<ip_to_key, server_cnt, queue, outer>>

-----------------------------------------------------------------------------
(* A counter is updated: load, store, and the copy of the element. *)

Load(c) ==
  /\ At(c, "load")
  /\ Goto(c, "store",
          [reg[c] EXCEPT !.tmp = IF reg[c].op = "count" THEN server_cnt
                                 ELSE servers[reg[c].key].free_threads])
  /\ UNCHANGED <<lbvars, outer>>

Store(c) ==
  LET k == reg[c].key
      old == [servers EXCEPT ![k].free_threads = reg[c].tmp]
  IN
  /\ At(c, "store")
  /\ server_cnt' = IF reg[c].op = "count" THEN (reg[c].tmp + 1) % U16
                   ELSE server_cnt
  /\ servers' =
       CASE reg[c].op = "count" -> servers
         [] reg[c].op = "credit" -> ReturnThread(old, k)
         [] reg[c].op = "charge" -> TakeThread(old, k)
  /\ Goto(c, "copy_load", reg[c])
  /\ UNCHANGED <<ip_to_key, queue, outer>>

CopyLoad(c) ==
  /\ At(c, "copy_load")
  /\ Goto(c, "copy_store",
          IF reg[c].op = "count" THEN [reg[c] EXCEPT !.tmp = server_cnt]
          ELSE [reg[c] EXCEPT !.tmp = 0, !.elem = servers[reg[c].key]])
  /\ UNCHANGED <<lbvars, outer>>

\* Seeded fault: a completion returns without a look at the queue.
CopyStoreReturns(c) ==
  /\ At(c, "copy_store")
  /\ server_cnt' = IF reg[c].op = "count" THEN reg[c].tmp ELSE server_cnt
  /\ servers' = IF reg[c].op = "count" THEN servers
                ELSE [servers EXCEPT ![reg[c].key] = reg[c].elem]
  /\ IF reg[c].op = "charge" THEN Goto(c, "send", [reg[c] EXCEPT !.elem = Unused])
     ELSE Return(c)
  /\ UNCHANGED <<ip_to_key, queue, outer>>

CopyStore(c) ==
  /\ At(c, "copy_store")
  /\ server_cnt' = IF reg[c].op = "count" THEN reg[c].tmp ELSE server_cnt
  /\ servers' = IF reg[c].op = "count" THEN servers
                ELSE [servers EXCEPT ![reg[c].key] = reg[c].elem]
  /\ CASE reg[c].op = "count" -> Return(c)
       [] reg[c].op = "credit" -> Goto(c, "peek", [reg[c] EXCEPT !.elem = Unused])
       [] reg[c].op = "charge" -> Goto(c, "send", [reg[c] EXCEPT !.elem = Unused])
  /\ UNCHANGED <<ip_to_key, queue, outer>>

-----------------------------------------------------------------------------
(* A job is chosen, a backend selected and the job sent, queued or dropped. *)

Peek(c) ==
  /\ At(c, "peek")
  /\ IF queue = << >> THEN Return(c) ELSE Goto(c, "select", reg[c])
  /\ UNCHANGED <<lbvars, outer>>

LookupRequest(c, r) ==
  /\ At(c, "idle")
  /\ r \in unsent
  /\ WorkersFirst /\ unsent = Request =>
       (\A s \in Server : pings[s] = 0) /\ (\A d \in CPU : At(d, "idle"))
  /\ unsent' = unsent \ {r}
  /\ Goto(c, "select", [Blank EXCEPT !.frame = r])
  /\ UNCHANGED <<lbvars, pings, running, sent, dropped>>

\* One slot per step; after the last one the choice is used.
Select(c) ==
  LET best == Visit(servers, reg[c].best, reg[c].slot)
      looked == [reg[c] EXCEPT !.best = best, !.slot = @ + 1]
      k == best.selected_key
  IN
  /\ At(c, "select")
  /\ IF reg[c].slot < MAX_SERVERS - 1 THEN Goto(c, "select", looked)
     ELSE IF reg[c].frame \in Server
          THEN IF k = NoKey THEN Return(c) ELSE Goto(c, "pop", looked)
          ELSE IF k = NoKey THEN Goto(c, "push", looked)
               ELSE Goto(c, "load", [looked EXCEPT !.op = "charge", !.key = k,
                                                   !.value = reg[c].frame])
  /\ UNCHANGED <<lbvars, outer>>

\* Seeded fault: the oldest job is read here and removed by nobody.
PopPeeks(c) ==
  /\ At(c, "pop")
  /\ \E grown \in TailGrows :
       IF grown
       THEN Goto(c, "load", [reg[c] EXCEPT !.op = "charge", !.key = reg[c].best.selected_key,
                   !.value = IF queue = << >> THEN NoRequest ELSE Head(queue)])
       ELSE Return(c)
  /\ UNCHANGED <<lbvars, outer>>

\* The queue may have become empty since it was peeked at: the result of the
\* pop is ignored and the value is then no job (the helper zeroes it).
Pop(c) ==
  LET value == IF queue = << >> THEN NoRequest ELSE Head(queue) IN
  /\ At(c, "pop")
  /\ queue' = IF queue = << >> THEN queue ELSE Tail(queue)
  /\ \E grown \in TailGrows :
       IF grown
       THEN /\ Goto(c, "load", [reg[c] EXCEPT !.op = "charge", !.value = value,
                                              !.key = reg[c].best.selected_key])
            /\ UNCHANGED dropped
       ELSE /\ Return(c)
            /\ dropped' = dropped \cup ({value} \cap Request)
  /\ UNCHANGED <<ip_to_key, servers, server_cnt, unsent, pings, running, sent>>

Push(c) ==
  LET r == reg[c].frame IN
  /\ At(c, "push")
  /\ enqueue(r)
  /\ dropped' = IF Len(queue) < QUEUE_MAX THEN dropped ELSE dropped \cup {r}
  /\ Return(c)
  /\ UNCHANGED <<ip_to_key, servers, server_cnt, unsent, pings, running, sent>>

Send(c) ==
  /\ At(c, "send")
  /\ sent' = [sent EXCEPT ![reg[c].value] = @ + 1]
  /\ running' = [running EXCEPT ![servers[reg[c].key].saddr] = @ + 1]
  /\ Return(c)
  /\ UNCHANGED <<lbvars, unsent, pings, dropped>>

\* A worker finishes one of its jobs.
Finish(s) ==
  /\ running[s] > 0
  /\ running' = [running EXCEPT ![s] = @ - 1]
  /\ pings' = [pings EXCEPT ![s] = @ + 1]
  /\ UNCHANGED <<lbvars, pc, reg, unsent, sent, dropped>>

Quiet ==
  /\ unsent = {}
  /\ \A c \in CPU : At(c, "idle")
  /\ \A s \in Server : pings[s] = 0 /\ running[s] = 0

Idle == Quiet /\ UNCHANGED vars

Step(c) ==
  \/ ReadCnt(c) \/ Learn(c) \/ ReadSlot(c) \/ WriteSlot(c)
  \/ Load(c) \/ Store(c) \/ CopyLoad(c) \/ CopyStore(c)
  \/ Peek(c) \/ Select(c) \/ Pop(c) \/ Push(c) \/ Send(c)

Next ==
  \/ \E c \in CPU, s \in Server : LookupKey(c, s)
  \/ \E c \in CPU, r \in Request : LookupRequest(c, r)
  \/ \E c \in CPU : Step(c)
  \/ \E s \in Server : Finish(s)
  \/ Idle

Spec == Init /\ [][Next]_vars

-----------------------------------------------------------------------------
(* What survives any interleaving of CPUs. *)

InHand(c) == {reg[c].frame, reg[c].value} \cap Request

Once(b) == IF b THEN 1 ELSE 0

\* In how many places the job r is.
Places(r) ==
  Once(r \in unsent) + Once(r \in dropped) + sent[r]
    + Cardinality({c \in CPU : r \in InHand(c)})
    + Cardinality({n \in 1 .. Len(queue) : queue[n] = r})

(* However the CPUs interleave, a job is neither lost nor sent twice: it   *)
(* is with the client, in the hands of one CPU, at one position of the     *)
(* queue, sent once, or dropped.                                           *)
JobsSafe == \A r \in Request : Places(r) = 1

(* However the CPUs interleave, the key of a known worker lies inside the  *)
(* servers map, and once none of the worker's pings is being handled it    *)
(* names a slot in use: its completions are credited to somebody.          *)
KeysUsable ==
  \A s \in Known :
    /\ ip_to_key[s] \in Key
    /\ (\A c \in CPU : reg[c].frame # s) => Occupied(servers, ip_to_key[s])

-----------------------------------------------------------------------------
(* What holds on one CPU and is lost on two. *)

(* Every job is charged once, credited once and sent as soon as a thread   *)
(* is free.  So when nothing is under way, every worker that has pinged is *)
(* registered, all its threads are free, no job waits, and what was sent   *)
(* were jobs of the client.                                                *)
AtRest ==
  Quiet => /\ \A s \in Server : \E k \in Key : servers[k].saddr = s
           /\ \A k \in Key : Occupied(servers, k) =>
                servers[k].free_threads = MAX_THREADS
           /\ queue = << >>
           /\ sent[NoRequest] = 0
=============================================================================
