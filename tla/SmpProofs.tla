----------------------------- MODULE SmpProofs ------------------------------
(***************************************************************************)
(* Proofs about lb.c on several CPUs whose accesses to the maps interleave *)
(* in every possible way, for every number of CPUs, hosts, jobs and        *)
(* threads, and also for more hosts than the maps have room for: where a   *)
(* job is, which keys the workers get, that an invocation which runs alone *)
(* is an action of LoadBalancer, and, last, that without overlaps the      *)
(* books of lb.c are right.                                                *)
(***************************************************************************)
EXTENDS SmpAtomic, LoadBalancerProofs

\* Where an invocation for a ping stands before it has chosen a job.
Announced == {"read_cnt", "learn", "read_slot", "write_slot", "peek"}
Updating == {"load", "store", "copy_load", "copy_store"}
Pc == Announced \cup Updating \cup {"idle", "select", "pop", "push", "send"}
Op == {"none", "count", "credit", "charge"}

Registers ==
  [frame : Server \cup Payload, op : Op, key : Cnt \cup {NoKey}, tmp : Cnt,
   elem : dest_info,
   best : [selected_key : Key \cup {NoKey}, max_free_threads : Cnt],
   slot : 0 .. MAX_SERVERS, value : Payload]

SmpTypeOK ==
  /\ ip_to_key \in [Server -> Cnt \cup {NoKey}]
  /\ servers \in [Key -> dest_info]
  /\ server_cnt \in Cnt
  /\ queue \in Seq(Request)
  /\ pc \in [CPU -> Pc]
  /\ reg \in [CPU -> Registers]
  /\ unsent \in SUBSET Request
  /\ pings \in [Server -> Nat]
  /\ running \in [Server -> Nat]
  /\ sent \in [Payload -> Nat]
  /\ dropped \in SUBSET Request

\* An invocation for a request sends that request.
Carries(r) == r.frame \in Request => r.value = r.frame

\* What an invocation that stands at p with the local variables r relies on
\* in the servers map srv: a chosen or charged slot is in use.
Sound(srv, p, r) ==
  /\ p = "idle" => r = Blank
  /\ p \in Announced => /\ r.frame \in Server /\ r.value = NoRequest
                        /\ r.best.selected_key = NoKey /\ r.slot = 0
  /\ p \in {"learn", "read_slot", "write_slot"} => r.key # NoKey
  /\ p = "select" => /\ r.frame \in Server \cup Request /\ r.value = NoRequest
                     /\ r.slot < MAX_SERVERS
                     /\ r.best.selected_key # NoKey =>
                          Occupied(srv, r.best.selected_key)
  /\ p = "pop" => /\ r.frame \in Server /\ r.value = NoRequest
                  /\ Occupied(srv, r.best.selected_key)
  /\ p = "push" => r.frame \in Request /\ r.value = NoRequest
  /\ p \in Updating =>
       /\ r.op # "none"
       /\ r.op # "charge" => r.frame \in Server /\ r.value = NoRequest
       /\ r.op = "credit" => r.best.selected_key = NoKey /\ r.slot = 0
       /\ r.op # "count" => Occupied(srv, r.key)
       /\ r.op = "charge" => Carries(r)
  /\ p = "copy_store" /\ r.op # "count" => r.elem.saddr \in Server
  /\ p = "send" => Occupied(srv, r.key) /\ Carries(r)

Locals == \A c \in CPU : Sound(servers, pc[c], reg[c])

-----------------------------------------------------------------------------
(* Types and local variables. *)

LEMMA CntFacts ==
  /\ 0 \in Cnt /\ MAX_THREADS \in Cnt
  /\ \A n \in Cnt : (n + 1) % U16 \in Cnt /\ (n - 1) % U16 \in Cnt
  /\ Key \subseteq Cnt /\ NoKey \notin Cnt /\ NoKey \notin Key
  /\ Cnt \subseteq Nat
<1>1. U16 \in Nat /\ U16 > 0 /\ U16 > 3
  BY SizesAssumption DEF MAX_SERVERS
<1>2. ASSUME NEW n \in Int PROVE n % U16 \in Cnt
  BY <1>1 DEF Cnt
<1> QED
  BY <1>1, <1>2, SizesAssumption DEF Cnt, Key, NoKey, MAX_SERVERS

LEMMA BlankType == Blank \in Registers /\ Unused \in dest_info
BY CntFacts DEF Blank, Registers, Unused, dest_info, Payload, Op, MAX_SERVERS

\* The slots in use in the map srv are in use in the map new.
Lasting(srv, new) == \A k : Occupied(srv, k) => Occupied(new, k)

LEMMA SoundKept ==
  ASSUME NEW srv, NEW new, Lasting(srv, new), NEW p, NEW r, Sound(srv, p, r)
  PROVE  Sound(new, p, r)
BY DEF Lasting, Sound

LEMMA GotoView ==
  ASSUME SmpTypeOK, NEW c \in CPU, NEW p, NEW r, Goto(c, p, r)
  PROVE  /\ pc'[c] = p /\ reg'[c] = r
         /\ \A d \in CPU : d # c => pc'[d] = pc[d] /\ reg'[d] = reg[d]
BY DEF SmpTypeOK, Goto

LEMMA GotoLocals ==
  ASSUME SmpTypeOK, Locals, NEW c \in CPU, NEW p \in Pc, NEW r \in Registers,
         Goto(c, p, r), Lasting(servers, servers'), Sound(servers', p, r)
  PROVE  /\ pc' \in [CPU -> Pc] /\ reg' \in [CPU -> Registers]
         /\ Locals'
<1>1. /\ pc'[c] = p /\ reg'[c] = r
      /\ \A d \in CPU : d # c => pc'[d] = pc[d] /\ reg'[d] = reg[d]
  BY GotoView
<1>2. ASSUME NEW d \in CPU PROVE Sound(servers', pc'[d], reg'[d])
  <2>1. CASE d = c
    BY <1>1, <2>1
  <2>2. CASE d # c
    BY <1>1, <2>2, SoundKept DEF Locals
  <2> QED
    BY <2>1, <2>2
<1>3. pc' \in [CPU -> Pc] /\ reg' \in [CPU -> Registers]
  BY DEF SmpTypeOK, Goto
<1> QED
  BY <1>2, <1>3 DEF Locals

\* Charging or crediting a slot leaves all addresses alone.
LEMMA CountStored ==
  ASSUME NEW srv \in [Key -> dest_info], NEW k \in Key, NEW n \in Cnt
  PROVE  LET old == [srv EXCEPT ![k].free_threads = n] IN
         /\ ReturnThread(old, k) \in [Key -> dest_info]
         /\ TakeThread(old, k) \in [Key -> dest_info]
         /\ \A j \in Key : /\ ReturnThread(old, k)[j].saddr = srv[j].saddr
                           /\ TakeThread(old, k)[j].saddr = srv[j].saddr
<1> DEFINE old == [srv EXCEPT ![k].free_threads = n]
<1>1. old \in [Key -> dest_info] /\ \A j \in Key : old[j].saddr = srv[j].saddr
  BY DEF dest_info
<1>2. ASSUME NEW m \in Cnt
      PROVE  /\ WithFree(old, k, m) \in [Key -> dest_info]
             /\ \A j \in Key : WithFree(old, k, m)[j].saddr = srv[j].saddr
  BY <1>1 DEF WithFree, dest_info
<1>3. old[k].free_threads \in Cnt
  BY <1>1 DEF dest_info
<1> HIDE DEF old
<1>4. (old[k].free_threads + 1) % U16 \in Cnt /\ (old[k].free_threads - 1) % U16 \in Cnt
      /\ MAX_THREADS \in Cnt
  BY <1>3, CntFacts
<1>5. (IF (old[k].free_threads + 1) % U16 > MAX_THREADS THEN MAX_THREADS
       ELSE (old[k].free_threads + 1) % U16) \in Cnt
  BY <1>4
<1> QED
  BY <1>2, <1>4, <1>5 DEF ReturnThread, TakeThread, old

LEMMA SameAddressesLast ==
  ASSUME NEW srv, NEW new, \A k \in Key : new[k].saddr = srv[k].saddr
  PROVE  Lasting(srv, new)
BY DEF Lasting, Occupied

LEMMA LookupKeyTypes ==
  ASSUME SmpTypeOK, Locals, NEW c \in CPU, NEW s \in Server, LookupKey(c, s)
  PROVE  SmpTypeOK' /\ Locals'
<1> DEFINE p == IF ip_to_key[s] = NoKey THEN "read_cnt" ELSE "read_slot"
           r == [Blank EXCEPT !.frame = s, !.key = ip_to_key[s]]
<1>1. /\ pings[s] > 0 /\ pings' = [pings EXCEPT ![s] = @ - 1] /\ Goto(c, p, r)
      /\ UNCHANGED <<lbvars, unsent, running, sent, dropped>>
  BY DEF LookupKey
<1>2. p \in Pc /\ r \in Registers /\ Lasting(servers, servers')
  BY <1>1, BlankType DEF Pc, Announced, Registers, SmpTypeOK, lbvars, Lasting
<1>3. Sound(servers', p, r)
  <2>1. r.frame = s /\ r.key = ip_to_key[s] /\ r.value = NoRequest
        /\ r.best.selected_key = NoKey /\ r.slot = 0
    BY DEF Blank
  <2> HIDE DEF r
  <2> QED
    BY <2>1, FrameAssumption DEF Sound, Announced, Updating
<1>4. pings' \in [Server -> Nat]
  BY <1>1 DEF SmpTypeOK
<1> HIDE DEF p, r
<1> QED
  BY <1>1, <1>2, <1>3, <1>4, GotoLocals DEF SmpTypeOK, lbvars

LEMMA LookupRequestTypes ==
  ASSUME SmpTypeOK, Locals, NEW c \in CPU, NEW r \in Request, LookupRequest(c, r)
  PROVE  SmpTypeOK' /\ Locals'
<1> DEFINE x == [Blank EXCEPT !.frame = r]
<1>1. /\ unsent' = unsent \ {r} /\ Goto(c, "select", x)
      /\ UNCHANGED <<lbvars, pings, running, sent, dropped>>
  BY DEF LookupRequest
<1>2. "select" \in Pc /\ x \in Registers /\ Lasting(servers, servers')
  BY <1>1, BlankType DEF Pc, Registers, Payload, lbvars, Lasting
<1>3. Sound(servers', "select", x)
  <2>1. x.frame = r /\ x.value = NoRequest /\ x.best.selected_key = NoKey /\ x.slot = 0
    BY DEF Blank
  <2> HIDE DEF x
  <2> QED
    BY <2>1 DEF Sound, Announced, Updating, MAX_SERVERS
<1> HIDE DEF x
<1> QED
  BY <1>1, <1>2, <1>3, GotoLocals DEF SmpTypeOK, lbvars

\* The accesses up to the counter updates.
LEMMA RegisterTypes ==
  ASSUME SmpTypeOK, Locals, NEW c \in CPU,
         ReadCnt(c) \/ Learn(c) \/ ReadSlot(c) \/ WriteSlot(c)
  PROVE  SmpTypeOK' /\ Locals'
<1>1. reg[c] \in Registers /\ Sound(servers, pc[c], reg[c])
  BY DEF SmpTypeOK, Locals
<1>2. CASE ReadCnt(c)
  <2> DEFINE r == [reg[c] EXCEPT !.key = server_cnt]
  <2>1. pc[c] = "read_cnt" /\ Goto(c, "learn", r) /\ UNCHANGED <<lbvars, outer>>
    BY <1>2 DEF ReadCnt, At
  <2>2. "learn" \in Pc /\ r \in Registers /\ Lasting(servers, servers')
    BY <1>1, <2>1 DEF Pc, Announced, Registers, SmpTypeOK, lbvars, Lasting
  <2>3. Sound(servers', "learn", r)
    BY <1>1, <2>1, CntFacts DEF Sound, Announced, Updating, Registers, SmpTypeOK
  <2> HIDE DEF r
  <2> QED
    BY <2>1, <2>2, <2>3, GotoLocals DEF SmpTypeOK, lbvars, outer
<1>3. CASE Learn(c)
  <2>1. /\ pc[c] = "learn" /\ Goto(c, "read_slot", reg[c])
        /\ UNCHANGED <<servers, server_cnt, queue, outer>>
        /\ ip_to_key' = ip_to_key
           \/ ip_to_key' = [ip_to_key EXCEPT ![reg[c].frame] = reg[c].key]
    BY <1>3 DEF Learn, At
  <2>2. "read_slot" \in Pc /\ Lasting(servers, servers')
    BY <2>1 DEF Pc, Announced, Lasting
  <2>3. Sound(servers', "read_slot", reg[c])
    BY <1>1, <2>1 DEF Sound, Announced, Updating
  <2>4. ip_to_key' \in [Server -> Cnt \cup {NoKey}]
    <3>1. reg[c].key \in Cnt \cup {NoKey}
      BY <1>1 DEF Registers
    <3> QED
      BY <2>1, <3>1 DEF SmpTypeOK
  <2> QED
    BY <1>1, <2>1, <2>2, <2>3, <2>4, GotoLocals DEF SmpTypeOK, outer
<1>4. CASE ReadSlot(c)
  <2> DEFINE r == [reg[c] EXCEPT !.op = "credit", !.key = reg[c].key]
  <2>1. /\ pc[c] = "read_slot" /\ UNCHANGED <<lbvars, outer>>
        /\ \/ Occupied(servers, reg[c].key) /\ Goto(c, "load", r)
           \/ Goto(c, "write_slot", reg[c])
    BY <1>4 DEF ReadSlot, At, Update
  <2>2. {"load", "write_slot"} \subseteq Pc /\ Lasting(servers, servers')
    BY <2>1 DEF Pc, Announced, Updating, lbvars, Lasting
  <2>3. Sound(servers', "write_slot", reg[c])
    BY <1>1, <2>1 DEF Sound, Announced, Updating
  <2>4. r \in Registers
    BY <1>1 DEF Registers, Op
  <2>5. Occupied(servers, reg[c].key) => Sound(servers', "load", r)
    <3>1. r.frame = reg[c].frame /\ r.value = reg[c].value /\ r.key = reg[c].key
          /\ r.best = reg[c].best /\ r.slot = reg[c].slot /\ r.op = "credit"
      BY <1>1 DEF Registers
    <3> HIDE DEF r
    <3> QED
      BY <1>1, <2>1, <3>1, FrameAssumption
         DEF Sound, Announced, Updating, lbvars, Payload
  <2>6. SmpTypeOK' /\ Locals'
    <3> HIDE DEF r
    <3> QED
      BY <1>1, <2>1, <2>2, <2>3, <2>4, <2>5, GotoLocals DEF SmpTypeOK, lbvars, outer
  <2> QED
    BY <2>6
<1>5. CASE WriteSlot(c)
  <2> DEFINE r == [reg[c] EXCEPT !.op = "count", !.key = NoKey]
             new == [saddr |-> reg[c].frame, free_threads |-> MAX_THREADS]
  <2>1. /\ pc[c] = "write_slot" /\ UNCHANGED <<ip_to_key, server_cnt, queue, outer>>
        /\ servers' = servers \/ (reg[c].key \in Key
                                  /\ servers' = [servers EXCEPT ![reg[c].key] = new])
        /\ Goto(c, "load", r)
    BY <1>5 DEF WriteSlot, At, Update
  <2>2. reg[c].frame \in Server /\ reg[c].value = NoRequest /\ new \in dest_info
        /\ new.saddr # NoAddr
    BY <1>1, <2>1, CntFacts, ServersAssumption DEF Sound, Announced, dest_info
  <2> HIDE DEF new
  <2>3. servers' \in [Key -> dest_info] /\ Lasting(servers, servers')
    BY <2>1, <2>2 DEF SmpTypeOK, Lasting, Occupied
  <2>4. r \in Registers /\ "load" \in Pc
    BY <1>1 DEF Registers, Op, Pc, Updating
  <2>5. Sound(servers', "load", r)
    <3>1. r.frame = reg[c].frame /\ r.value = reg[c].value /\ r.op = "count"
      BY <1>1 DEF Registers
    <3> HIDE DEF r
    <3> QED
      BY <2>2, <3>1 DEF Sound, Announced, Updating
  <2> HIDE DEF r
  <2> QED
    BY <2>1, <2>3, <2>4, <2>5, GotoLocals DEF SmpTypeOK, outer
<1> QED
  BY <1>2, <1>3, <1>4, <1>5

\* The counter updates.
LEMMA UpdateTypes ==
  ASSUME SmpTypeOK, Locals, NEW c \in CPU,
         Load(c) \/ Store(c) \/ CopyLoad(c) \/ CopyStore(c)
  PROVE  SmpTypeOK' /\ Locals'
<1> DEFINE k == reg[c].key
<1>1. /\ reg[c] \in Registers /\ Sound(servers, pc[c], reg[c])
      /\ server_cnt \in Cnt /\ servers \in [Key -> dest_info]
  BY DEF SmpTypeOK, Locals
<1>2. pc[c] \in Updating
  BY DEF Load, Store, CopyLoad, CopyStore, At, Updating
<1>3. reg[c].op \in {"count", "credit", "charge"}
  BY <1>1, <1>2 DEF Sound, Registers, Op
<1>4. reg[c].op # "count" => k \in Key /\ servers[k].saddr \in Server
  BY <1>1, <1>2 DEF Sound, Occupied, dest_info
<1>5. {"idle", "peek", "send", "store", "copy_load", "copy_store"} \subseteq Pc
  BY DEF Pc, Announced, Updating
<1>6. CASE Load(c)
  <2> DEFINE n == IF reg[c].op = "count" THEN server_cnt
                  ELSE servers[reg[c].key].free_threads
             r == [reg[c] EXCEPT !.tmp = n]
  <2>1. Goto(c, "store", r) /\ UNCHANGED <<lbvars, outer>>
    BY <1>6 DEF Load
  <2>2. n \in Cnt
    BY <1>1, <1>4 DEF dest_info
  <2> HIDE DEF n
  <2>3. r \in Registers /\ Lasting(servers, servers')
    BY <1>1, <2>1, <2>2 DEF Registers, lbvars, Lasting
  <2>4. Sound(servers', "store", r)
    <3>1. r.frame = reg[c].frame /\ r.value = reg[c].value /\ r.op = reg[c].op
          /\ r.key = reg[c].key /\ r.best = reg[c].best /\ r.slot = reg[c].slot
      BY <1>1 DEF Registers
    <3> HIDE DEF r
    <3> QED
      BY <1>1, <1>2, <2>1, <3>1 DEF Sound, Carries, Announced, Updating, lbvars
  <2> HIDE DEF r
  <2> QED
    BY <1>5, <2>1, <2>3, <2>4, GotoLocals DEF SmpTypeOK, lbvars, outer
<1>7. CASE Store(c)
  <2>1. /\ Goto(c, "copy_load", reg[c]) /\ UNCHANGED <<ip_to_key, queue, outer>>
        /\ server_cnt' = IF reg[c].op = "count" THEN (reg[c].tmp + 1) % U16
                         ELSE server_cnt
    BY <1>7 DEF Store
  <2>2. reg[c].tmp \in Cnt /\ server_cnt' \in Cnt
    BY <1>1, <2>1, CntFacts DEF Registers
  <2>3. /\ servers' \in [Key -> dest_info]
        /\ \A j \in Key : servers'[j].saddr = servers[j].saddr
    <3> DEFINE old == [servers EXCEPT ![k].free_threads = reg[c].tmp]
    <3>1. CASE reg[c].op = "count"
      BY <1>1, <1>7, <3>1 DEF Store
    <3>2. CASE reg[c].op = "credit"
      <4>1. servers' = ReturnThread(old, k)
        BY <1>7, <3>2 DEF Store
      <4> QED
        BY <1>1, <1>4, <2>2, <3>2, <4>1, CountStored
    <3>3. CASE reg[c].op = "charge"
      <4>1. servers' = TakeThread(old, k)
        BY <1>7, <3>3 DEF Store
      <4> QED
        BY <1>1, <1>4, <2>2, <3>3, <4>1, CountStored
    <3> QED
      BY <1>3, <3>1, <3>2, <3>3
  <2>4. Lasting(servers, servers')
    BY <2>3, SameAddressesLast
  <2>5. Sound(servers', "copy_load", reg[c])
    <3>1. Sound(servers, "copy_load", reg[c])
      BY <1>1, <1>2 DEF Sound, Announced, Updating
    <3> QED
      BY <2>4, <3>1, SoundKept
  <2> QED
    BY <1>1, <1>5, <2>1, <2>2, <2>3, <2>4, <2>5, GotoLocals DEF SmpTypeOK, outer
<1>8. CASE CopyLoad(c)
  <2> DEFINE r == IF reg[c].op = "count" THEN [reg[c] EXCEPT !.tmp = server_cnt]
                  ELSE [reg[c] EXCEPT !.tmp = 0, !.elem = servers[reg[c].key]]
  <2>1. Goto(c, "copy_store", r) /\ UNCHANGED <<lbvars, outer>>
    BY <1>8 DEF CopyLoad
  <2>2. r \in Registers /\ Lasting(servers, servers')
    BY <1>1, <1>4, <2>1, CntFacts DEF Registers, lbvars, Lasting
  <2>3. Sound(servers', "copy_store", r)
    <3>1. r.frame = reg[c].frame /\ r.value = reg[c].value /\ r.op = reg[c].op
          /\ r.key = reg[c].key /\ r.best = reg[c].best /\ r.slot = reg[c].slot
      BY <1>1 DEF Registers
    <3>2. r.op # "count" => r.elem.saddr \in Server
      BY <1>1, <1>4 DEF Registers
    <3> HIDE DEF r
    <3> QED
      BY <1>1, <1>2, <2>1, <3>1, <3>2 DEF Sound, Carries, Announced, Updating, lbvars
  <2> HIDE DEF r
  <2> QED
    BY <1>5, <2>1, <2>2, <2>3, GotoLocals DEF SmpTypeOK, lbvars, outer
<1>9. CASE CopyStore(c)
  <2> DEFINE r == [reg[c] EXCEPT !.elem = Unused]
  <2>1. /\ pc[c] = "copy_store" /\ UNCHANGED <<ip_to_key, queue, outer>>
        /\ server_cnt' = IF reg[c].op = "count" THEN reg[c].tmp ELSE server_cnt
        /\ servers' = IF reg[c].op = "count" THEN servers
                      ELSE [servers EXCEPT ![reg[c].key] = reg[c].elem]
    BY <1>9 DEF CopyStore, At
  <2>2. \/ reg[c].op = "count" /\ Goto(c, "idle", Blank)
        \/ reg[c].op = "credit" /\ Goto(c, "peek", r)
        \/ reg[c].op = "charge" /\ Goto(c, "send", r)
    BY <1>3, <1>9 DEF CopyStore, Return
  <2>3. server_cnt' \in Cnt
    BY <1>1, <2>1 DEF Registers
  <2>4. servers' \in [Key -> dest_info] /\ Lasting(servers, servers')
    <3>1. reg[c].elem \in dest_info
      BY <1>1 DEF Registers
    <3>2. reg[c].op # "count" => reg[c].elem.saddr \in Server
      BY <1>1, <2>1 DEF Sound
    <3> QED
      BY <1>1, <1>4, <2>1, <3>1, <3>2, ServersAssumption DEF Lasting, Occupied
  <2>5. Sound(servers', "idle", Blank)
    BY FrameAssumption, RequestsAssumption
       DEF Sound, Blank, Announced, Updating, Payload
  <2>6. r \in Registers
    BY <1>1, BlankType DEF Registers
  <2>7. r.frame = reg[c].frame /\ r.value = reg[c].value /\ r.op = reg[c].op
        /\ r.key = reg[c].key /\ r.best = reg[c].best /\ r.slot = reg[c].slot
    BY <1>1 DEF Registers
  <2> HIDE DEF r
  <2>8. reg[c].op = "credit" => Sound(servers', "peek", r)
    BY <1>1, <2>1, <2>7, FrameAssumption DEF Sound, Announced, Updating
  <2>9. reg[c].op = "charge" => Sound(servers', "send", r)
    BY <1>1, <2>1, <2>4, <2>7 DEF Sound, Carries, Announced, Updating, Lasting
  <2> QED
    BY <1>5, <2>1, <2>2, <2>3, <2>4, <2>5, <2>6, <2>8, <2>9, BlankType, GotoLocals
       DEF SmpTypeOK, outer
<1> QED
  BY <1>6, <1>7, <1>8, <1>9

\* An invocation ends without touching the servers map.
LEMMA ReturnTypes ==
  ASSUME SmpTypeOK, Locals, NEW c \in CPU, Return(c), servers' = servers
  PROVE  /\ pc' \in [CPU -> Pc] /\ reg' \in [CPU -> Registers]
         /\ Locals'
<1>1. Sound(servers', "idle", Blank) /\ Lasting(servers, servers') /\ "idle" \in Pc
  BY FrameAssumption, RequestsAssumption
     DEF Sound, Blank, Announced, Updating, Payload, Lasting, Pc
<1> QED
  BY <1>1, BlankType, GotoLocals DEF Return

\* The slot that get_available_backend has kept is in use.
LEMMA VisitType ==
  ASSUME NEW srv \in [Key -> dest_info],
         NEW best \in [selected_key : Key \cup {NoKey}, max_free_threads : Cnt],
         NEW k \in Key,
         best.selected_key # NoKey => Occupied(srv, best.selected_key)
  PROVE  /\ Visit(srv, best, k) \in [selected_key : Key \cup {NoKey},
                                     max_free_threads : Cnt]
         /\ Visit(srv, best, k).selected_key # NoKey =>
              Occupied(srv, Visit(srv, best, k).selected_key)
BY DEF Visit, dest_info

LEMMA SelectTypes ==
  ASSUME SmpTypeOK, Locals, NEW c \in CPU, Select(c)
  PROVE  SmpTypeOK' /\ Locals'
<1> DEFINE best == Visit(servers, reg[c].best, reg[c].slot)
           looked == [reg[c] EXCEPT !.best = best, !.slot = @ + 1]
           charged == [looked EXCEPT !.op = "charge", !.key = best.selected_key,
                                     !.value = reg[c].frame]
<1>1. /\ reg[c] \in Registers /\ Sound(servers, pc[c], reg[c])
      /\ servers \in [Key -> dest_info] /\ pc[c] = "select"
  BY DEF SmpTypeOK, Locals, Select, At
<1>2. UNCHANGED <<lbvars, outer>> /\ Lasting(servers, servers')
  BY DEF Select, lbvars, Lasting
<1>3. /\ reg[c].frame \in Server \cup Request /\ reg[c].value = NoRequest
      /\ reg[c].slot \in Key
      /\ reg[c].best.selected_key # NoKey => Occupied(servers, reg[c].best.selected_key)
  BY <1>1 DEF Sound, Registers, Key, MAX_SERVERS
<1>4. \/ reg[c].slot < MAX_SERVERS - 1 /\ Goto(c, "select", looked)
      \/ reg[c].frame \in Server /\ Return(c)
      \/ reg[c].frame \in Server /\ best.selected_key # NoKey /\ Goto(c, "pop", looked)
      \/ reg[c].frame \notin Server /\ Goto(c, "push", looked)
      \/ reg[c].frame \notin Server /\ best.selected_key # NoKey
         /\ Goto(c, "load", charged)
  BY DEF Select
<1>5. /\ best \in [selected_key : Key \cup {NoKey}, max_free_threads : Cnt]
      /\ best.selected_key # NoKey => Occupied(servers, best.selected_key)
  <2>1. reg[c].best \in [selected_key : Key \cup {NoKey}, max_free_threads : Cnt]
    BY <1>1 DEF Registers
  <2> QED
    BY <1>1, <1>3, <2>1, VisitType
<1> HIDE DEF best
<1>6. looked \in Registers
  <2>1. reg[c].slot + 1 \in 0 .. MAX_SERVERS
    BY <1>3 DEF Key, MAX_SERVERS
  <2> QED
    BY <1>1, <1>5, <2>1 DEF Registers
<1>7. /\ looked.frame = reg[c].frame /\ looked.value = NoRequest
      /\ looked.best = best /\ looked.slot = reg[c].slot + 1
  BY <1>1, <1>3 DEF Registers
<1>8. ASSUME reg[c].frame \notin Server
      PROVE  /\ charged \in Registers /\ charged.frame = reg[c].frame
             /\ charged.value = reg[c].frame /\ charged.op = "charge"
             /\ charged.key = best.selected_key
  <2>1. reg[c].frame \in Payload
    BY <1>3, <1>8 DEF Payload
  <2>2. best.selected_key \in Cnt \cup {NoKey}
    BY <1>5, CntFacts
  <2> HIDE DEF looked
  <2> QED
    BY <1>6, <1>7, <2>1, <2>2 DEF Registers, Op
<1> HIDE DEF looked, charged
<1>9. {"select", "pop", "push", "load"} \subseteq Pc /\ servers' = servers
  BY <1>2 DEF Pc, Updating, lbvars
<1>10. reg[c].slot < MAX_SERVERS - 1 => Sound(servers', "select", looked)
  BY <1>3, <1>5, <1>7, <1>9 DEF Sound, Announced, Updating, MAX_SERVERS, Key
<1>11. reg[c].frame \in Server /\ best.selected_key # NoKey =>
         Sound(servers', "pop", looked)
  BY <1>3, <1>5, <1>7, <1>9, FrameAssumption DEF Sound, Announced, Updating
<1>12. reg[c].frame \notin Server => Sound(servers', "push", looked)
  BY <1>3, <1>7 DEF Sound, Announced, Updating
<1>13. reg[c].frame \notin Server /\ best.selected_key # NoKey =>
         Sound(servers', "load", charged)
  BY <1>3, <1>5, <1>8, <1>9 DEF Sound, Carries, Announced, Updating
<1>14. pc' \in [CPU -> Pc] /\ reg' \in [CPU -> Registers] /\ Locals'
  BY <1>2, <1>4, <1>6, <1>8, <1>9, <1>10, <1>11, <1>12, <1>13, GotoLocals, ReturnTypes
<1> QED
  BY <1>2, <1>14 DEF SmpTypeOK, lbvars, outer

\* The accesses after the counter updates.
LEMMA DispatchTypes ==
  ASSUME SmpTypeOK, Locals, NEW c \in CPU, Peek(c) \/ Pop(c) \/ Push(c) \/ Send(c)
  PROVE  SmpTypeOK' /\ Locals'
<1>1. /\ reg[c] \in Registers /\ Sound(servers, pc[c], reg[c])
      /\ servers \in [Key -> dest_info] /\ queue \in Seq(Request)
  BY DEF SmpTypeOK, Locals
<1>2. CASE Peek(c)
  <2>1. pc[c] = "peek" /\ UNCHANGED <<lbvars, outer>> /\ servers' = servers
        /\ (Return(c) \/ Goto(c, "select", reg[c]))
    BY <1>2 DEF Peek, At, lbvars
  <2>2. Sound(servers', "select", reg[c]) /\ Lasting(servers, servers') /\ "select" \in Pc
    BY <1>1, <2>1 DEF Sound, Announced, Updating, Lasting, Pc, MAX_SERVERS
  <2> QED
    BY <1>1, <2>1, <2>2, GotoLocals, ReturnTypes DEF SmpTypeOK, lbvars, outer
<1>3. CASE Pop(c)
  <2> DEFINE value == IF queue = << >> THEN NoRequest ELSE Head(queue)
             r == [reg[c] EXCEPT !.op = "charge", !.value = value,
                                 !.key = reg[c].best.selected_key]
  <2>1. /\ pc[c] = "pop" /\ servers' = servers
        /\ queue' = IF queue = << >> THEN queue ELSE Tail(queue)
        /\ \/ Goto(c, "load", r) /\ UNCHANGED dropped
           \/ Return(c) /\ dropped' = dropped \cup ({value} \cap Request)
        /\ UNCHANGED <<ip_to_key, server_cnt, unsent, pings, running, sent>>
    BY <1>3 DEF Pop, At
  <2>2. value \in Payload /\ queue' \in Seq(Request)
    BY <1>1, <2>1 DEF Payload
  <2> HIDE DEF value
  <2>3. r \in Registers /\ r.op = "charge" /\ r.frame = reg[c].frame
        /\ r.key = reg[c].best.selected_key
    <3>1. reg[c].best.selected_key \in Cnt \cup {NoKey}
      BY <1>1, CntFacts DEF Registers
    <3> QED
      BY <1>1, <2>2, <3>1 DEF Registers, Op
  <2> HIDE DEF r
  <2>4. Sound(servers', "load", r) /\ Lasting(servers, servers') /\ "load" \in Pc
    BY <1>1, <2>1, <2>3, FrameAssumption
       DEF Sound, Carries, Announced, Updating, Lasting, Pc, Payload
  <2>5. dropped' \in SUBSET Request
    BY <2>1 DEF SmpTypeOK
  <2>6. pc' \in [CPU -> Pc] /\ reg' \in [CPU -> Registers] /\ Locals'
    BY <2>1, <2>3, <2>4, GotoLocals, ReturnTypes
  <2> QED
    BY <2>1, <2>2, <2>5, <2>6 DEF SmpTypeOK
<1>4. CASE Push(c)
  <2>1. /\ pc[c] = "push" /\ servers' = servers /\ Return(c)
        /\ queue' = queue \/ queue' = Append(queue, reg[c].frame)
        /\ dropped' = dropped \/ dropped' = dropped \cup {reg[c].frame}
        /\ UNCHANGED <<ip_to_key, server_cnt, unsent, pings, running, sent>>
    BY <1>4 DEF Push, At, enqueue
  <2>2. reg[c].frame \in Request
    BY <1>1, <2>1 DEF Sound
  <2>3. queue' \in Seq(Request)
    BY <1>1, <2>1, <2>2
  <2>4. dropped' \in SUBSET Request
    BY <2>1, <2>2 DEF SmpTypeOK
  <2> QED
    BY <2>1, <2>3, <2>4, ReturnTypes DEF SmpTypeOK
<1>5. CASE Send(c)
  <2>1. /\ pc[c] = "send" /\ UNCHANGED lbvars /\ Return(c) /\ servers' = servers
        /\ sent' = [sent EXCEPT ![reg[c].value] = @ + 1]
        /\ running' = [running EXCEPT ![servers[reg[c].key].saddr] = @ + 1]
        /\ UNCHANGED <<unsent, pings, dropped>>
    BY <1>5 DEF Send, At, lbvars
  <2>2. servers[reg[c].key].saddr \in Server /\ reg[c].value \in Payload
    BY <1>1, <2>1 DEF Sound, Occupied, dest_info, Registers
  <2>3. sent' \in [Payload -> Nat] /\ running' \in [Server -> Nat]
    BY <2>1, <2>2 DEF SmpTypeOK
  <2> QED
    BY <2>1, <2>3, ReturnTypes DEF SmpTypeOK, lbvars
<1> QED
  BY <1>2, <1>3, <1>4, <1>5

LEMMA SmpTypes ==
  ASSUME SmpTypeOK, Locals, [Next]_vars
  PROVE  SmpTypeOK' /\ Locals'
<1>1. ASSUME UNCHANGED <<lbvars, pc, reg, unsent, sent, dropped>>,
             pings' \in [Server -> Nat], running' \in [Server -> Nat]
      PROVE  SmpTypeOK' /\ Locals'
  BY <1>1 DEF SmpTypeOK, Locals, lbvars
<1>2. ASSUME NEW s \in Server, Finish(s) PROVE SmpTypeOK' /\ Locals'
  BY <1>1, <1>2 DEF Finish, SmpTypeOK
<1>3. CASE Idle \/ UNCHANGED vars
  BY <1>1, <1>3 DEF Idle, vars, outer, SmpTypeOK
<1>4. ASSUME NEW c \in CPU, Step(c) PROVE SmpTypeOK' /\ Locals'
  BY <1>4, RegisterTypes, UpdateTypes, SelectTypes, DispatchTypes DEF Step
<1> QED
  BY <1>2, <1>3, <1>4, LookupKeyTypes, LookupRequestTypes DEF Next

-----------------------------------------------------------------------------
(* Where the jobs are. *)

\* The job r is with the client, dropped, waiting, sent or in the hands of a
\* CPU, and in only one of these places.
InPlace(r) ==
  /\ r \in unsent => r \notin dropped \cup Queued /\ sent[r] = 0
  /\ r \in dropped => r \notin Queued /\ sent[r] = 0
  /\ r \in Queued => sent[r] = 0
  /\ sent[r] \in {0, 1}
  /\ r \in unsent \cup dropped \cup Queued \/ sent[r] = 1
       <=> \A c \in CPU : r \notin InHand(c)
  /\ \A c, d \in CPU : r \in InHand(c) /\ r \in InHand(d) => c = d

NoneTwice == \A i, j \in 1 .. Len(queue) : queue[i] = queue[j] => i = j

JobsPlaced == NoneTwice /\ \A r \in Request : InPlace(r)

\* The jobs an invocation with the local variables r is responsible for.
Hand(r) == {r.frame, r.value} \cap Request

LEMMA HandsAfter ==
  ASSUME SmpTypeOK, NEW c \in CPU, NEW p, NEW r, Goto(c, p, r)
  PROVE  \A d \in CPU : InHand(d)' = IF d = c THEN Hand(r) ELSE InHand(d)
BY GotoView DEF InHand, Hand

LEMMA BlankHand ==
  /\ Hand(Blank) = {}
  /\ \A r : r.frame \in Server /\ r.value = NoRequest => Hand(r) = {}
BY FrameAssumption, RequestsAssumption DEF Hand, Blank, Payload

\* A step of CPU c that moves no job.
LEMMA HandKept ==
  ASSUME SmpTypeOK, JobsPlaced, NEW c \in CPU, NEW p, NEW r, Goto(c, p, r),
         Hand(r) = Hand(reg[c]), UNCHANGED <<queue, unsent, sent, dropped>>
  PROVE  JobsPlaced'
<1>1. \A d \in CPU : InHand(d)' = InHand(d)
  BY HandsAfter DEF InHand, Hand
<1>2. Queued' = Queued
  BY DEF Queued
<1> QED
  BY <1>1, <1>2 DEF JobsPlaced, InPlace, NoneTwice

LEMMA LookupKeyJobs ==
  ASSUME SmpTypeOK, Locals, JobsPlaced, NEW c \in CPU, NEW s \in Server,
         LookupKey(c, s)
  PROVE  JobsPlaced'
<1> DEFINE r == [Blank EXCEPT !.frame = s, !.key = ip_to_key[s]]
<1>1. PICK p : Goto(c, p, r)
  BY DEF LookupKey
<1>2. r.frame = s /\ r.value = NoRequest
  BY DEF Blank
<1> HIDE DEF r
<1>3. Hand(r) = {} /\ Hand(reg[c]) = {}
  BY <1>2, BlankHand DEF LookupKey, At, Locals, Sound
<1> QED
  BY <1>1, <1>3, HandKept DEF LookupKey, lbvars

LEMMA UpdateJobs ==
  ASSUME SmpTypeOK, Locals, JobsPlaced, NEW c \in CPU,
         \/ ReadCnt(c) \/ Learn(c) \/ ReadSlot(c) \/ WriteSlot(c)
         \/ Load(c) \/ Store(c) \/ CopyLoad(c) \/ CopyStore(c)
  PROVE  JobsPlaced'
<1>1. reg[c] \in Registers /\ Sound(servers, pc[c], reg[c])
  BY DEF SmpTypeOK, Locals
<1>2. UNCHANGED <<queue, unsent, sent, dropped>>
  BY DEF ReadCnt, Learn, ReadSlot, WriteSlot, Load, Store, CopyLoad, CopyStore,
         lbvars, outer
<1>3. ASSUME NEW p, NEW r, Goto(c, p, r), r.frame = reg[c].frame, r.value = reg[c].value
      PROVE  JobsPlaced'
  BY <1>2, <1>3, HandKept DEF Hand
<1>4. CASE ReadCnt(c)
  <2> DEFINE r == [reg[c] EXCEPT !.key = server_cnt]
  <2>1. r.frame = reg[c].frame /\ r.value = reg[c].value
    BY <1>1 DEF Registers
  <2>2. Goto(c, "learn", r)
    BY <1>4 DEF ReadCnt
  <2> QED
    BY <1>3, <2>1, <2>2
<1>5. CASE Learn(c)
  BY <1>3, <1>5 DEF Learn
<1>6. CASE ReadSlot(c)
  <2> DEFINE r == [reg[c] EXCEPT !.op = "credit", !.key = reg[c].key]
  <2>1. r.frame = reg[c].frame /\ r.value = reg[c].value
    BY <1>1 DEF Registers
  <2>2. Goto(c, "load", r) \/ Goto(c, "write_slot", reg[c])
    BY <1>6 DEF ReadSlot, Update
  <2> QED
    BY <1>3, <2>1, <2>2
<1>7. CASE WriteSlot(c)
  <2> DEFINE r == [reg[c] EXCEPT !.op = "count", !.key = NoKey]
  <2>1. r.frame = reg[c].frame /\ r.value = reg[c].value
    BY <1>1 DEF Registers
  <2>2. Goto(c, "load", r)
    BY <1>7 DEF WriteSlot, Update
  <2> QED
    BY <1>3, <2>1, <2>2
<1>8. CASE Load(c)
  <2> DEFINE r == [reg[c] EXCEPT !.tmp = IF reg[c].op = "count" THEN server_cnt
                                         ELSE servers[reg[c].key].free_threads]
  <2>1. r.frame = reg[c].frame /\ r.value = reg[c].value
    BY <1>1 DEF Registers
  <2>2. Goto(c, "store", r)
    BY <1>8 DEF Load
  <2> QED
    BY <1>3, <2>1, <2>2
<1>9. CASE Store(c)
  BY <1>3, <1>9 DEF Store
<1>10. CASE CopyLoad(c)
  <2> DEFINE r == IF reg[c].op = "count" THEN [reg[c] EXCEPT !.tmp = server_cnt]
                  ELSE [reg[c] EXCEPT !.tmp = 0, !.elem = servers[reg[c].key]]
  <2>1. r.frame = reg[c].frame /\ r.value = reg[c].value
    BY <1>1 DEF Registers
  <2>2. Goto(c, "copy_store", r)
    BY <1>10 DEF CopyLoad
  <2> QED
    BY <1>3, <2>1, <2>2
<1>11. CASE CopyStore(c)
  <2> DEFINE r == [reg[c] EXCEPT !.elem = Unused]
  <2>1. r.frame = reg[c].frame /\ r.value = reg[c].value
    BY <1>1 DEF Registers
  <2>2. pc[c] \in Updating /\ reg[c].op \in {"count", "credit", "charge"}
    BY <1>1, <1>11 DEF CopyStore, At, Updating, Sound, Registers, Op
  <2>3. CASE reg[c].op = "count"
    <3>1. Goto(c, "idle", Blank)
      BY <1>11, <2>3 DEF CopyStore, Return
    <3>2. Hand(reg[c]) = {}
      BY <1>1, <2>2, <2>3, BlankHand DEF Sound
    <3> QED
      BY <1>2, <3>1, <3>2, BlankHand, HandKept
  <2>4. CASE reg[c].op # "count"
    <3>1. Goto(c, "peek", r) \/ Goto(c, "send", r)
      BY <1>11, <2>2, <2>4 DEF CopyStore
    <3> QED
      BY <1>3, <2>1, <3>1
  <2> QED
    BY <2>3, <2>4
<1> QED
  BY <1>4, <1>5, <1>6, <1>7, <1>8, <1>9, <1>10, <1>11

LEMMA SelectJobs ==
  ASSUME SmpTypeOK, Locals, JobsPlaced, NEW c \in CPU, Peek(c) \/ Select(c)
  PROVE  JobsPlaced'
<1>1. reg[c] \in Registers /\ Sound(servers, pc[c], reg[c])
  BY DEF SmpTypeOK, Locals
<1>2. UNCHANGED <<queue, unsent, sent, dropped>>
  BY DEF Peek, Select, lbvars, outer
<1>3. ASSUME Return(c), reg[c].frame \in Server, reg[c].value = NoRequest
      PROVE  JobsPlaced'
  BY <1>2, <1>3, BlankHand, HandKept DEF Return
<1>4. CASE Peek(c)
  <2>1. reg[c].frame \in Server /\ reg[c].value = NoRequest
    BY <1>1, <1>4 DEF Peek, At, Sound, Announced
  <2> QED
    BY <1>2, <1>3, <1>4, <2>1, HandKept DEF Peek
<1>5. CASE Select(c)
  <2> DEFINE best == Visit(servers, reg[c].best, reg[c].slot)
             looked == [reg[c] EXCEPT !.best = best, !.slot = @ + 1]
             charged == [looked EXCEPT !.op = "charge", !.key = best.selected_key,
                                       !.value = reg[c].frame]
  <2>1. reg[c].value = NoRequest
    BY <1>1, <1>5 DEF Select, At, Sound
  <2>2. \/ Goto(c, "select", looked) \/ Goto(c, "pop", looked)
        \/ Goto(c, "push", looked) \/ Goto(c, "load", charged)
        \/ reg[c].frame \in Server /\ Return(c)
    BY <1>5 DEF Select
  <2>3. looked.frame = reg[c].frame /\ looked.value = reg[c].value
    BY <1>1 DEF Registers
  <2>4. charged.frame = reg[c].frame /\ charged.value = reg[c].frame
    BY <1>1 DEF Registers
  <2> HIDE DEF looked, charged
  <2>5. Hand(looked) = Hand(reg[c]) /\ Hand(charged) = Hand(reg[c])
    BY <2>1, <2>3, <2>4, RequestsAssumption DEF Hand
  <2> QED
    BY <1>2, <1>3, <2>1, <2>2, <2>5, HandKept
<1> QED
  BY <1>4, <1>5

LEMMA LookupRequestJobs ==
  ASSUME SmpTypeOK, Locals, JobsPlaced, NEW c \in CPU, NEW r \in Request,
         LookupRequest(c, r)
  PROVE  JobsPlaced'
<1> DEFINE x == [Blank EXCEPT !.frame = r]
<1>1. /\ r \in unsent /\ unsent' = unsent \ {r} /\ Goto(c, "select", x)
      /\ UNCHANGED <<queue, sent, dropped>> /\ pc[c] = "idle"
  BY DEF LookupRequest, lbvars, At
<1>2. Hand(x) = {r}
  BY RequestsAssumption DEF Hand, Blank
<1>3. InHand(c) = {}
  BY <1>1, BlankHand DEF Locals, Sound, InHand, Hand
<1> HIDE DEF x
<1>4. \A d \in CPU : InHand(d)' = IF d = c THEN {r} ELSE InHand(d)
  BY <1>1, <1>2, HandsAfter
<1>5. Queued' = Queued /\ NoneTwice'
  BY <1>1 DEF Queued, JobsPlaced, NoneTwice
<1>6. ASSUME NEW q \in Request PROVE InPlace(q)'
  <2>1. InPlace(q)
    BY DEF JobsPlaced
  <2>2. CASE q = r
    BY <1>1, <1>3, <1>4, <1>5, <2>1, <2>2 DEF InPlace
  <2>3. CASE q # r
    BY <1>1, <1>3, <1>4, <1>5, <2>1, <2>3 DEF InPlace
  <2> QED
    BY <2>2, <2>3
<1> QED
  BY <1>5, <1>6 DEF JobsPlaced

\* CPU c pops the oldest job, or nothing when the queue has become empty.
LEMMA PopJobs ==
  ASSUME SmpTypeOK, Locals, JobsPlaced, NEW c \in CPU, Pop(c)
  PROVE  JobsPlaced'
<1> DEFINE value == IF queue = << >> THEN NoRequest ELSE Head(queue)
           r == [reg[c] EXCEPT !.op = "charge", !.value = value,
                               !.key = reg[c].best.selected_key]
<1>1. /\ queue' = IF queue = << >> THEN queue ELSE Tail(queue)
      /\ \/ Goto(c, "load", r) /\ UNCHANGED dropped
         \/ Goto(c, "idle", Blank) /\ dropped' = dropped \cup ({value} \cap Request)
      /\ UNCHANGED <<unsent, sent>>
  BY DEF Pop, Return
<1>2. reg[c].frame \in Server /\ reg[c].value = NoRequest /\ reg[c] \in Registers
  BY DEF Pop, At, Locals, Sound, SmpTypeOK
<1>3. r.frame = reg[c].frame /\ r.value = value
  BY <1>2 DEF Registers
<1> HIDE DEF r
<1>4. InHand(c) = {} /\ Hand(r) = {value} \cap Request
  BY <1>2, <1>3, FrameAssumption, RequestsAssumption DEF InHand, Hand
<1>5. CASE queue = << >>
  <2>1. Hand(r) = Hand(reg[c]) /\ Hand(Blank) = Hand(reg[c])
    BY <1>2, <1>4, <1>5, BlankHand, RequestsAssumption
  <2>2. dropped' = dropped /\ queue' = queue
    BY <1>1, <1>5, RequestsAssumption
  <2> HIDE DEF value
  <2> QED
    BY <1>1, <2>1, <2>2, HandKept
<1>6. CASE queue # << >>
  <2>1. queue \in Seq(Request) /\ NoneTwice
    BY DEF SmpTypeOK, JobsPlaced
  <2>2. value = Head(queue) /\ queue' = Tail(queue)
    BY <1>1, <1>6
  <2>3. value \in Request
    BY <1>6, <2>1, <2>2
  <2> HIDE DEF value
  <2>4. value \in Queued /\ Queued' = Queued \ {value} /\ NoneTwice'
    BY <1>6, <2>1, <2>2, TailElements DEF Queued, NoneTwice
  <2>5. ASSUME NEW q \in Request PROVE InPlace(q)'
    <3>1. InPlace(q)
      BY DEF JobsPlaced
    <3>2. CASE Goto(c, "load", r) /\ UNCHANGED dropped
      <4>1. \A d \in CPU : InHand(d)' = IF d = c THEN {value} ELSE InHand(d)
        BY <1>4, <2>3, <3>2, HandsAfter
      <4>2. CASE q = value
        BY <1>1, <1>4, <2>4, <3>1, <3>2, <4>1, <4>2 DEF InPlace
      <4>3. CASE q # value
        BY <1>1, <1>4, <2>4, <3>1, <3>2, <4>1, <4>3 DEF InPlace
      <4> QED
        BY <4>2, <4>3
    <3>3. CASE Goto(c, "idle", Blank) /\ dropped' = dropped \cup ({value} \cap Request)
      <4>1. \A d \in CPU : InHand(d)' = InHand(d)
        BY <1>4, <3>3, HandsAfter, BlankHand
      <4>2. dropped' = dropped \cup {value}
        BY <2>3, <3>3
      <4> QED
        BY <1>1, <2>4, <3>1, <4>1, <4>2 DEF InPlace
    <3> QED
      BY <1>1, <3>2, <3>3
  <2> QED
    BY <2>4, <2>5 DEF JobsPlaced
<1> QED
  BY <1>5, <1>6

\* CPU c puts its job into the queue, or drops it when the queue is full.
LEMMA PushJobs ==
  ASSUME SmpTypeOK, Locals, JobsPlaced, NEW c \in CPU, Push(c)
  PROVE  JobsPlaced'
<1> DEFINE r == reg[c].frame
<1>1. /\ Goto(c, "idle", Blank) /\ UNCHANGED <<unsent, sent>>
      /\ \/ queue' = Append(queue, r) /\ dropped' = dropped
         \/ queue' = queue /\ dropped' = dropped \cup {r}
  BY DEF Push, Return, enqueue
<1>2. r \in Request /\ reg[c].value = NoRequest
  BY DEF Push, At, Locals, Sound
<1>3. InHand(c) = {r}
  BY <1>2, RequestsAssumption DEF InHand
<1> HIDE DEF r
<1>4. \A d \in CPU : InHand(d)' = IF d = c THEN {} ELSE InHand(d)
  BY <1>1, HandsAfter, BlankHand
<1>5. queue \in Seq(Request) /\ NoneTwice /\ r \notin Queued
  BY <1>2, <1>3 DEF SmpTypeOK, JobsPlaced, InPlace
<1>6. \/ Queued' = Queued \cup {r} /\ dropped' = dropped
      \/ Queued' = Queued /\ dropped' = dropped \cup {r}
  BY <1>1, <1>2, <1>5, AppendElements DEF Queued
<1>7. NoneTwice'
  BY <1>1, <1>2, <1>5, AppendInjective DEF NoneTwice, Queued
<1>8. ASSUME NEW q \in Request PROVE InPlace(q)'
  <2>1. InPlace(q)
    BY DEF JobsPlaced
  <2>2. CASE q = r
    BY <1>1, <1>3, <1>4, <1>6, <2>1, <2>2 DEF InPlace
  <2>3. CASE q # r
    BY <1>1, <1>3, <1>4, <1>6, <2>1, <2>3 DEF InPlace
  <2> QED
    BY <2>2, <2>3
<1> QED
  BY <1>7, <1>8 DEF JobsPlaced

\* CPU c sends its job; a ping that popped nothing sends no job.
LEMMA SendJobs ==
  ASSUME SmpTypeOK, Locals, JobsPlaced, NEW c \in CPU, Send(c)
  PROVE  JobsPlaced'
<1> DEFINE v == reg[c].value
<1>1. /\ Goto(c, "idle", Blank) /\ UNCHANGED <<queue, unsent, dropped>>
      /\ sent' = [sent EXCEPT ![v] = @ + 1]
  BY DEF Send, Return, lbvars
<1>2. Carries(reg[c]) /\ reg[c] \in Registers
  BY DEF Send, At, Locals, Sound, SmpTypeOK
<1>3. v \in Payload /\ InHand(c) = {v} \cap Request
  BY <1>2 DEF Carries, Registers, InHand
<1> HIDE DEF v
<1>4. \A d \in CPU : InHand(d)' = IF d = c THEN {} ELSE InHand(d)
  BY <1>1, HandsAfter, BlankHand
<1>5. Queued' = Queued /\ NoneTwice'
  BY <1>1 DEF Queued, JobsPlaced, NoneTwice
<1>6. ASSUME NEW q \in Request PROVE InPlace(q)'
  <2>1. InPlace(q) /\ sent \in [Payload -> Nat] /\ q \in Payload
    BY DEF JobsPlaced, SmpTypeOK, Payload
  <2>2. CASE q = v
    <3>1. q \in InHand(c)
      BY <1>3, <2>2
    <3>2. sent[q] = 0 /\ q \notin unsent \cup dropped \cup Queued
      BY <2>1, <3>1 DEF InPlace
    <3>3. sent'[q] = 1
      BY <1>1, <1>3, <2>1, <2>2, <3>2
    <3>4. \A d \in CPU : q \notin InHand(d)'
      BY <1>4, <2>1, <3>1 DEF InPlace
    <3> QED
      BY <1>1, <1>5, <3>2, <3>3, <3>4 DEF InPlace
  <2>3. CASE q # v
    <3>1. sent'[q] = sent[q]
      BY <1>1, <2>1, <2>3
    <3>2. q \notin InHand(c)
      BY <1>3, <2>3
    <3> QED
      BY <1>1, <1>4, <1>5, <2>1, <3>1, <3>2 DEF InPlace
  <2> QED
    BY <2>2, <2>3
<1> QED
  BY <1>5, <1>6 DEF JobsPlaced

LEMMA JobsStep ==
  ASSUME SmpTypeOK, Locals, JobsPlaced, [Next]_vars
  PROVE  JobsPlaced'
<1>1. ASSUME UNCHANGED <<queue, reg, unsent, sent, dropped>>
      PROVE  JobsPlaced'
  <2>1. Queued' = Queued /\ \A d \in CPU : InHand(d)' = InHand(d)
    BY <1>1 DEF Queued, InHand
  <2> QED
    BY <1>1, <2>1 DEF JobsPlaced, InPlace, NoneTwice
<1>2. ASSUME NEW s \in Server, Finish(s) PROVE JobsPlaced'
  BY <1>1, <1>2 DEF Finish, lbvars
<1>3. CASE Idle \/ UNCHANGED vars
  BY <1>1, <1>3 DEF Idle, vars, lbvars, outer
<1>4. ASSUME NEW c \in CPU, Step(c) PROVE JobsPlaced'
  BY <1>4, UpdateJobs, SelectJobs, PopJobs, PushJobs, SendJobs DEF Step
<1> QED
  BY <1>2, <1>3, <1>4, LookupKeyJobs, LookupRequestJobs DEF Next

\* Where a job is in only one place, the places count to one.
LEMMA OnePlace ==
  ASSUME SmpTypeOK, JobsPlaced, NEW r \in Request
  PROVE  Places(r) = 1
<1> DEFINE H == {c \in CPU : r \in InHand(c)}
           Q == {n \in 1 .. Len(queue) : queue[n] = r}
<1>1. InPlace(r) /\ NoneTwice
  BY DEF JobsPlaced
<1>2. Cardinality({}) = 0 /\ \A x : Cardinality({x}) = 1
  BY FS_EmptySet, FS_Singleton
<1>3. CASE r \in Queued
  <2>1. PICK n \in 1 .. Len(queue) : queue[n] = r
    BY <1>3 DEF Queued, Elements
  <2>2. Q = {n}
    BY <1>1, <2>1 DEF NoneTwice
  <2>3. H = {} /\ r \notin unsent /\ r \notin dropped /\ sent[r] = 0
    BY <1>1, <1>3 DEF InPlace
  <2> HIDE DEF H, Q
  <2>4. Cardinality(Q) = 1 /\ Cardinality(H) = 0
    BY <1>2, <2>2, <2>3
  <2> QED
    BY <2>3, <2>4 DEF Places, Once, H, Q
<1>4. CASE r \notin Queued
  <2>1. Q = {}
    BY <1>4 DEF Queued, Elements
  <2>2. CASE H = {}
    <3>1. r \in unsent \cup dropped \/ sent[r] = 1
      BY <1>1, <1>4, <2>2 DEF InPlace
    <3> HIDE DEF H, Q
    <3>2. Cardinality(Q) = 0 /\ Cardinality(H) = 0
      BY <1>2, <2>1, <2>2
    <3>3. Once(r \in unsent) + Once(r \in dropped) + sent[r] = 1
      BY <1>1, <3>1 DEF InPlace, Once
    <3>4. Places(r) = Once(r \in unsent) + Once(r \in dropped) + sent[r]
                        + Cardinality(H) + Cardinality(Q)
      BY DEF Places, H, Q
    <3>5. Once(r \in unsent) \in Nat /\ Once(r \in dropped) \in Nat /\ sent[r] \in Nat
      BY <1>1 DEF Once, InPlace
    <3> QED
      BY <3>2, <3>3, <3>4, <3>5
  <2>3. CASE H # {}
    <3>1. PICK c \in CPU : r \in InHand(c)
      BY <2>3
    <3>2. H = {c}
      BY <1>1, <3>1 DEF InPlace
    <3>3. r \notin unsent /\ r \notin dropped /\ sent[r] = 0
      BY <1>1, <3>1 DEF InPlace
    <3> HIDE DEF H, Q
    <3>4. Cardinality(Q) = 0 /\ Cardinality(H) = 1
      BY <1>2, <2>1, <3>2
    <3> QED
      BY <3>3, <3>4 DEF Places, Once, H, Q
  <2> QED
    BY <2>2, <2>3
<1> QED
  BY <1>3, <1>4

LEMMA SmpStart ==
  ASSUME Init
  PROVE  SmpTypeOK /\ Locals /\ JobsPlaced
<1>1. SmpTypeOK
  BY BlankType, CntFacts DEF Init, LbInit, SmpTypeOK, Pc, dest_info
<1>2. Locals
  BY DEF Init, Locals, Sound, Announced, Updating
<1>3. queue = << >> /\ Queued = {} /\ NoneTwice
  BY DEF Init, LbInit, Queued, Elements, NoneTwice
<1>4. \A c \in CPU : InHand(c) = {}
  BY RequestsAssumption DEF Init, InHand, Blank
<1>5. ASSUME NEW r \in Request PROVE InPlace(r)
  BY <1>3, <1>4 DEF Init, InPlace, Payload
<1> QED
  BY <1>1, <1>2, <1>3, <1>5 DEF JobsPlaced

(* On any number of CPUs whose accesses to the maps interleave in any way, *)
(* every job is at any time in exactly one place: a job that lb.c took     *)
(* over is neither lost nor sent twice by a race between invocations.      *)
THEOREM JobsStaySafe == Spec => []JobsSafe
<1> DEFINE Inv == SmpTypeOK /\ Locals /\ JobsPlaced
<1>1. Init => Inv
  BY SmpStart
<1>2. Inv /\ [Next]_vars => Inv'
  BY SmpTypes, JobsStep
<1>3. Inv => JobsSafe
  BY OnePlace DEF JobsSafe
<1> QED
  BY <1>1, <1>2, <1>3, PTL DEF Spec

-----------------------------------------------------------------------------
(* The keys of the workers. *)

\* An invocation that stands at p with the local variables r handles a first
\* ping, whose slot it finds unused; it has still to count the worker.
Fresh(srv, p, r) ==
  \/ p \in {"read_cnt", "learn", "write_slot"}
  \/ p = "read_slot" /\ ~Occupied(srv, r.key)

Uncounted(srv, p, r) ==
  \/ p = "write_slot"
  \/ p = "read_slot" /\ ~Occupied(srv, r.key)
  \/ p \in {"load", "store"} /\ r.op = "count"

\* No number that will be stored in server_cnt, or has been taken from it as
\* a key, is larger than n.
AtMost(p, r, n) ==
  /\ p \in {"store", "copy_store"} /\ r.op = "count" => r.tmp <= n
  /\ p = "learn" => r.key <= n

FreshOn(c) == Fresh(servers, pc[c], reg[c])
UncountedOn(c) == Uncounted(servers, pc[c], reg[c])

\* The slot of the worker s has not been filled.
New(s) == s \notin Known \/ \E c \in CPU : FreshOn(c) /\ reg[c].frame = s

\* The worker s has had no job, and nobody has heard of it but for its one
\* first ping.
Clean(s) ==
  /\ running[s] = 0
  /\ pings[s] <= 1
  /\ \A k \in Key : servers[k].saddr # s
  /\ \A c \in CPU : pc[c] = "copy_store" /\ reg[c].op # "count" =>
                      reg[c].elem.saddr # s
  /\ \A c, d \in CPU : reg[c].frame = s /\ reg[d].frame = s => c = d
  /\ pings[s] = 1 => \A c \in CPU : reg[c].frame # s

\* The workers that have been counted.
Counted == {s \in Known : \A c \in CPU : UncountedOn(c) => reg[c].frame # s}

\* The key of a known worker names a slot in use or one that some CPU is
\* about to look at on behalf of that worker.
KeysLearned ==
  /\ \A s \in Known :
       /\ ip_to_key[s] \in Key
       /\ \/ Occupied(servers, ip_to_key[s])
          \/ \E c \in CPU : /\ pc[c] \in {"read_slot", "write_slot"}
                            /\ reg[c].frame = s
                            /\ reg[c].key = ip_to_key[s]
  /\ \A c \in CPU : pc[c] \in {"read_cnt", "learn"} => reg[c].frame \notin Known

\* While the hash has room, nobody's first ping races with another ping of
\* the same worker, and no more workers are counted than have pinged.
Orderly ==
  /\ \A s \in Server : New(s) => Clean(s)
  /\ \A c \in CPU : reg[c].frame \in Server /\ pc[c] \notin {"read_cnt", "learn"} =>
                      reg[c].frame \in Known
  /\ \A c, d \in CPU : UncountedOn(c) /\ UncountedOn(d) /\ reg[c].frame = reg[d].frame =>
                         c = d
  /\ server_cnt <= Cardinality(Counted)
  /\ \A c \in CPU : AtMost(pc[c], reg[c], Cardinality(Counted))

Early == Cardinality(Known) < MAX_SERVERS => Orderly

\* A step of CPU c leaves KeysLearned true when a slot it was to fill is in
\* use afterwards or still to be filled.
LEMMA MoveKeys ==
  ASSUME SmpTypeOK, KeysLearned, NEW c \in CPU, NEW p, NEW r, Goto(c, p, r),
         UNCHANGED ip_to_key, Lasting(servers, servers'),
         p \in {"read_cnt", "learn"} => r.frame \notin Known,
         pc[c] \in {"read_slot", "write_slot"} =>
           \/ reg[c].key \in Key => Occupied(servers', reg[c].key)
           \/ p \in {"read_slot", "write_slot"} /\ r = reg[c]
  PROVE  KeysLearned'
<1>1. Known' = Known
  BY DEF Known
<1>2. /\ pc'[c] = p /\ reg'[c] = r
      /\ \A d \in CPU : d # c => pc'[d] = pc[d] /\ reg'[d] = reg[d]
  BY GotoView
<1>3. ASSUME NEW s \in Known, ~Occupied(servers', ip_to_key[s])
      PROVE  \E d \in CPU : /\ pc'[d] \in {"read_slot", "write_slot"}
                            /\ reg'[d].frame = s
                            /\ reg'[d].key = ip_to_key[s]
  <2>1. ~Occupied(servers, ip_to_key[s]) /\ ip_to_key[s] \in Key
    BY <1>3 DEF Lasting, KeysLearned
  <2>2. PICK d \in CPU : /\ pc[d] \in {"read_slot", "write_slot"}
                         /\ reg[d].frame = s
                         /\ reg[d].key = ip_to_key[s]
    BY <2>1 DEF KeysLearned
  <2>3. CASE d = c
    BY <1>2, <1>3, <2>1, <2>2, <2>3
  <2>4. CASE d # c
    BY <1>2, <2>2, <2>4
  <2> QED
    BY <2>3, <2>4
<1>4. ASSUME NEW d \in CPU, pc'[d] \in {"read_cnt", "learn"}
      PROVE  reg'[d].frame \notin Known
  BY <1>2, <1>4 DEF KeysLearned
<1> QED
  BY <1>1, <1>3, <1>4 DEF KeysLearned

LEMMA CountedFinite ==
  /\ IsFiniteSet(Counted)
  /\ Cardinality(Counted) \in Nat
  /\ Cardinality(Counted) <= Cardinality(Known)
<1>1. Known \subseteq Server /\ Counted \in SUBSET Known
  BY DEF Known, Counted
<1>2. IsFiniteSet(Known)
  BY <1>1, ServersAssumption, FS_Subset
<1>3. IsFiniteSet(Counted) /\ Cardinality(Counted) <= Cardinality(Known)
  BY <1>1, <1>2, FS_Subset
<1> QED
  BY <1>3, FS_CardinalityType

LEMMA CountedFiniteNext == IsFiniteSet(Counted') /\ Cardinality(Counted') \in Nat
<1>1. Counted' \subseteq Server
  BY DEF Known, Counted
<1>2. IsFiniteSet(Counted')
  BY <1>1, ServersAssumption, FS_Subset
<1> QED
  BY <1>2, FS_CardinalityType

\* A step of CPU c starts nothing new for a known worker.
LEMMA MoveCounts ==
  ASSUME SmpTypeOK, Orderly, NEW c \in CPU, NEW p, NEW r, Goto(c, p, r),
         UNCHANGED ip_to_key, Lasting(servers, servers'),
         Fresh(servers', p, r) => \/ r.frame \notin Known
                                  \/ FreshOn(c) /\ r.frame = reg[c].frame,
         Uncounted(servers', p, r) => UncountedOn(c) /\ r.frame = reg[c].frame
  PROVE  /\ \A s \in Server : New(s)' => New(s)
         /\ Cardinality(Counted) <= Cardinality(Counted')
         /\ \A d, e \in CPU :
              UncountedOn(d)' /\ UncountedOn(e)' /\ reg'[d].frame = reg'[e].frame => d = e
<1>1. Known' = Known
  BY DEF Known
<1>2. /\ pc'[c] = p /\ reg'[c] = r
      /\ \A d \in CPU : d # c => pc'[d] = pc[d] /\ reg'[d] = reg[d]
  BY GotoView
<1>3. ASSUME NEW d \in CPU, FreshOn(d)'
      PROVE  \/ reg'[d].frame \notin Known
             \/ FreshOn(d) /\ reg'[d].frame = reg[d].frame
  <2>1. CASE d = c
    BY <1>2, <1>3, <2>1 DEF FreshOn
  <2>2. CASE d # c
    BY <1>2, <1>3, <2>2 DEF FreshOn, Fresh, Lasting
  <2> QED
    BY <2>1, <2>2
<1>4. ASSUME NEW d \in CPU, UncountedOn(d)'
      PROVE  UncountedOn(d) /\ reg'[d].frame = reg[d].frame
  <2>1. CASE d = c
    BY <1>2, <1>4, <2>1 DEF UncountedOn
  <2>2. CASE d # c
    BY <1>2, <1>4, <2>2 DEF UncountedOn, Uncounted, Lasting
  <2> QED
    BY <2>1, <2>2
<1>5. \A s \in Server : New(s)' => New(s)
  BY <1>1, <1>3 DEF New
<1>6. Counted \subseteq Counted'
  BY <1>1, <1>4 DEF Counted
<1>7. Cardinality(Counted) <= Cardinality(Counted')
  BY <1>6, CountedFiniteNext, FS_Subset
<1>8. ASSUME NEW d \in CPU, NEW e \in CPU, UncountedOn(d)', UncountedOn(e)',
             reg'[d].frame = reg'[e].frame
      PROVE  d = e
  BY <1>4, <1>8 DEF Orderly
<1> QED
  BY <1>5, <1>7, <1>8

\* A step of CPU c that leaves a worker nobody has heard of alone.
LEMMA MoveClean ==
  ASSUME SmpTypeOK, NEW c \in CPU, NEW p, NEW r, Goto(c, p, r),
         NEW s \in Server, Clean(s),
         running'[s] = running[s], pings'[s] = pings[s],
         \A k \in Key : servers'[k].saddr # s,
         p = "copy_store" /\ r.op # "count" => r.elem.saddr # s,
         r.frame = s => reg[c].frame = s
  PROVE  Clean(s)'
<1>1. /\ pc'[c] = p /\ reg'[c] = r
      /\ \A d \in CPU : d # c => pc'[d] = pc[d] /\ reg'[d] = reg[d]
  BY GotoView
<1>2. \A d \in CPU : reg'[d].frame = s => reg[d].frame = s
  BY <1>1
<1>3. \A d \in CPU : pc'[d] = "copy_store" /\ reg'[d].op # "count" =>
                       reg'[d].elem.saddr # s
  BY <1>1 DEF Clean
<1>4. \A d, e \in CPU : reg'[d].frame = s /\ reg'[e].frame = s => d = e
  BY <1>2 DEF Clean
<1> QED
  BY <1>2, <1>3, <1>4 DEF Clean

\* The parts of Orderly together.
LEMMA MoveOrderly ==
  ASSUME SmpTypeOK, Orderly, NEW c \in CPU, NEW p, NEW r, Goto(c, p, r),
         UNCHANGED ip_to_key, Lasting(servers, servers'),
         Fresh(servers', p, r) => \/ r.frame \notin Known
                                  \/ FreshOn(c) /\ r.frame = reg[c].frame,
         Uncounted(servers', p, r) => UncountedOn(c) /\ r.frame = reg[c].frame,
         r.frame \in Server /\ p \notin {"read_cnt", "learn"} => r.frame \in Known,
         \A s \in Server : Clean(s) /\ New(s) /\ New(s)' => Clean(s)',
         server_cnt' \in Cnt, r \in Registers,
         \/ server_cnt' <= Cardinality(Counted)
         \/ server_cnt' <= Cardinality(Counted'),
         AtMost(p, r, Cardinality(Counted))
  PROVE  Orderly'
<1>1. Known' = Known
  BY DEF Known
<1>2. /\ pc'[c] = p /\ reg'[c] = r
      /\ \A d \in CPU : d # c => pc'[d] = pc[d] /\ reg'[d] = reg[d]
  BY GotoView
<1>3. /\ \A s \in Server : New(s)' => New(s)
      /\ Cardinality(Counted) <= Cardinality(Counted')
      /\ \A d, e \in CPU :
           UncountedOn(d)' /\ UncountedOn(e)' /\ reg'[d].frame = reg'[e].frame => d = e
  BY MoveCounts
<1>4. \A s \in Server : New(s)' => Clean(s)'
  BY <1>3 DEF Orderly
<1>5. \A d \in CPU : reg'[d].frame \in Server /\ pc'[d] \notin {"read_cnt", "learn"} =>
                       reg'[d].frame \in Known'
  BY <1>1, <1>2 DEF Orderly
<1>6. ASSUME NEW d \in CPU PROVE AtMost(pc'[d], reg'[d], Cardinality(Counted'))
  <2>1. AtMost(pc'[d], reg'[d], Cardinality(Counted))
    BY <1>2 DEF Orderly
  <2>2. reg'[d] \in Registers
    BY <1>2 DEF SmpTypeOK
  <2>3. reg'[d].tmp \in Int /\ reg'[d].key \in Int
    BY <2>2 DEF Registers, Cnt, NoKey
  <2>4. ASSUME NEW x \in Int, x <= Cardinality(Counted)
        PROVE  x <= Cardinality(Counted')
    BY <1>3, <2>4, CountedFinite, CountedFiniteNext
  <2> QED
    BY <2>1, <2>3, <2>4 DEF AtMost
<1>7. server_cnt' <= Cardinality(Counted')
  BY <1>3, CountedFinite, CountedFiniteNext DEF Cnt
<1> QED
  BY <1>3, <1>4, <1>5, <1>6, <1>7 DEF Orderly

Registering == {"read_cnt", "learn", "read_slot", "write_slot"}

\* A step of CPU c that has nothing to do with registration.
LEMMA PlainKeys ==
  ASSUME SmpTypeOK, KeysLearned, Early, NEW c \in CPU, NEW p, NEW r \in Registers,
         Goto(c, p, r), UNCHANGED <<ip_to_key, server_cnt, pings, running>>,
         \A k \in Key : servers'[k].saddr = servers[k].saddr,
         pc[c] \notin Registering, p \notin Registering, p # "copy_store",
         p \in {"load", "store"} => r.op # "count",
         r.frame = reg[c].frame \/ r.frame \notin Server
  PROVE  KeysLearned' /\ Early'
<1>1. Lasting(servers, servers') /\ Known' = Known
  BY SameAddressesLast DEF Known
<1>2. KeysLearned'
  BY <1>1, MoveKeys DEF Registering
<1>3. ASSUME Orderly PROVE Orderly'
  <2>1. ~Fresh(servers', p, r) /\ ~Uncounted(servers', p, r)
    BY DEF Fresh, Uncounted, Registering
  <2>2. r.frame \in Server => r.frame \in Known
    BY <1>3 DEF Orderly, Registering
  <2>3. ASSUME NEW s \in Server, Clean(s) PROVE Clean(s)'
    <3>1. \A k \in Key : servers'[k].saddr # s
      BY <2>3 DEF Clean
    <3> QED
      BY <2>3, <3>1, MoveClean
  <2>4. server_cnt' \in Cnt /\ server_cnt <= Cardinality(Counted)
    BY <1>3 DEF SmpTypeOK, Orderly
  <2>5. AtMost(p, r, Cardinality(Counted))
    BY DEF AtMost, Registering
  <2> QED
    BY <1>1, <1>3, <2>1, <2>2, <2>3, <2>4, <2>5, MoveOrderly
<1> QED
  BY <1>1, <1>2, <1>3 DEF Early

LEMMA PlainReturn ==
  ASSUME SmpTypeOK, KeysLearned, Early, NEW c \in CPU, Return(c),
         UNCHANGED <<ip_to_key, servers, server_cnt, pings, running>>,
         pc[c] \notin Registering
  PROVE  KeysLearned' /\ Early'
<1>1. Blank.frame \notin Server /\ "idle" \notin Registering
  BY FrameAssumption DEF Blank, Registering
<1> QED
  BY <1>1, BlankType, PlainKeys DEF Return

LEMMA LookupRequestKeys ==
  ASSUME SmpTypeOK, Locals, KeysLearned, Early, NEW c \in CPU, NEW r \in Request,
         LookupRequest(c, r)
  PROVE  KeysLearned' /\ Early'
<1> DEFINE x == [Blank EXCEPT !.frame = r]
<1>1. /\ Goto(c, "select", x) /\ pc[c] = "idle"
      /\ UNCHANGED <<ip_to_key, servers, server_cnt, pings, running>>
  BY DEF LookupRequest, At, lbvars
<1>2. x \in Registers /\ x.frame = r
  BY BlankType DEF Registers, Payload, Blank
<1>3. x.frame \notin Server
  BY <1>2, FrameAssumption
<1> HIDE DEF x
<1> QED
  BY <1>1, <1>2, <1>3, PlainKeys DEF Registering

\* The first access for a ping.  A known worker finds its slot in use while
\* the hash has room: its first ping has been handled.
LEMMA LookupKeyKeys ==
  ASSUME SmpTypeOK, Locals, KeysLearned, Early, NEW c \in CPU, NEW s \in Server,
         LookupKey(c, s)
  PROVE  KeysLearned' /\ Early'
<1> DEFINE p == IF ip_to_key[s] = NoKey THEN "read_cnt" ELSE "read_slot"
           r == [Blank EXCEPT !.frame = s, !.key = ip_to_key[s]]
<1>1. /\ pings[s] > 0 /\ pings' = [pings EXCEPT ![s] = @ - 1] /\ Goto(c, p, r)
      /\ UNCHANGED <<ip_to_key, servers, server_cnt, running>> /\ pc[c] = "idle"
  BY DEF LookupKey, At, lbvars
<1>2. r \in Registers /\ r.frame = s /\ r.key = ip_to_key[s]
  BY BlankType DEF Registers, SmpTypeOK, Blank
<1>3. Lasting(servers, servers') /\ Known' = Known
  BY <1>1 DEF Lasting, Known
<1>4. (p = "read_cnt" /\ s \notin Known) \/ (p = "read_slot" /\ s \in Known)
  BY DEF Known
<1> HIDE DEF p, r
<1>5. KeysLearned'
  BY <1>1, <1>2, <1>3, <1>4, MoveKeys
<1>6. ASSUME Orderly PROVE Orderly'
  <2>1. s \in Known => Occupied(servers, ip_to_key[s])
    <3>1. SUFFICES ASSUME s \in Known, ~Occupied(servers, ip_to_key[s]) PROVE FALSE
      OBVIOUS
    <3>2. PICK d \in CPU : /\ pc[d] \in {"read_slot", "write_slot"}
                           /\ reg[d].frame = s /\ reg[d].key = ip_to_key[s]
      BY <3>1 DEF KeysLearned
    <3>3. FreshOn(d)
      BY <3>1, <3>2 DEF FreshOn, Fresh
    <3>4. Clean(s)
      BY <1>6, <3>2, <3>3 DEF Orderly, New
    <3>5. pings[s] = 1
      BY <1>1, <3>4 DEF Clean, SmpTypeOK
    <3> QED
      BY <3>2, <3>4, <3>5 DEF Clean
  <2>2. Fresh(servers', p, r) => r.frame \notin Known
    BY <1>1, <1>2, <1>4, <2>1 DEF Fresh
  <2>3. ~Uncounted(servers', p, r)
    BY <1>1, <1>2, <1>4, <2>1 DEF Uncounted
  <2>4. r.frame \in Server /\ p \notin {"read_cnt", "learn"} => r.frame \in Known
    BY <1>2, <1>4
  <2>5. ASSUME NEW t \in Server, Clean(t) PROVE Clean(t)'
    <3>1. running'[t] = running[t] /\ (\A k \in Key : servers'[k].saddr # t)
          /\ p # "copy_store"
      BY <1>1, <1>4, <2>5 DEF Clean
    <3>2. CASE t # s
      <4>1. pings'[t] = pings[t]
        BY <1>1, <3>2 DEF SmpTypeOK
      <4> QED
        BY <1>1, <1>2, <2>5, <3>1, <3>2, <4>1, MoveClean
    <3>3. CASE t = s
      <4>1. pings[s] = 1 /\ pings'[s] = 0
        BY <1>1, <2>5, <3>3 DEF SmpTypeOK, Clean
      <4>2. \A d \in CPU : reg[d].frame # s
        BY <2>5, <3>3, <4>1 DEF Clean
      <4>3. /\ pc'[c] = p /\ reg'[c] = r
            /\ \A d \in CPU : d # c => pc'[d] = pc[d] /\ reg'[d] = reg[d]
        BY <1>1, GotoView
      <4>4. \A d, e \in CPU : reg'[d].frame = s /\ reg'[e].frame = s => d = e
        BY <4>2, <4>3
      <4>5. \A d \in CPU : pc'[d] = "copy_store" /\ reg'[d].op # "count" =>
                             reg'[d].elem.saddr # s
        BY <2>5, <3>1, <3>3, <4>3 DEF Clean
      <4> QED
        BY <2>5, <3>1, <3>3, <4>1, <4>4, <4>5 DEF Clean
    <3> QED
      BY <3>2, <3>3
  <2>6. server_cnt' \in Cnt /\ server_cnt <= Cardinality(Counted)
    BY <1>1, <1>6 DEF SmpTypeOK, Orderly
  <2>7. AtMost(p, r, Cardinality(Counted))
    BY <1>4 DEF AtMost
  <2> QED
    BY <1>1, <1>2, <1>3, <1>6, <2>2, <2>3, <2>4, <2>5, <2>6, <2>7, MoveOrderly
<1> QED
  BY <1>3, <1>5, <1>6 DEF Early

LEMMA ReadCntKeys ==
  ASSUME SmpTypeOK, Locals, KeysLearned, Early, NEW c \in CPU, ReadCnt(c)
  PROVE  KeysLearned' /\ Early'
<1> DEFINE r == [reg[c] EXCEPT !.key = server_cnt]
<1>1. /\ Goto(c, "learn", r) /\ pc[c] = "read_cnt"
      /\ UNCHANGED <<ip_to_key, servers, server_cnt, pings, running>>
  BY DEF ReadCnt, At, lbvars, outer
<1>2. r \in Registers /\ r.frame = reg[c].frame /\ r.key = server_cnt
  BY DEF Registers, SmpTypeOK
<1>3. Lasting(servers, servers') /\ Known' = Known /\ r.frame \notin Known
  BY <1>1, <1>2 DEF Lasting, Known, KeysLearned
<1> HIDE DEF r
<1>4. KeysLearned'
  BY <1>1, <1>3, MoveKeys
<1>5. ASSUME Orderly PROVE Orderly'
  <2>1. ~Uncounted(servers', "learn", r)
    BY DEF Uncounted
  <2>2. ASSUME NEW s \in Server, Clean(s) PROVE Clean(s)'
    <3>1. \A k \in Key : servers'[k].saddr # s
      BY <1>1, <2>2 DEF Clean
    <3> QED
      BY <1>1, <1>2, <2>2, <3>1, MoveClean
  <2>3. server_cnt' \in Cnt /\ server_cnt' <= Cardinality(Counted)
    BY <1>1, <1>5 DEF SmpTypeOK, Orderly
  <2>4. AtMost("learn", r, Cardinality(Counted))
    BY <1>1, <1>2, <2>3 DEF AtMost
  <2> QED
    BY <1>1, <1>2, <1>3, <1>5, <2>1, <2>2, <2>3, <2>4, MoveOrderly
<1> QED
  BY <1>3, <1>4, <1>5 DEF Early

\* A worker gets its entry.  While the hash has room, the key it was given
\* counts workers that were known before, so that it lies inside the map.
LEMMA LearnKeys ==
  ASSUME SmpTypeOK, Locals, KeysLearned, Early, NEW c \in CPU, Learn(c)
  PROVE  KeysLearned' /\ Early'
<1> DEFINE s == reg[c].frame
           k == reg[c].key
<1>1. /\ Goto(c, "read_slot", reg[c]) /\ pc[c] = "learn"
      /\ UNCHANGED <<servers, server_cnt, pings, running>>
      /\ ip_to_key' = IF s \in Known \/ Cardinality(Known) < MAX_SERVERS
                      THEN [ip_to_key EXCEPT ![s] = k] ELSE ip_to_key
  BY DEF Learn, At, outer
<1>2. s \in Server /\ s \notin Known /\ k \in Cnt
  BY <1>1 DEF Locals, Sound, Announced, KeysLearned, SmpTypeOK, Registers
<1>3. CASE ~(Cardinality(Known) < MAX_SERVERS)
  <2>1. ip_to_key' = ip_to_key /\ Lasting(servers, servers') /\ Known' = Known
    BY <1>1, <1>2, <1>3 DEF Lasting, Known
  <2>2. KeysLearned'
    BY <1>1, <2>1, MoveKeys
  <2> QED
    BY <1>3, <2>1, <2>2 DEF Early
<1>4. CASE Cardinality(Known) < MAX_SERVERS
  <2>1. Orderly /\ Clean(s) /\ k <= Cardinality(Counted)
    <3>1. Orderly
      BY <1>4 DEF Early
    <3> QED
      BY <1>1, <1>2, <3>1 DEF Orderly, New, AtMost
  <2>2. k \in Key
    BY <1>2, <1>4, <2>1, KnownFinite, CountedFinite DEF Key, Cnt, MAX_SERVERS
  <2>3. \A d \in CPU : reg[d].frame = s => d = c
    BY <2>1 DEF Clean
  <2>4. /\ ip_to_key'[s] = k
        /\ \A t \in Server : t # s => ip_to_key'[t] = ip_to_key[t]
    BY <1>1, <1>2, <1>4 DEF SmpTypeOK
  <2>5. Known' = Known \cup {s}
    BY <1>2, <2>4, CntFacts DEF Known
  <2>6. /\ pc'[c] = "read_slot" /\ reg'[c] = reg[c]
        /\ \A d \in CPU : d # c => pc'[d] = pc[d] /\ reg'[d] = reg[d]
    BY <1>1, GotoView
  <2>7. KeysLearned'
    <3>1. ASSUME NEW t \in Known'
          PROVE  /\ ip_to_key'[t] \in Key
                 /\ \/ Occupied(servers', ip_to_key'[t])
                    \/ \E d \in CPU : /\ pc'[d] \in {"read_slot", "write_slot"}
                                      /\ reg'[d].frame = t
                                      /\ reg'[d].key = ip_to_key'[t]
      <4>1. CASE t = s
        BY <2>2, <2>4, <2>6, <4>1
      <4>2. CASE t # s
        <5>1. t \in Known /\ t \in Server /\ ip_to_key'[t] = ip_to_key[t]
          BY <2>4, <2>5, <3>1, <4>2 DEF Known
        <5>2. \A d \in CPU : pc[d] \in {"read_slot", "write_slot"} => d # c
          BY <1>1
        <5> QED
          BY <1>1, <2>6, <5>1, <5>2 DEF KeysLearned
      <4> QED
        BY <4>1, <4>2
    <3>2. ASSUME NEW d \in CPU, pc'[d] \in {"read_cnt", "learn"}
          PROVE  reg'[d].frame \notin Known'
      BY <2>3, <2>5, <2>6, <3>2 DEF KeysLearned
    <3> QED
      BY <3>1, <3>2 DEF KeysLearned
  <2>8. Orderly'
    <3>1. ASSUME NEW d \in CPU, d # c
          PROVE  /\ FreshOn(d)' <=> FreshOn(d)
                 /\ UncountedOn(d)' <=> UncountedOn(d)
                 /\ reg'[d] = reg[d] /\ pc'[d] = pc[d] /\ reg[d].frame # s
      BY <1>1, <2>3, <2>6, <3>1 DEF FreshOn, UncountedOn
    <3>2. ASSUME NEW t \in Server, New(t)' PROVE Clean(t)'
      <4>1. New(t)
        BY <1>2, <2>5, <2>6, <3>1, <3>2 DEF New
      <4>2. Clean(t)
        BY <2>1, <4>1 DEF Orderly
      <4>3. \A j \in Key : servers'[j].saddr # t
        BY <1>1, <4>2 DEF Clean
      <4> QED
        BY <1>1, <4>2, <4>3, MoveClean
    <3>3. ASSUME NEW d \in CPU, reg'[d].frame \in Server,
                 pc'[d] \notin {"read_cnt", "learn"}
          PROVE  reg'[d].frame \in Known'
      BY <2>1, <2>5, <2>6, <3>1, <3>3 DEF Orderly
    <3>4. ASSUME NEW d \in CPU, NEW e \in CPU, UncountedOn(d)', UncountedOn(e)',
                 reg'[d].frame = reg'[e].frame
          PROVE  d = e
      BY <2>1, <2>6, <3>1, <3>4 DEF Orderly
    <3>5. Counted \subseteq Counted'
      BY <1>2, <2>5, <2>6, <3>1 DEF Counted
    <3>6. Cardinality(Counted) <= Cardinality(Counted')
      BY <3>5, CountedFiniteNext, FS_Subset
    <3>7. ASSUME NEW x \in Int, x <= Cardinality(Counted)
          PROVE  x <= Cardinality(Counted')
      BY <3>6, <3>7, CountedFinite, CountedFiniteNext
    <3>8. server_cnt' <= Cardinality(Counted')
      <4>1. server_cnt \in Int /\ server_cnt <= Cardinality(Counted)
        BY <2>1 DEF Orderly, SmpTypeOK, Cnt
      <4> QED
        BY <1>1, <3>7, <4>1
    <3>9. ASSUME NEW d \in CPU PROVE AtMost(pc'[d], reg'[d], Cardinality(Counted'))
      <4>1. CASE d = c
        BY <2>6, <4>1 DEF AtMost
      <4>2. CASE d # c
        <5>1. reg[d].tmp \in Int /\ reg[d].key \in Int
          BY DEF SmpTypeOK, Registers, Cnt, NoKey
        <5>2. AtMost(pc[d], reg[d], Cardinality(Counted))
          BY <2>1 DEF Orderly
        <5> QED
          BY <3>1, <3>7, <4>2, <5>1, <5>2 DEF AtMost
      <4> QED
        BY <4>1, <4>2
    <3> QED
      BY <3>2, <3>3, <3>4, <3>8, <3>9 DEF Orderly
  <2> QED
    BY <2>7, <2>8 DEF Early
<1> QED
  BY <1>3, <1>4

LEMMA ReadSlotKeys ==
  ASSUME SmpTypeOK, Locals, KeysLearned, Early, NEW c \in CPU, ReadSlot(c)
  PROVE  KeysLearned' /\ Early'
<1> DEFINE r == [reg[c] EXCEPT !.op = "credit", !.key = reg[c].key]
<1>1. /\ pc[c] = "read_slot"
      /\ UNCHANGED <<ip_to_key, servers, server_cnt, pings, running>>
      /\ \/ Occupied(servers, reg[c].key) /\ Goto(c, "load", r)
         \/ ~Occupied(servers, reg[c].key) /\ Goto(c, "write_slot", reg[c])
  BY DEF ReadSlot, At, Update, lbvars, outer
<1>2. reg[c] \in Registers /\ r \in Registers /\ r.frame = reg[c].frame /\ r.op = "credit"
  BY DEF Registers, SmpTypeOK, Op
<1>3. Lasting(servers, servers') /\ Known' = Known
  BY <1>1 DEF Lasting, Known
<1> HIDE DEF r
<1>4. KeysLearned'
  BY <1>1, <1>3, MoveKeys
<1>5. ASSUME Orderly PROVE Orderly'
  <2>1. server_cnt' \in Cnt /\ server_cnt' <= Cardinality(Counted)
        /\ (reg[c].frame \in Server => reg[c].frame \in Known)
    BY <1>1, <1>5 DEF SmpTypeOK, Orderly
  <2>2. ASSUME NEW p, NEW x, Goto(c, p, x), x.frame = reg[c].frame, p # "copy_store",
               NEW s \in Server, Clean(s)
        PROVE  Clean(s)'
    <3>1. \A k \in Key : servers'[k].saddr # s
      BY <1>1, <2>2 DEF Clean
    <3> QED
      BY <1>1, <2>2, <3>1, MoveClean
  <2>3. CASE Occupied(servers, reg[c].key) /\ Goto(c, "load", r)
    <3>1. ~Fresh(servers', "load", r) /\ ~Uncounted(servers', "load", r)
          /\ AtMost("load", r, Cardinality(Counted))
      BY <1>2 DEF Fresh, Uncounted, AtMost
    <3> QED
      BY <1>1, <1>2, <1>3, <1>5, <2>1, <2>2, <2>3, <3>1, MoveOrderly
  <2>4. CASE ~Occupied(servers, reg[c].key) /\ Goto(c, "write_slot", reg[c])
    <3>1. FreshOn(c) /\ UncountedOn(c) /\ AtMost("write_slot", reg[c], Cardinality(Counted))
      BY <1>1, <2>4 DEF FreshOn, UncountedOn, Fresh, Uncounted, AtMost
    <3> QED
      BY <1>1, <1>2, <1>3, <1>5, <2>1, <2>2, <2>4, <3>1, MoveOrderly
  <2> QED
    BY <1>1, <2>3, <2>4
<1> QED
  BY <1>3, <1>4, <1>5 DEF Early

\* The worker whose slot is filled is new no longer: nobody else handles a
\* ping of it.
LEMMA WriteSlotKeys ==
  ASSUME SmpTypeOK, Locals, KeysLearned, Early, NEW c \in CPU, WriteSlot(c)
  PROVE  KeysLearned' /\ Early'
<1>0. PICK u : u = reg[c].frame
  OBVIOUS
<1> DEFINE k == reg[c].key
           r == [reg[c] EXCEPT !.op = "count", !.key = NoKey]
           new == [saddr |-> u, free_threads |-> MAX_THREADS]
<1>1. /\ pc[c] = "write_slot" /\ Goto(c, "load", r)
      /\ UNCHANGED <<ip_to_key, server_cnt, pings, running>>
      /\ servers' = IF k \in Key THEN [servers EXCEPT ![k] = new] ELSE servers
  BY <1>0 DEF WriteSlot, At, Update, outer
<1>2. r \in Registers /\ r.frame = u /\ r.op = "count" /\ u \in Server
  <2>1. r \in Registers /\ r.frame = u /\ r.op = "count"
    BY <1>0 DEF Registers, SmpTypeOK, Op
  <2> HIDE DEF r
  <2> QED
    BY <1>0, <1>1, <2>1 DEF Locals, Sound, Announced
<1>3. Known' = Known /\ Lasting(servers, servers') /\ (k \in Key => Occupied(servers', k))
      /\ \A j \in Key : servers'[j].saddr \in {servers[j].saddr, u}
  BY <1>1, <1>2, ServersAssumption DEF Known, Lasting, Occupied, SmpTypeOK
<1> HIDE DEF r
<1>4. KeysLearned'
  BY <1>1, <1>3, MoveKeys
<1>5. ASSUME Orderly PROVE Orderly'
  <2>1. server_cnt' \in Cnt /\ server_cnt' <= Cardinality(Counted) /\ u \in Known
    BY <1>0, <1>1, <1>2, <1>5 DEF SmpTypeOK, Orderly
  <2>2. FreshOn(c) /\ UncountedOn(c)
    BY <1>1 DEF FreshOn, UncountedOn, Fresh, Uncounted
  <2>3. ~Fresh(servers', "load", r) /\ AtMost("load", r, Cardinality(Counted))
    BY DEF Fresh, AtMost
  <2>4. ~New(u)'
    <3>1. SUFFICES ASSUME NEW d \in CPU, FreshOn(d)', reg'[d].frame = u PROVE FALSE
      BY <1>3, <2>1 DEF New
    <3>2. /\ pc'[c] = "load" /\ reg'[c] = r
          /\ \A e \in CPU : e # c => reg'[e] = reg[e]
      BY <1>1, GotoView
    <3>3. d # c
      BY <2>3, <3>1, <3>2 DEF FreshOn
    <3>4. Clean(u)
      BY <1>0, <1>2, <1>5, <2>2 DEF Orderly, New
    <3> QED
      BY <1>0, <3>1, <3>2, <3>3, <3>4 DEF Clean
  <2>5. ASSUME NEW s \in Server, Clean(s), New(s)' PROVE Clean(s)'
    <3>1. \A j \in Key : servers'[j].saddr # s
      BY <1>3, <2>4, <2>5 DEF Clean
    <3> QED
      BY <1>0, <1>1, <1>2, <2>5, <3>1, MoveClean
  <2> QED
    BY <1>0, <1>1, <1>2, <1>3, <1>5, <2>1, <2>2, <2>3, <2>5, MoveOrderly
<1> QED
  BY <1>3, <1>4, <1>5 DEF Early

LEMMA LoadKeys ==
  ASSUME SmpTypeOK, Locals, KeysLearned, Early, NEW c \in CPU, Load(c)
  PROVE  KeysLearned' /\ Early'
<1> DEFINE n == IF reg[c].op = "count" THEN server_cnt
                ELSE servers[reg[c].key].free_threads
           r == [reg[c] EXCEPT !.tmp = n]
<1>1. /\ pc[c] = "load" /\ Goto(c, "store", r)
      /\ UNCHANGED <<ip_to_key, servers, server_cnt, pings, running>>
  BY DEF Load, At, lbvars, outer
<1>2. n \in Cnt /\ reg[c] \in Registers
  BY <1>1 DEF SmpTypeOK, Locals, Sound, Updating, Occupied, dest_info
<1>3. reg[c].op = "count" => n = server_cnt
  OBVIOUS
<1> HIDE DEF n
<1>4. r \in Registers /\ r.frame = reg[c].frame /\ r.op = reg[c].op /\ r.tmp = n
  BY <1>2 DEF Registers
<1> HIDE DEF r
<1>5. CASE reg[c].op # "count"
  BY <1>1, <1>4, <1>5, PlainKeys DEF Registering
<1>6. CASE reg[c].op = "count"
  <2>1. Lasting(servers, servers') /\ Known' = Known
    BY <1>1 DEF Lasting, Known
  <2>2. KeysLearned'
    BY <1>1, <2>1, MoveKeys
  <2>3. ASSUME Orderly PROVE Orderly'
    <3>1. server_cnt' \in Cnt /\ server_cnt' <= Cardinality(Counted)
          /\ (r.frame \in Server => r.frame \in Known)
      BY <1>1, <1>4, <2>3 DEF SmpTypeOK, Orderly
    <3>2. UncountedOn(c) /\ ~Fresh(servers', "store", r)
      BY <1>1, <1>6 DEF UncountedOn, Uncounted, Fresh
    <3>3. AtMost("store", r, Cardinality(Counted))
      BY <1>1, <1>3, <1>4, <1>6, <3>1 DEF AtMost
    <3>4. ASSUME NEW s \in Server, Clean(s) PROVE Clean(s)'
      <4>1. \A k \in Key : servers'[k].saddr # s
        BY <1>1, <3>4 DEF Clean
      <4> QED
        BY <1>1, <1>4, <3>4, <4>1, MoveClean
    <3> QED
      BY <1>1, <1>4, <2>1, <2>3, <3>1, <3>2, <3>3, <3>4, MoveOrderly
  <2> QED
    BY <2>1, <2>2, <2>3 DEF Early
<1> QED
  BY <1>5, <1>6

\* When a worker is counted, one more worker has been counted.
LEMMA StoreKeys ==
  ASSUME SmpTypeOK, Locals, KeysLearned, Early, NEW c \in CPU, Store(c)
  PROVE  KeysLearned' /\ Early'
<1> DEFINE k == reg[c].key
           old == [servers EXCEPT ![k].free_threads = reg[c].tmp]
           u == reg[c].frame
<1>1. /\ pc[c] = "store" /\ Goto(c, "copy_load", reg[c])
      /\ UNCHANGED <<ip_to_key, pings, running>>
  BY DEF Store, At, outer
<1>2. /\ reg[c] \in Registers /\ reg[c].tmp \in Cnt /\ servers \in [Key -> dest_info]
      /\ reg[c].op \in {"count", "credit", "charge"}
      /\ reg[c].op # "count" => k \in Key
      /\ reg[c].op = "count" => u \in Server
  BY <1>1 DEF SmpTypeOK, Locals, Sound, Updating, Registers, Op, Occupied
<1>3. CASE reg[c].op # "count"
  <2>1. server_cnt' = server_cnt /\ (servers' = ReturnThread(old, k) \/ servers' = TakeThread(old, k))
    BY <1>2, <1>3 DEF Store
  <2>2. \A j \in Key : servers'[j].saddr = servers[j].saddr
    <3>1. k \in Key
      BY <1>2, <1>3
    <3>2. \A j \in Key : /\ ReturnThread(old, k)[j].saddr = servers[j].saddr
                         /\ TakeThread(old, k)[j].saddr = servers[j].saddr
      BY <1>2, <3>1, CountStored
    <3> HIDE DEF old, k
    <3> QED
      BY <2>1, <3>2
  <2> QED
    BY <1>1, <1>2, <2>1, <2>2, PlainKeys DEF Registering
<1>4. CASE reg[c].op = "count"
  <2>1. servers' = servers /\ server_cnt' = (reg[c].tmp + 1) % U16
    BY <1>4 DEF Store
  <2>2. Lasting(servers, servers') /\ Known' = Known
    BY <1>1, <2>1 DEF Lasting, Known
  <2>3. KeysLearned'
    BY <1>1, <2>2, MoveKeys
  <2>4. ASSUME Orderly PROVE Orderly'
    <3>1. u \in Known /\ reg[c].tmp <= Cardinality(Counted)
      BY <1>1, <1>2, <1>4, <2>4 DEF Orderly, AtMost
    <3>2. UncountedOn(c) /\ ~Fresh(servers', "copy_load", reg[c])
          /\ ~Uncounted(servers', "copy_load", reg[c])
          /\ AtMost("copy_load", reg[c], Cardinality(Counted))
      BY <1>1, <1>4 DEF UncountedOn, Uncounted, Fresh, AtMost
    <3>3. Counted \cup {u} \in SUBSET Counted'
      <4>1. /\ pc'[c] = "copy_load" /\ reg'[c] = reg[c]
            /\ \A d \in CPU : d # c => pc'[d] = pc[d] /\ reg'[d] = reg[d]
        BY <1>1, GotoView
      <4>2. ASSUME NEW d \in CPU, UncountedOn(d)'
            PROVE  UncountedOn(d) /\ d # c /\ reg'[d].frame = reg[d].frame
        <5>1. d # c
          BY <3>2, <4>1, <4>2 DEF UncountedOn
        <5> QED
          BY <2>1, <4>1, <4>2, <5>1 DEF UncountedOn
      <4>3. \A d \in CPU : UncountedOn(d)' => reg'[d].frame # u
        BY <2>4, <3>2, <4>2 DEF Orderly
      <4> QED
        BY <2>2, <3>1, <4>2, <4>3 DEF Counted
    <3>4. u \notin Counted
      BY <3>2 DEF Counted
    <3>5. Cardinality(Counted) + 1 <= Cardinality(Counted')
      <4>1. Cardinality(Counted \cup {u}) = Cardinality(Counted) + 1
        BY <3>4, CountedFinite, FS_AddElement
      <4>2. Cardinality(Counted \cup {u}) <= Cardinality(Counted')
        BY <3>3, CountedFiniteNext, FS_Subset
      <4> QED
        BY <4>1, <4>2
    <3>6. server_cnt' \in Cnt /\ server_cnt' <= Cardinality(Counted')
      <4>1. (reg[c].tmp + 1) % U16 <= reg[c].tmp + 1
        <5>1. reg[c].tmp \in Nat /\ reg[c].tmp < U16 /\ U16 \in Nat /\ U16 > 0
          BY <1>2, SizesAssumption DEF Cnt
        <5>2. CASE reg[c].tmp + 1 < U16
          BY <5>1, <5>2
        <5>3. CASE reg[c].tmp + 1 = U16
          BY <5>1, <5>3
        <5> QED
          BY <5>1, <5>2, <5>3
      <4>2. (reg[c].tmp + 1) % U16 \in Cnt
        BY <1>2, CntFacts
      <4> QED
        BY <1>2, <2>1, <3>1, <3>5, <4>1, <4>2, CountedFinite, CountedFiniteNext DEF Cnt
    <3>7. ASSUME NEW s \in Server, Clean(s) PROVE Clean(s)'
      <4>1. \A j \in Key : servers'[j].saddr # s
        BY <2>1, <3>7 DEF Clean
      <4> QED
        BY <1>1, <3>7, <4>1, MoveClean
    <3> QED
      BY <1>1, <1>2, <2>2, <2>4, <3>1, <3>2, <3>6, <3>7, MoveOrderly
  <2> QED
    BY <2>2, <2>3, <2>4 DEF Early
<1> QED
  BY <1>3, <1>4

LEMMA CopyLoadKeys ==
  ASSUME SmpTypeOK, Locals, KeysLearned, Early, NEW c \in CPU, CopyLoad(c)
  PROVE  KeysLearned' /\ Early'
<1> DEFINE r == IF reg[c].op = "count" THEN [reg[c] EXCEPT !.tmp = server_cnt]
                ELSE [reg[c] EXCEPT !.tmp = 0, !.elem = servers[reg[c].key]]
<1>1. /\ pc[c] = "copy_load" /\ Goto(c, "copy_store", r)
      /\ UNCHANGED <<ip_to_key, servers, server_cnt, pings, running>>
  BY DEF CopyLoad, At, lbvars, outer
<1>2. reg[c].op # "count" => reg[c].key \in Key
  BY <1>1 DEF Locals, Sound, Updating, Occupied
<1>3. /\ r \in Registers /\ r.frame = reg[c].frame /\ r.op = reg[c].op
      /\ reg[c].op = "count" => r.tmp = server_cnt
      /\ reg[c].op # "count" => r.elem = servers[reg[c].key]
  BY <1>2, CntFacts DEF Registers, SmpTypeOK
<1>4. Lasting(servers, servers') /\ Known' = Known
  BY <1>1 DEF Lasting, Known
<1> HIDE DEF r
<1>5. KeysLearned'
  BY <1>1, <1>4, MoveKeys
<1>6. ASSUME Orderly PROVE Orderly'
  <2>1. server_cnt' \in Cnt /\ server_cnt' <= Cardinality(Counted)
        /\ (r.frame \in Server => r.frame \in Known)
    BY <1>1, <1>3, <1>6 DEF SmpTypeOK, Orderly
  <2>2. ~Fresh(servers', "copy_store", r) /\ ~Uncounted(servers', "copy_store", r)
    BY DEF Fresh, Uncounted
  <2>3. AtMost("copy_store", r, Cardinality(Counted))
    BY <1>1, <1>3, <2>1 DEF AtMost
  <2>4. ASSUME NEW s \in Server, Clean(s) PROVE Clean(s)'
    <3>1. \A k \in Key : servers'[k].saddr # s
      BY <1>1, <2>4 DEF Clean
    <3>2. r.op # "count" => r.elem.saddr # s
      BY <1>1, <1>2, <1>3, <3>1
    <3> QED
      BY <1>1, <1>3, <2>4, <3>1, <3>2, MoveClean
  <2> QED
    BY <1>1, <1>3, <1>4, <1>6, <2>1, <2>2, <2>3, <2>4, MoveOrderly
<1> QED
  BY <1>4, <1>5, <1>6 DEF Early

\* The copy may put back another address, never that of a new worker.
LEMMA CopyStoreKeys ==
  ASSUME SmpTypeOK, Locals, KeysLearned, Early, NEW c \in CPU, CopyStore(c)
  PROVE  KeysLearned' /\ Early'
<1>1. /\ pc[c] = "copy_store" /\ UNCHANGED <<ip_to_key, pings, running>>
      /\ server_cnt' = IF reg[c].op = "count" THEN reg[c].tmp ELSE server_cnt
      /\ servers' = IF reg[c].op = "count" THEN servers
                    ELSE [servers EXCEPT ![reg[c].key] = reg[c].elem]
  BY DEF CopyStore, At, outer
<1>2. /\ reg[c] \in Registers /\ reg[c].tmp \in Cnt
      /\ reg[c].op \in {"count", "credit", "charge"}
      /\ reg[c].op # "count" => reg[c].key \in Key /\ reg[c].elem.saddr \in Server
  BY <1>1 DEF SmpTypeOK, Locals, Sound, Updating, Registers, Op, Occupied
<1>3. PICK p, r : /\ Goto(c, p, r) /\ p \in {"idle", "peek", "send"} /\ r \in Registers
                  /\ r.frame = reg[c].frame \/ r.frame \notin Server
  <2>1. CASE reg[c].op = "count"
    <3>1. Goto(c, "idle", Blank)
      BY <2>1 DEF CopyStore, Return
    <3>2. Blank.frame \notin Server
      BY FrameAssumption DEF Blank
    <3> QED
      BY <3>1, <3>2, BlankType
  <2>2. CASE reg[c].op # "count"
    <3> DEFINE x == [reg[c] EXCEPT !.elem = Unused]
    <3>1. Goto(c, "peek", x) \/ Goto(c, "send", x)
      BY <1>2, <2>2 DEF CopyStore
    <3>2. x \in Registers /\ x.frame = reg[c].frame
      BY <1>2, BlankType DEF Registers
    <3> HIDE DEF x
    <3> QED
      BY <3>1, <3>2
  <2> QED
    BY <2>1, <2>2
<1>4. Known' = Known /\ Lasting(servers, servers')
      /\ \A k \in Key : \/ servers'[k].saddr = servers[k].saddr
                        \/ reg[c].op # "count" /\ servers'[k].saddr = reg[c].elem.saddr
  BY <1>1, <1>2, ServersAssumption DEF Known, Lasting, Occupied, SmpTypeOK
<1>5. KeysLearned'
  BY <1>1, <1>3, <1>4, MoveKeys
<1>6. ASSUME Orderly PROVE Orderly'
  <2>1. server_cnt' \in Cnt /\ server_cnt' <= Cardinality(Counted)
        /\ (reg[c].frame \in Server => reg[c].frame \in Known)
    BY <1>1, <1>2, <1>6 DEF SmpTypeOK, Orderly, AtMost
  <2>2. ~Fresh(servers', p, r) /\ ~Uncounted(servers', p, r)
        /\ AtMost(p, r, Cardinality(Counted))
    BY <1>3 DEF Fresh, Uncounted, AtMost
  <2>3. ASSUME NEW s \in Server, Clean(s) PROVE Clean(s)'
    <3>1. \A k \in Key : servers'[k].saddr # s
      BY <1>1, <1>4, <2>3 DEF Clean
    <3> QED
      BY <1>1, <1>3, <2>3, <3>1, MoveClean
  <2> QED
    BY <1>1, <1>3, <1>4, <1>6, <2>1, <2>2, <2>3, MoveOrderly
<1> QED
  BY <1>4, <1>5, <1>6 DEF Early

LEMMA DispatchKeys ==
  ASSUME SmpTypeOK, Locals, KeysLearned, Early, NEW c \in CPU,
         SmpTypeOK', Peek(c) \/ Select(c) \/ Pop(c) \/ Push(c)
  PROVE  KeysLearned' /\ Early'
<1>1. /\ pc[c] \in {"peek", "select", "pop", "push"} /\ reg[c] \in Registers
      /\ UNCHANGED <<ip_to_key, servers, server_cnt, pings, running>>
  BY DEF Peek, Select, Pop, Push, At, lbvars, outer, SmpTypeOK
<1>2. pc[c] \notin Registering
  BY <1>1 DEF Registering
<1>3. ASSUME Return(c) PROVE KeysLearned' /\ Early'
  BY <1>1, <1>2, <1>3, PlainReturn
<1>4. ASSUME NEW p \in {"select", "pop", "push", "load"}, NEW r, Goto(c, p, r),
             r.frame = reg[c].frame, p = "load" => r.op # "count"
      PROVE  KeysLearned' /\ Early'
  <2>1. r \in Registers
    BY <1>4, GotoView DEF SmpTypeOK
  <2>2. p \notin Registering
    BY DEF Registering
  <2> QED
    BY <1>1, <1>2, <1>4, <2>1, <2>2, PlainKeys
<1>5. CASE Peek(c)
  BY <1>3, <1>4, <1>5 DEF Peek
<1>6. CASE Select(c)
  <2> DEFINE best == Visit(servers, reg[c].best, reg[c].slot)
             looked == [reg[c] EXCEPT !.best = best, !.slot = @ + 1]
             charged == [looked EXCEPT !.op = "charge", !.key = best.selected_key,
                                       !.value = reg[c].frame]
  <2>1. \/ Goto(c, "select", looked) \/ Goto(c, "pop", looked)
        \/ Goto(c, "push", looked) \/ Goto(c, "load", charged) \/ Return(c)
    BY <1>6 DEF Select
  <2>2. looked.frame = reg[c].frame
    BY <1>1 DEF Registers
  <2>3. charged.frame = reg[c].frame /\ charged.op = "charge"
    BY <1>1 DEF Registers
  <2> HIDE DEF looked, charged
  <2> QED
    BY <1>3, <1>4, <2>1, <2>2, <2>3
<1>7. CASE Pop(c)
  <2> DEFINE r == [reg[c] EXCEPT !.op = "charge",
                     !.value = IF queue = << >> THEN NoRequest ELSE Head(queue),
                     !.key = reg[c].best.selected_key]
  <2>1. Goto(c, "load", r) \/ Return(c)
    BY <1>7 DEF Pop
  <2>2. r.frame = reg[c].frame /\ r.op = "charge"
    BY <1>1 DEF Registers
  <2> HIDE DEF r
  <2> QED
    BY <1>3, <1>4, <2>1, <2>2
<1>8. CASE Push(c)
  BY <1>3, <1>8 DEF Push
<1> QED
  BY <1>5, <1>6, <1>7, <1>8

\* A job goes to a worker in the servers map, which is no new one.
LEMMA SendKeys ==
  ASSUME SmpTypeOK, Locals, KeysLearned, Early, NEW c \in CPU, Send(c)
  PROVE  KeysLearned' /\ Early'
<1>1. /\ pc[c] = "send" /\ Goto(c, "idle", Blank)
      /\ running' = [running EXCEPT ![servers[reg[c].key].saddr] = @ + 1]
      /\ UNCHANGED <<ip_to_key, servers, server_cnt, pings>>
  BY DEF Send, Return, At, lbvars
<1>2. reg[c].key \in Key /\ Blank \in Registers /\ Blank.frame \notin Server
  BY <1>1, BlankType, FrameAssumption DEF Locals, Sound, Occupied, Blank
<1>3. Known' = Known /\ Lasting(servers, servers')
  BY <1>1 DEF Known, Lasting
<1>4. KeysLearned'
  BY <1>1, <1>3, MoveKeys
<1>5. ASSUME Orderly PROVE Orderly'
  <2>1. server_cnt' \in Cnt /\ server_cnt' <= Cardinality(Counted)
    BY <1>1, <1>5 DEF SmpTypeOK, Orderly
  <2>2. ~Fresh(servers', "idle", Blank) /\ ~Uncounted(servers', "idle", Blank)
        /\ AtMost("idle", Blank, Cardinality(Counted))
    BY DEF Fresh, Uncounted, AtMost
  <2>3. ASSUME NEW s \in Server, Clean(s) PROVE Clean(s)'
    <3>1. \A k \in Key : servers'[k].saddr # s
      BY <1>1, <2>3 DEF Clean
    <3>2. running'[s] = running[s]
      BY <1>1, <1>2, <3>1 DEF SmpTypeOK
    <3> QED
      BY <1>1, <1>2, <2>3, <3>1, <3>2, MoveClean
  <2> QED
    BY <1>1, <1>2, <1>3, <1>5, <2>1, <2>2, <2>3, MoveOrderly
<1> QED
  BY <1>3, <1>4, <1>5 DEF Early

LEMMA KeysStep ==
  ASSUME SmpTypeOK, Locals, KeysLearned, Early, [Next]_vars
  PROVE  KeysLearned' /\ Early'
<1>1. ASSUME UNCHANGED <<lbvars, pc, reg>>,
             \A s \in Server : Clean(s) => Clean(s)'
      PROVE  KeysLearned' /\ Early'
  <2>1. Known' = Known /\ (\A s \in Server : New(s)' <=> New(s)) /\ Counted' = Counted
        /\ \A c \in CPU : UncountedOn(c)' <=> UncountedOn(c)
    BY <1>1 DEF lbvars, Known, New, FreshOn, Counted, UncountedOn
  <2>2. KeysLearned'
    BY <1>1, <2>1 DEF KeysLearned, lbvars
  <2>3. Orderly => Orderly'
    BY <1>1, <2>1 DEF Orderly, lbvars
  <2> QED
    BY <2>1, <2>2, <2>3 DEF Early
<1>2. ASSUME NEW s \in Server, Finish(s) PROVE KeysLearned' /\ Early'
  <2>1. /\ UNCHANGED <<lbvars, pc, reg>> /\ running[s] > 0
        /\ running' = [running EXCEPT ![s] = @ - 1]
        /\ pings' = [pings EXCEPT ![s] = @ + 1]
    BY <1>2 DEF Finish
  <2>2. ASSUME NEW t \in Server, Clean(t) PROVE Clean(t)'
    <3>1. t # s
      BY <2>1, <2>2 DEF Clean
    <3>2. running'[t] = running[t] /\ pings'[t] = pings[t]
      BY <2>1, <3>1 DEF SmpTypeOK
    <3> QED
      BY <2>1, <2>2, <3>2 DEF Clean, lbvars
  <2> QED
    BY <1>1, <2>1, <2>2
<1>3. CASE Idle \/ UNCHANGED vars
  <2>1. UNCHANGED vars
    BY <1>3 DEF Idle
  <2>2. \A s \in Server : Clean(s) => Clean(s)'
    BY <2>1 DEF Clean, vars, lbvars, outer
  <2> QED
    BY <1>1, <2>1, <2>2 DEF vars
<1>4. ASSUME NEW c \in CPU, Step(c) PROVE KeysLearned' /\ Early'
  <2>1. SmpTypeOK'
    BY SmpTypes
  <2> QED
    BY <1>4, <2>1, ReadCntKeys, LearnKeys, ReadSlotKeys, WriteSlotKeys, LoadKeys,
       StoreKeys, CopyLoadKeys, CopyStoreKeys, DispatchKeys, SendKeys DEF Step
<1> QED
  BY <1>2, <1>3, <1>4, LookupKeyKeys, LookupRequestKeys DEF Next

LEMMA KeysStart ==
  ASSUME Init
  PROVE  KeysLearned /\ Early
<1>1. Known = {} /\ server_cnt = 0 /\ \A c \in CPU : pc[c] = "idle" /\ reg[c] = Blank
  BY CntFacts DEF Init, LbInit, Known
<1>2. Blank.frame \notin Server
  BY FrameAssumption DEF Blank
<1>3. KeysLearned
  BY <1>1 DEF KeysLearned
<1>4. \A s \in Server : Clean(s)
  BY <1>1, <1>2, ServersAssumption DEF Init, LbInit, Clean
<1>5. \A c \in CPU : ~UncountedOn(c) /\ AtMost(pc[c], reg[c], Cardinality(Counted))
  BY <1>1 DEF UncountedOn, Uncounted, AtMost
<1>6. Orderly
  BY <1>1, <1>2, <1>4, <1>5, CountedFinite DEF Orderly
<1> QED
  BY <1>3, <1>6 DEF Early

(* On any number of CPUs whose accesses to the maps interleave in any way, *)
(* and with more hosts than slots, the key lb.c keeps for a worker lies    *)
(* inside the servers map, and names a slot in use once no invocation is   *)
(* busy with a ping of that worker: racing registrations may share a slot  *)
(* but none ends without one.                                              *)
THEOREM KeysStayUsable == Spec => []KeysUsable
<1> DEFINE Inv == SmpTypeOK /\ Locals /\ KeysLearned /\ Early
<1>1. Init => Inv
  BY SmpStart, KeysStart
<1>2. Inv /\ [Next]_vars => Inv'
  BY SmpTypes, KeysStep
<1>3. Inv => KeysUsable
  BY DEF KeysLearned, KeysUsable
<1> QED
  BY <1>1, <1>2, <1>3, PTL DEF Spec

(* The entry of a host in the hash never changes, although lb.c:274 would  *)
(* overwrite one that another CPU has made meanwhile: no two CPUs register *)
(* the same host.  So the pointer that lb.c:259 returns shows at lb.c:278  *)
(* what it showed before, and LookupKey may read it in the same step.      *)
THEOREM EntriesNeverChange ==
  Spec => [][\A s \in Known : ip_to_key'[s] = ip_to_key[s]]_vars
<1> DEFINE Inv == SmpTypeOK /\ Locals /\ KeysLearned /\ Early
           Kept == \A s \in Known : ip_to_key'[s] = ip_to_key[s]
<1>1. Init => Inv
  BY SmpStart, KeysStart
<1>2. Inv /\ [Next]_vars => Inv'
  BY SmpTypes, KeysStep
<1>3. ASSUME Inv, Next PROVE Kept
  <2>1. ASSUME NEW c \in CPU, Learn(c) PROVE Kept
    <3>1. reg[c].frame \notin Known
      BY <1>3, <2>1 DEF KeysLearned, Learn, At
    <3>2. ip_to_key \in [Server -> Cnt \cup {NoKey}]
      BY <1>3 DEF SmpTypeOK, LbTypeOK
    <3> QED
      BY <2>1, <3>1, <3>2 DEF Learn, Known
  <2>2. ASSUME ip_to_key' = ip_to_key PROVE Kept
    BY <2>2
  <2>3. ASSUME NEW c \in CPU, Step(c) PROVE Kept
    BY <2>1, <2>2, <2>3
       DEF Step, ReadCnt, ReadSlot, WriteSlot, Load, Store, CopyLoad, CopyStore,
           Peek, Select, Pop, Push, Send, lbvars
  <2>4. ASSUME NEW c \in CPU, NEW s \in Server, LookupKey(c, s) PROVE Kept
    BY <2>2, <2>4 DEF LookupKey, lbvars
  <2>5. ASSUME NEW c \in CPU, NEW r \in Request, LookupRequest(c, r) PROVE Kept
    BY <2>2, <2>5 DEF LookupRequest, lbvars
  <2>6. ASSUME NEW s \in Server, Finish(s) PROVE Kept
    BY <2>2, <2>6 DEF Finish, lbvars
  <2>7. ASSUME Idle PROVE Kept
    BY <2>2, <2>7 DEF Idle, vars, lbvars
  <2> QED
    BY <1>3, <2>3, <2>4, <2>5, <2>6, <2>7 DEF Next
<1>4. Inv /\ [Next]_vars => [Kept]_vars
  BY <1>3
<1> QED
  BY <1>1, <1>2, <1>4, PTL DEF Spec

-----------------------------------------------------------------------------
(* An invocation that no other CPU disturbs: where it stands, told from    *)
(* the maps sh it found.                                                   *)

\* The key of the sender s of a ping, the hash once s has been learned, and
\* the servers map once s is registered or credited.
Slot(sh, s) == IF sh.ip_to_key[s] # NoKey THEN sh.ip_to_key[s] ELSE sh.server_cnt

Learned(sh, s) ==
  IF /\ sh.ip_to_key[s] = NoKey
     /\ Cardinality({t \in Server : sh.ip_to_key[t] # NoKey}) < MAX_SERVERS
  THEN [sh.ip_to_key EXCEPT ![s] = sh.server_cnt] ELSE sh.ip_to_key

Filled(sh, s) ==
  IF Slot(sh, s) \in Key
  THEN [sh.servers EXCEPT ![Slot(sh, s)] = [saddr |-> s, free_threads |-> MAX_THREADS]]
  ELSE sh.servers

Credited(sh, s) == ReturnThread(sh.servers, Slot(sh, s))

\* What get_available_backend has found in srv after n slots.
None == [selected_key |-> NoKey, max_free_threads |-> 0]

Looked(srv, n) ==
  CASE n = 0 -> None
    [] n = 1 -> Visit(srv, None, 0)
    [] n = 2 -> Visit(srv, Visit(srv, None, 0), 1)
    [] n = 3 -> Visit(srv, Visit(srv, Visit(srv, None, 0), 1), 2)

\* The sender has a key and the job queue has not been touched.
Found(sh, m, r) ==
  /\ r.frame \in Server
  /\ m.ip_to_key = Learned(sh, r.frame)
  /\ m.queue = sh.queue

\* The numbers an update has read are those it will overwrite.
Fetched(m, p, r) ==
  /\ p = "store" =>
       r.tmp = IF r.op = "count" THEN m.server_cnt ELSE m.servers[r.key].free_threads
  /\ p = "copy_store" =>
       IF r.op = "count" THEN r.tmp = m.server_cnt ELSE r.elem = m.servers[r.key]

Before == {"load", "store"}

Finding(sh, m, p, r) ==
  /\ m = sh
  /\ r.frame \in Server
  /\ sh.ip_to_key[r.frame] = NoKey
  /\ p = "learn" => r.key = sh.server_cnt

Placing(sh, m, p, r) ==
  /\ Found(sh, m, r)
  /\ m.servers = sh.servers
  /\ m.server_cnt = sh.server_cnt
  /\ r.key = Slot(sh, r.frame)
  /\ p = "write_slot" => ~Occupied(sh.servers, r.key)

Counting(sh, m, p, r) ==
  /\ Found(sh, m, r)
  /\ ~Occupied(sh.servers, Slot(sh, r.frame))
  /\ m.servers = Filled(sh, r.frame)
  /\ m.server_cnt = IF p \in Before THEN sh.server_cnt ELSE (sh.server_cnt + 1) % U16

Crediting(sh, m, p, r) ==
  /\ Found(sh, m, r)
  /\ r.key = Slot(sh, r.frame)
  /\ Occupied(sh.servers, r.key)
  /\ m.servers = IF p \in Before THEN sh.servers ELSE Credited(sh, r.frame)
  /\ m.server_cnt = sh.server_cnt

\* A completion looks for a waiting job and a backend for it.
Matching(sh, m, p, r) ==
  /\ Found(sh, m, r)
  /\ Occupied(sh.servers, Slot(sh, r.frame))
  /\ m.servers = Credited(sh, r.frame)
  /\ m.server_cnt = sh.server_cnt
  /\ p # "peek" => sh.queue # << >>

\* A backend is charged for the oldest job or for a new one.
Base(sh, r) == IF r.frame \in Server THEN Credited(sh, r.frame) ELSE sh.servers

Charging(sh, m, p, r) ==
  /\ r.key = get_available_backend(Base(sh, r))
  /\ m.servers = IF p \in Before THEN Base(sh, r) ELSE TakeThread(Base(sh, r), r.key)
  /\ m.server_cnt = sh.server_cnt
  /\ IF r.frame \in Server
     THEN /\ Occupied(sh.servers, Slot(sh, r.frame))
          /\ m.ip_to_key = Learned(sh, r.frame)
          /\ sh.queue # << >> /\ m.queue = Tail(sh.queue)
          /\ TRUE \in TailGrows
     ELSE /\ r.frame \in Request
          /\ m.ip_to_key = sh.ip_to_key
          /\ m.queue = sh.queue

\* The invocation stands at p with the local variables r, the maps are m.
Stage(sh, m, p, r) ==
  /\ p \in {"read_cnt", "learn"} => Finding(sh, m, p, r)
  /\ p \in {"read_slot", "write_slot"} => Placing(sh, m, p, r)
  /\ p \in Updating /\ r.op = "count" => Counting(sh, m, p, r)
  /\ p \in Updating /\ r.op = "credit" => Crediting(sh, m, p, r)
  /\ p = "peek" \/ (p \in {"select", "pop"} /\ r.frame \in Server) => Matching(sh, m, p, r)
  /\ p \in {"select", "push"} /\ r.frame \notin Server => m = sh
  /\ (p \in Updating /\ r.op = "charge") \/ p = "send" => Charging(sh, m, p, r)
  /\ p \in Announced \/ (p \in Updating /\ r.op = "credit") => r.best = None
  /\ p = "select" => r.best = Looked(m.servers, r.slot)
  /\ p = "pop" => r.best.selected_key = get_available_backend(m.servers)
  /\ p = "push" => get_available_backend(m.servers) = NoKey
  /\ p \in Updating => Fetched(m, p, r)

MapsType ==
  [ip_to_key : [Server -> Cnt \cup {NoKey}], servers : [Key -> dest_info],
   server_cnt : Cnt, queue : Seq(Request)]

\* shown holds maps; all CPUs idle, it is the maps; without an overlap at most
\* one CPU is at work, and where it stands is told from shown.
Undisturbed ==
  /\ shown \in MapsType
  /\ overlapped \in BOOLEAN
  /\ Working = {} => shown = Maps
  /\ ~overlapped => \A c \in Working : /\ Working = {c}
                                       /\ Stage(shown, Maps, pc[c], reg[c])

-----------------------------------------------------------------------------
(* The operators of LoadBalancer mean the same on the shown maps. *)

LEMMA SameNumber ==
  ASSUME NEW S
  PROVE  Atomic!Cardinality(S) = Cardinality(S)
BY DEF Atomic!Cardinality, Cardinality

LEMMA SameOperators ==
  /\ Atomic!NoKey = NoKey /\ Atomic!Key = Key
  /\ \A srv, k : Atomic!Occupied(srv, k) = Occupied(srv, k)
  /\ \A srv, k : Atomic!ReturnThread(srv, k) = ReturnThread(srv, k)
  /\ \A srv, k : Atomic!TakeThread(srv, k) = TakeThread(srv, k)
  /\ \A srv : Atomic!get_available_backend(srv) = get_available_backend(srv)
<1>1. Atomic!NoKey = NoKey /\ Atomic!Key = Key
  BY DEF Atomic!NoKey, NoKey, Atomic!Key, Key, Atomic!MAX_SERVERS, MAX_SERVERS
<1>2. \A srv, k : Atomic!Occupied(srv, k) = Occupied(srv, k)
  BY <1>1 DEF Atomic!Occupied, Occupied
<1>3. \A srv, k : Atomic!ReturnThread(srv, k) = ReturnThread(srv, k)
  BY DEF Atomic!ReturnThread, ReturnThread, Atomic!WithFree, WithFree
<1>4. \A srv, k : Atomic!TakeThread(srv, k) = TakeThread(srv, k)
  BY DEF Atomic!TakeThread, TakeThread, Atomic!WithFree, WithFree
<1>5. \A srv, best, k : Atomic!Visit(srv, best, k) = Visit(srv, best, k)
  BY <1>2 DEF Atomic!Visit, Visit
<1>6. \A srv : Atomic!get_available_backend(srv) = get_available_backend(srv)
  BY <1>1, <1>5 DEF Atomic!get_available_backend, get_available_backend
<1> QED
  BY <1>1, <1>2, <1>3, <1>4, <1>6

LEMMA SameKeys ==
  ASSUME NEW s \in Server, shown' = Maps', ip_to_key' = Learned(shown, s)
  PROVE  Atomic!LearnKey(s) /\ Atomic!KeyOf(s) = Slot(shown, s)
BY SameNumber, SameOperators
   DEF Atomic!LearnKey, Atomic!KeyOf, Atomic!Known, Learned, Slot, Maps,
       Atomic!MAX_SERVERS, MAX_SERVERS

-----------------------------------------------------------------------------
(* The ways an invocation ends are actions of LoadBalancer. *)

LEMMA EndRegister ==
  ASSUME NEW s \in Server, shown' = Maps', ~Occupied(shown.servers, Slot(shown, s)),
         ip_to_key' = Learned(shown, s), servers' = Filled(shown, s),
         queue' = shown.queue, server_cnt' = (shown.server_cnt + 1) % U16
  PROVE  Atomic!LbNext
<1>1. Atomic!Register(s, Atomic!Drop)
  BY SameKeys, SameOperators DEF Atomic!Register, Maps, Filled
<1>2. Atomic!Drop \in Atomic!Verdict
  BY DEF Atomic!Verdict
<1> QED
  BY <1>1, <1>2 DEF Atomic!LbNext, Atomic!OnPing

LEMMA EndComplete ==
  ASSUME NEW s \in Server, shown' = Maps', Occupied(shown.servers, Slot(shown, s)),
         ip_to_key' = Learned(shown, s), servers' = Credited(shown, s),
         shown.queue = << >>, queue' = shown.queue, server_cnt' = shown.server_cnt
  PROVE  Atomic!LbNext
<1>1. Atomic!Complete(s, Atomic!Drop)
  BY SameKeys, SameOperators DEF Atomic!Complete, Maps, Credited
<1>2. Atomic!Drop \in Atomic!Verdict
  BY DEF Atomic!Verdict
<1> QED
  BY <1>1, <1>2 DEF Atomic!LbNext, Atomic!OnPing

\* No backend has a free thread: the job keeps waiting.
LEMMA EndUnmatched ==
  ASSUME NEW s \in Server, shown' = Maps', Occupied(shown.servers, Slot(shown, s)),
         ip_to_key' = Learned(shown, s), servers' = Credited(shown, s),
         shown.queue # << >>, queue' = shown.queue, server_cnt' = shown.server_cnt,
         get_available_backend(Credited(shown, s)) = NoKey
  PROVE  Atomic!LbNext
<1>1. Atomic!CompleteAndDispatch(s, Atomic!Aborted)
  BY SameKeys, SameOperators DEF Atomic!CompleteAndDispatch, Maps, Credited
<1>2. Atomic!Aborted \in Atomic!Verdict
  BY DEF Atomic!Verdict
<1> QED
  BY <1>1, <1>2 DEF Atomic!LbNext, Atomic!OnPing

\* The oldest job leaves the queue, for a backend or because the frame did
\* not grow.
LEMMA EndDispatch ==
  ASSUME NEW s \in Server, shown' = Maps', Occupied(shown.servers, Slot(shown, s)),
         NEW k \in Key, k = get_available_backend(Credited(shown, s)),
         Credited(shown, s)[k].saddr \in Server,
         ip_to_key' = Learned(shown, s), server_cnt' = shown.server_cnt,
         shown.queue \in Seq(Request), shown.queue # << >>,
         queue' = Tail(shown.queue), NEW grown \in TailGrows,
         servers' = IF grown THEN TakeThread(Credited(shown, s), k) ELSE Credited(shown, s)
  PROVE  Atomic!LbNext
<1> DEFINE credited == Credited(shown, s)
           v == IF grown THEN Atomic!Tx(credited[k].saddr, Head(shown.queue))
                ELSE Atomic!Aborted
<1>1. Head(shown.queue) \in Request
  OBVIOUS
<1>2. v \in Atomic!Verdict
  BY <1>1 DEF Atomic!Verdict
<1>3. Atomic!dequeue(Head(shown.queue))
  BY DEF Atomic!dequeue, Maps
<1>4. Atomic!Dispatch(credited, k, grown, v)
  BY <1>1, <1>3, SameOperators DEF Atomic!Dispatch, Maps
<1>5. k # NoKey
  BY CntFacts
<1>6. Atomic!CompleteAndDispatch(s, v)
  <2> HIDE DEF v
  <2> QED
    BY <1>4, <1>5, SameKeys, SameOperators DEF Atomic!CompleteAndDispatch, Maps, Credited
<1> HIDE DEF v
<1> QED
  BY <1>2, <1>6 DEF Atomic!LbNext, Atomic!OnPing

LEMMA EndForward ==
  ASSUME NEW r \in Request, shown' = Maps', NEW k \in Key,
         k = get_available_backend(shown.servers), shown.servers[k].saddr \in Server,
         servers' = TakeThread(shown.servers, k), ip_to_key' = shown.ip_to_key,
         server_cnt' = shown.server_cnt, queue' = shown.queue
  PROVE  Atomic!LbNext
<1> DEFINE v == Atomic!Tx(shown.servers[k].saddr, r)
<1>1. v \in Atomic!Verdict
  BY DEF Atomic!Verdict
<1>2. Atomic!Forward(r, v)
  BY CntFacts, SameOperators DEF Atomic!Forward, Maps
<1> HIDE DEF v
<1> QED
  BY <1>1, <1>2 DEF Atomic!LbNext, Atomic!OnRequest

LEMMA EndEnqueue ==
  ASSUME NEW r \in Request, shown' = Maps', get_available_backend(shown.servers) = NoKey,
         servers' = shown.servers, ip_to_key' = shown.ip_to_key,
         server_cnt' = shown.server_cnt,
         queue' = IF Len(shown.queue) < QUEUE_MAX THEN Append(shown.queue, r)
                  ELSE shown.queue
  PROVE  Atomic!LbNext
<1>1. Atomic!Enqueue(r, Atomic!Aborted)
  BY SameOperators DEF Atomic!Enqueue, Atomic!enqueue, Maps
<1>2. Atomic!Aborted \in Atomic!Verdict
  BY DEF Atomic!Verdict
<1> QED
  BY <1>1, <1>2 DEF Atomic!LbNext, Atomic!OnRequest

-----------------------------------------------------------------------------
(* Every access of an undisturbed invocation leads to its next stage, the  *)
(* last one to an action of LoadBalancer.                                  *)

LEMMA MapsFields ==
  /\ Maps.ip_to_key = ip_to_key /\ Maps.servers = servers
  /\ Maps.server_cnt = server_cnt /\ Maps.queue = queue
  /\ Maps'.ip_to_key = ip_to_key' /\ Maps'.servers = servers'
  /\ Maps'.server_cnt = server_cnt' /\ Maps'.queue = queue'
BY DEF Maps

\* CPU c works on, or its invocation ends and was an action of LoadBalancer.
Onward(c) ==
  IF pc'[c] = "idle" THEN shown' = Maps' => Atomic!LbNext
  ELSE Stage(shown, Maps', pc'[c], reg'[c])

LEMMA GotoOnward ==
  ASSUME SmpTypeOK, NEW c \in CPU, NEW p \in Pc \ {"idle"}, NEW r, Goto(c, p, r),
         Stage(shown, Maps', p, r)
  PROVE  Onward(c)
BY GotoView DEF Onward

LEMMA ReturnOnward ==
  ASSUME SmpTypeOK, NEW c \in CPU, Return(c), shown' = Maps' => Atomic!LbNext
  PROVE  Onward(c)
BY GotoView DEF Onward, Return

LEMMA FindOnward ==
  ASSUME SmpTypeOK, Locals, shown \in MapsType, NEW c \in CPU,
         Stage(shown, Maps, pc[c], reg[c]), ReadCnt(c) \/ Learn(c)
  PROVE  Onward(c)
<1> DEFINE s == reg[c].frame
<1>1. /\ pc[c] \in {"read_cnt", "learn"} /\ reg[c] \in Registers
      /\ Finding(shown, Maps, pc[c], reg[c]) /\ reg[c].best = None
  BY DEF ReadCnt, Learn, At, Stage, Announced, SmpTypeOK
<1>2. CASE ReadCnt(c)
  <2> DEFINE r == [reg[c] EXCEPT !.key = server_cnt]
  <2>1. Goto(c, "learn", r) /\ Maps' = Maps
    BY <1>2 DEF ReadCnt, lbvars, Maps
  <2>2. r.frame = s /\ r.key = server_cnt /\ r.best = None
    BY <1>1 DEF Registers
  <2> HIDE DEF r
  <2>3. Finding(shown, Maps', "learn", r)
    BY <1>1, <2>1, <2>2, MapsFields DEF Finding
  <2>4. Stage(shown, Maps', "learn", r)
    BY <2>2, <2>3 DEF Stage, Updating
  <2> QED
    BY <2>1, <2>4, GotoOnward DEF Pc, Announced
<1>3. CASE Learn(c)
  <2>1. /\ Goto(c, "read_slot", reg[c]) /\ UNCHANGED <<servers, server_cnt, queue>>
        /\ ip_to_key' = IF s \in Known \/ Cardinality(Known) < MAX_SERVERS
                        THEN [ip_to_key EXCEPT ![s] = reg[c].key] ELSE ip_to_key
        /\ pc[c] = "learn"
    BY <1>3 DEF Learn, At
  <2>2. /\ s \in Server /\ ip_to_key[s] = NoKey /\ reg[c].key = server_cnt
        /\ shown.ip_to_key = ip_to_key /\ shown.servers = servers
        /\ shown.server_cnt = server_cnt /\ shown.queue = queue
    BY <1>1, <2>1, MapsFields DEF Finding
  <2>3. s \notin Known /\ Known = {t \in Server : shown.ip_to_key[t] # NoKey}
    BY <2>2 DEF Known
  <2>4. ip_to_key' = Learned(shown, s) /\ reg[c].key = Slot(shown, s)
    BY <2>1, <2>2, <2>3 DEF Learned, Slot
  <2>5. Placing(shown, Maps', "read_slot", reg[c])
    BY <2>1, <2>2, <2>4, MapsFields DEF Placing, Found
  <2>6. Stage(shown, Maps', "read_slot", reg[c])
    BY <1>1, <2>5 DEF Stage, Updating
  <2> QED
    BY <2>1, <2>6, GotoOnward DEF Pc, Announced
<1> QED
  BY <1>2, <1>3

LEMMA PlaceOnward ==
  ASSUME SmpTypeOK, Locals, shown \in MapsType, NEW c \in CPU,
         Stage(shown, Maps, pc[c], reg[c]), ReadSlot(c) \/ WriteSlot(c)
  PROVE  Onward(c)
<1> DEFINE s == reg[c].frame
           k == reg[c].key
<1>1. /\ pc[c] \in {"read_slot", "write_slot"} /\ reg[c] \in Registers
      /\ Placing(shown, Maps, pc[c], reg[c]) /\ reg[c].best = None
  BY DEF ReadSlot, WriteSlot, At, Stage, Announced, SmpTypeOK
<1>2. /\ s \in Server /\ ip_to_key = Learned(shown, s) /\ servers = shown.servers
      /\ server_cnt = shown.server_cnt /\ queue = shown.queue /\ k = Slot(shown, s)
  BY <1>1, MapsFields DEF Placing, Found
<1>3. CASE ReadSlot(c) /\ Occupied(servers, k)
  <2> DEFINE r == [reg[c] EXCEPT !.op = "credit", !.key = k]
  <2>1. Goto(c, "load", r) /\ Maps' = Maps
    BY <1>3 DEF ReadSlot, Update, lbvars, Maps
  <2>2. r.frame = s /\ r.key = k /\ r.op = "credit" /\ r.best = None
    BY <1>1 DEF Registers
  <2> HIDE DEF r
  <2>3. Crediting(shown, Maps', "load", r)
    BY <1>2, <1>3, <2>1, <2>2, MapsFields DEF Crediting, Found, Before
  <2>4. Stage(shown, Maps', "load", r)
    BY <2>2, <2>3 DEF Stage, Updating, Announced, Fetched
  <2> QED
    BY <2>1, <2>4, GotoOnward DEF Pc, Updating
<1>4. CASE ReadSlot(c) /\ ~Occupied(servers, k)
  <2>1. Goto(c, "write_slot", reg[c]) /\ Maps' = Maps
    BY <1>4 DEF ReadSlot, lbvars, Maps
  <2>2. Placing(shown, Maps', "write_slot", reg[c])
    BY <1>2, <1>4, <2>1, MapsFields DEF Placing, Found
  <2>3. Stage(shown, Maps', "write_slot", reg[c])
    BY <1>1, <2>2 DEF Stage, Updating
  <2> QED
    BY <2>1, <2>3, GotoOnward DEF Pc, Announced
<1>5. CASE WriteSlot(c)
  <2> DEFINE r == [reg[c] EXCEPT !.op = "count", !.key = NoKey]
  <2>1. /\ Goto(c, "load", r) /\ UNCHANGED <<ip_to_key, server_cnt, queue>>
        /\ pc[c] = "write_slot"
        /\ servers' = IF k \in Key
                      THEN [servers EXCEPT ![k] = [saddr |-> s, free_threads |-> MAX_THREADS]]
                      ELSE servers
    BY <1>5 DEF WriteSlot, Update, At
  <2>2. r.frame = s /\ r.op = "count"
    BY <1>1 DEF Registers
  <2> HIDE DEF r
  <2>3. servers' = Filled(shown, s) /\ ~Occupied(shown.servers, Slot(shown, s))
    BY <1>1, <1>2, <2>1 DEF Filled, Placing
  <2>4. Counting(shown, Maps', "load", r)
    BY <1>2, <2>1, <2>2, <2>3, MapsFields DEF Counting, Found, Before
  <2>5. Stage(shown, Maps', "load", r)
    BY <2>2, <2>4 DEF Stage, Updating, Announced, Fetched
  <2> QED
    BY <2>1, <2>5, GotoOnward DEF Pc, Updating
<1> QED
  BY <1>3, <1>4, <1>5

\* Reading leaves an update where it stands.
LEMMA FetchStage ==
  ASSUME NEW sh, NEW m, NEW p \in Updating, NEW q \in Updating, NEW r, NEW x,
         Stage(sh, m, p, r), p \in Before <=> q \in Before, r.op # "none",
         x.frame = r.frame, x.op = r.op, x.key = r.key, x.best = r.best,
         Fetched(m, q, x)
  PROVE  Stage(sh, m, q, x)
<1>1. p \notin Announced \cup {"select", "pop", "push", "send"}
      /\ q \notin Announced \cup {"select", "pop", "push", "send"}
  BY DEF Updating, Announced
<1>2. x.op = "count" => Counting(sh, m, q, x)
  BY DEF Stage, Counting, Found
<1>3. x.op = "credit" => Crediting(sh, m, q, x) /\ x.best = None
  BY DEF Stage, Crediting, Found
<1>4. x.op = "charge" => Charging(sh, m, q, x)
  BY DEF Stage, Charging, Base
<1> QED
  BY <1>1, <1>2, <1>3, <1>4 DEF Stage, Announced

LEMMA ReadOnward ==
  ASSUME SmpTypeOK, Locals, shown \in MapsType, NEW c \in CPU,
         Stage(shown, Maps, pc[c], reg[c]), Load(c) \/ CopyLoad(c)
  PROVE  Onward(c)
<1>1. reg[c] \in Registers /\ Maps' = Maps /\ reg[c].op # "none"
  BY DEF Load, CopyLoad, lbvars, Maps, SmpTypeOK, Locals, Sound, At, Updating
<1>2. CASE Load(c)
  <2> DEFINE r == [reg[c] EXCEPT !.tmp = IF reg[c].op = "count" THEN server_cnt
                                         ELSE servers[reg[c].key].free_threads]
  <2>1. Goto(c, "store", r) /\ pc[c] = "load"
    BY <1>2 DEF Load, At
  <2>2. /\ r.frame = reg[c].frame /\ r.op = reg[c].op /\ r.key = reg[c].key
        /\ r.best = reg[c].best
        /\ r.tmp = IF r.op = "count" THEN server_cnt ELSE servers[r.key].free_threads
    BY <1>1 DEF Registers
  <2> HIDE DEF r
  <2>3. Fetched(Maps, "store", r)
    BY <2>2, MapsFields DEF Fetched
  <2>4. Stage(shown, Maps, "store", r)
    BY <1>1, <2>1, <2>2, <2>3, FetchStage DEF Updating, Before
  <2> QED
    BY <1>1, <2>1, <2>4, GotoOnward DEF Pc, Updating
<1>3. CASE CopyLoad(c)
  <2> DEFINE r == IF reg[c].op = "count" THEN [reg[c] EXCEPT !.tmp = server_cnt]
                  ELSE [reg[c] EXCEPT !.tmp = 0, !.elem = servers[reg[c].key]]
  <2>1. Goto(c, "copy_store", r) /\ pc[c] = "copy_load"
    BY <1>3 DEF CopyLoad, At
  <2>2. /\ r.frame = reg[c].frame /\ r.op = reg[c].op /\ r.key = reg[c].key
        /\ r.best = reg[c].best
        /\ IF r.op = "count" THEN r.tmp = server_cnt ELSE r.elem = servers[r.key]
    BY <1>1 DEF Registers
  <2> HIDE DEF r
  <2>3. Fetched(Maps, "copy_store", r)
    BY <2>2, MapsFields DEF Fetched
  <2>4. Stage(shown, Maps, "copy_store", r)
    BY <1>1, <2>1, <2>2, <2>3, FetchStage DEF Updating, Before
  <2> QED
    BY <1>1, <2>1, <2>4, GotoOnward DEF Pc, Updating
<1> QED
  BY <1>2, <1>3

LEMMA StoreOnward ==
  ASSUME SmpTypeOK, Locals, shown \in MapsType, NEW c \in CPU,
         Stage(shown, Maps, pc[c], reg[c]), Store(c)
  PROVE  Onward(c)
<1> DEFINE k == reg[c].key
           old == [servers EXCEPT ![k].free_threads = reg[c].tmp]
<1>1. /\ pc[c] = "store" /\ Goto(c, "copy_load", reg[c]) /\ UNCHANGED <<ip_to_key, queue>>
      /\ server_cnt' = IF reg[c].op = "count" THEN (reg[c].tmp + 1) % U16 ELSE server_cnt
  BY DEF Store, At
<1>2. /\ reg[c].op \in {"count", "credit", "charge"} /\ servers \in [Key -> dest_info]
      /\ reg[c].op # "count" => k \in Key
  BY <1>1 DEF SmpTypeOK, Locals, Sound, Updating, Registers, Op, Occupied
<1>3. Fetched(Maps, "store", reg[c])
  BY <1>1 DEF Stage, Updating
<1>4. ASSUME reg[c].op # "count" PROVE old = servers
  BY <1>2, <1>3, <1>4, MapsFields DEF Fetched, dest_info
<1>5. Stage(shown, Maps', "copy_load", reg[c])
  <2>1. CASE reg[c].op = "count"
    <3>1. servers' = servers /\ server_cnt' = (server_cnt + 1) % U16
      BY <1>1, <1>3, <2>1, MapsFields DEF Store, Fetched
    <3>2. Counting(shown, Maps, "store", reg[c])
      BY <1>1, <2>1 DEF Stage, Updating
    <3>3. Counting(shown, Maps', "copy_load", reg[c])
      BY <1>1, <3>1, <3>2, MapsFields DEF Counting, Found, Before
    <3> QED
      BY <2>1, <3>3 DEF Stage, Updating, Announced, Fetched
  <2>2. CASE reg[c].op = "credit"
    <3>1. servers' = ReturnThread(old, k)
      BY <2>2 DEF Store
    <3>2. servers' = ReturnThread(servers, k)
      BY <1>4, <2>2, <3>1
    <3>3. Crediting(shown, Maps, "store", reg[c]) /\ reg[c].best = None
      BY <1>1, <2>2 DEF Stage, Updating
    <3>4. Crediting(shown, Maps', "copy_load", reg[c])
      BY <1>1, <2>2, <3>2, <3>3, MapsFields DEF Crediting, Found, Before, Credited
    <3> QED
      BY <2>2, <3>3, <3>4 DEF Stage, Updating, Announced, Fetched
  <2>3. CASE reg[c].op = "charge"
    <3>1. servers' = TakeThread(old, k)
      BY <2>3 DEF Store
    <3>2. servers' = TakeThread(servers, k)
      BY <1>4, <2>3, <3>1
    <3>3. Charging(shown, Maps, "store", reg[c])
      BY <1>1, <2>3 DEF Stage, Updating
    <3>4. Charging(shown, Maps', "copy_load", reg[c])
      BY <1>1, <2>3, <3>2, <3>3, MapsFields DEF Charging, Before
    <3> QED
      BY <2>3, <3>4 DEF Stage, Updating, Announced, Fetched
  <2> QED
    BY <1>2, <2>1, <2>2, <2>3
<1> QED
  BY <1>1, <1>5, GotoOnward DEF Pc, Updating

\* The copy writes what is there already.
LEMMA CopyStoreOnward ==
  ASSUME SmpTypeOK, Locals, shown \in MapsType, NEW c \in CPU,
         Stage(shown, Maps, pc[c], reg[c]), CopyStore(c)
  PROVE  Onward(c)
<1> DEFINE k == reg[c].key
           r == [reg[c] EXCEPT !.elem = Unused]
<1>1. /\ pc[c] = "copy_store" /\ UNCHANGED <<ip_to_key, queue>>
      /\ server_cnt' = IF reg[c].op = "count" THEN reg[c].tmp ELSE server_cnt
      /\ servers' = IF reg[c].op = "count" THEN servers
                    ELSE [servers EXCEPT ![k] = reg[c].elem]
  BY DEF CopyStore, At
<1>2. /\ reg[c].op \in {"count", "credit", "charge"} /\ servers \in [Key -> dest_info]
      /\ reg[c].op # "count" => k \in Key
      /\ reg[c] \in Registers
  BY <1>1 DEF SmpTypeOK, Locals, Sound, Updating, Registers, Op, Occupied
<1>3. Fetched(Maps, "copy_store", reg[c])
  BY <1>1 DEF Stage, Updating
<1>4. Maps' = Maps
  <2>1. server_cnt' = server_cnt
    BY <1>1, <1>3, MapsFields DEF Fetched
  <2>2. servers' = servers
    BY <1>1, <1>2, <1>3, MapsFields DEF Fetched
  <2> QED
    BY <1>1, <2>1, <2>2 DEF Maps
<1>5. r.frame = reg[c].frame /\ r.key = k /\ r.best = reg[c].best
  BY <1>2 DEF Registers
<1> HIDE DEF r
<1>6. CASE reg[c].op = "count"
  <2>1. Counting(shown, Maps', "copy_store", reg[c]) /\ Return(c)
    BY <1>1, <1>4, <1>6 DEF Stage, Updating, CopyStore
  <2>2. shown' = Maps' => Atomic!LbNext
    BY <2>1, MapsFields, EndRegister DEF Counting, Found, Before
  <2> QED
    BY <2>1, <2>2, ReturnOnward
<1>7. CASE reg[c].op = "credit"
  <2>1. Goto(c, "peek", r)
    BY <1>7 DEF CopyStore, r
  <2>2. Crediting(shown, Maps', "copy_store", reg[c]) /\ reg[c].best = None
    BY <1>1, <1>4, <1>7 DEF Stage, Updating
  <2>3. Matching(shown, Maps', "peek", r)
    BY <1>5, <2>2 DEF Crediting, Matching, Found, Before
  <2>4. Stage(shown, Maps', "peek", r)
    BY <1>5, <2>2, <2>3 DEF Stage, Updating
  <2> QED
    BY <2>1, <2>4, GotoOnward DEF Pc, Announced
<1>8. CASE reg[c].op = "charge"
  <2>1. Goto(c, "send", r)
    BY <1>8 DEF CopyStore, r
  <2>2. Charging(shown, Maps', "copy_store", reg[c])
    BY <1>1, <1>4, <1>8 DEF Stage, Updating
  <2>3. Charging(shown, Maps', "send", r)
    BY <1>5, <2>2 DEF Charging, Base, Before
  <2>4. Stage(shown, Maps', "send", r)
    BY <2>3 DEF Stage, Updating, Announced
  <2> QED
    BY <2>1, <2>4, GotoOnward DEF Pc
<1> QED
  BY <1>2, <1>6, <1>7, <1>8

LEMMA LookedNext ==
  /\ \A srv : \A n \in {0, 1, 2} : Looked(srv, n + 1) = Visit(srv, Looked(srv, n), n)
  /\ \A srv : Looked(srv, 3).selected_key = get_available_backend(srv)
BY DEF Looked, None, get_available_backend

LEMMA CreditedType ==
  ASSUME NEW sh \in MapsType, NEW s, Slot(sh, s) \in Key
  PROVE  Credited(sh, s) \in [Key -> dest_info]
<1>1. sh.servers \in [Key -> dest_info]
  BY DEF MapsType
<1>2. \A n \in Cnt : (n + 1) % U16 \in Cnt /\ MAX_THREADS \in Cnt
  BY CntFacts
<1> QED
  BY <1>1, <1>2 DEF Credited, ReturnThread, WithFree, dest_info

LEMMA PeekOnward ==
  ASSUME SmpTypeOK, Locals, shown \in MapsType, NEW c \in CPU,
         Stage(shown, Maps, pc[c], reg[c]), Peek(c)
  PROVE  Onward(c)
<1> DEFINE s == reg[c].frame
<1>1. /\ pc[c] = "peek" /\ Maps' = Maps
      /\ Matching(shown, Maps, "peek", reg[c]) /\ reg[c].best = None /\ reg[c].slot = 0
  BY DEF Peek, At, lbvars, Maps, Stage, Locals, Sound, Announced
<1>2. CASE queue = << >>
  <2>1. Return(c)
    BY <1>2 DEF Peek
  <2>2. shown' = Maps' => Atomic!LbNext
    BY <1>1, <1>2, MapsFields, EndComplete DEF Matching, Found
  <2> QED
    BY <2>1, <2>2, ReturnOnward
<1>3. CASE queue # << >>
  <2>1. Goto(c, "select", reg[c])
    BY <1>3 DEF Peek
  <2>2. Matching(shown, Maps', "select", reg[c]) /\ s \in Server
    BY <1>1, <1>3, MapsFields DEF Matching, Found
  <2>3. reg[c].best = Looked(Maps'.servers, reg[c].slot)
    BY <1>1 DEF Looked
  <2>4. Stage(shown, Maps', "select", reg[c])
    BY <2>2, <2>3 DEF Stage, Updating, Announced
  <2> QED
    BY <2>1, <2>4, GotoOnward DEF Pc
<1> QED
  BY <1>2, <1>3

LEMMA SelectOnward ==
  ASSUME SmpTypeOK, Locals, shown \in MapsType, NEW c \in CPU,
         Stage(shown, Maps, pc[c], reg[c]), Select(c)
  PROVE  Onward(c)
<1> DEFINE best == Visit(servers, reg[c].best, reg[c].slot)
           looked == [reg[c] EXCEPT !.best = best, !.slot = @ + 1]
           k == best.selected_key
           charged == [looked EXCEPT !.op = "charge", !.key = k, !.value = reg[c].frame]
           u == reg[c].frame
<1>1. /\ pc[c] = "select" /\ Maps' = Maps /\ reg[c] \in Registers
      /\ reg[c].best = Looked(servers, reg[c].slot)
      /\ u \in Server => Matching(shown, Maps, "select", reg[c])
      /\ u \notin Server => shown = Maps /\ u \in Request
      /\ reg[c].slot \in {0, 1, 2}
  <2>1. pc[c] = "select" /\ Maps' = Maps /\ reg[c] \in Registers
    BY DEF Select, At, lbvars, Maps, SmpTypeOK
  <2>2. u \in Server \cup Request /\ reg[c].slot < 3 /\ reg[c].slot \in 0 .. 3
    BY <2>1 DEF Locals, Sound, MAX_SERVERS, Registers
  <2> QED
    BY <2>1, <2>2, MapsFields DEF Stage
<1>2. best = Looked(servers, reg[c].slot + 1)
  BY <1>1, LookedNext
<1>3. /\ looked.frame = u /\ looked.best = best /\ looked.slot = reg[c].slot + 1
      /\ charged.frame = u /\ charged.op = "charge" /\ charged.key = k
  BY <1>1 DEF Registers
<1>4. /\ reg[c].slot < 2 => Goto(c, "select", looked)
      /\ reg[c].slot = 2 /\ u \in Server /\ k = NoKey => Return(c)
      /\ reg[c].slot = 2 /\ u \in Server /\ k # NoKey => Goto(c, "pop", looked)
      /\ reg[c].slot = 2 /\ u \notin Server /\ k = NoKey => Goto(c, "push", looked)
      /\ reg[c].slot = 2 /\ u \notin Server /\ k # NoKey => Goto(c, "load", charged)
  BY DEF Select, MAX_SERVERS
<1>5. reg[c].slot = 2 => k = get_available_backend(servers)
  BY <1>2, LookedNext
<1>6. u \in Server => \A p \in {"select", "pop"} : Matching(shown, Maps', p, looked)
  BY <1>1, <1>3 DEF Matching, Found
<1> HIDE DEF best, looked, k, charged
<1>7. CASE reg[c].slot < 2
  <2>1. Stage(shown, Maps', "select", looked)
    BY <1>1, <1>2, <1>3, <1>6, MapsFields DEF Stage, Updating, Announced
  <2> QED
    BY <1>4, <1>7, <2>1, GotoOnward DEF Pc
<1>8. CASE reg[c].slot = 2 /\ u \in Server /\ k = NoKey
  <2>1. shown' = Maps' => Atomic!LbNext
    BY <1>1, <1>5, <1>8, MapsFields, EndUnmatched DEF Matching, Found
  <2> QED
    BY <1>4, <1>8, <2>1, ReturnOnward
<1>9. CASE reg[c].slot = 2 /\ u \in Server /\ k # NoKey
  <2>1. Stage(shown, Maps', "pop", looked)
    BY <1>1, <1>3, <1>5, <1>6, <1>9, MapsFields DEF Stage, Updating, Announced, k
  <2> QED
    BY <1>4, <1>9, <2>1, GotoOnward DEF Pc
<1>10. CASE reg[c].slot = 2 /\ u \notin Server /\ k = NoKey
  <2>1. Stage(shown, Maps', "push", looked)
    BY <1>1, <1>3, <1>5, <1>10, MapsFields DEF Stage, Updating, Announced
  <2> QED
    BY <1>4, <1>10, <2>1, GotoOnward DEF Pc
<1>11. CASE reg[c].slot = 2 /\ u \notin Server /\ k # NoKey
  <2>1. Charging(shown, Maps', "load", charged)
    BY <1>1, <1>3, <1>5, <1>11, MapsFields DEF Charging, Base, Before
  <2>2. Stage(shown, Maps', "load", charged)
    BY <1>3, <2>1 DEF Stage, Updating, Announced, Fetched
  <2> QED
    BY <1>4, <1>11, <2>2, GotoOnward DEF Pc, Updating
<1> QED
  BY <1>1, <1>7, <1>8, <1>9, <1>10, <1>11

LEMMA PopOnward ==
  ASSUME SmpTypeOK, Locals, shown \in MapsType, NEW c \in CPU,
         Stage(shown, Maps, pc[c], reg[c]), Pop(c)
  PROVE  Onward(c)
<1> DEFINE s == reg[c].frame
           k == reg[c].best.selected_key
           r == [reg[c] EXCEPT !.op = "charge",
                   !.value = IF queue = << >> THEN NoRequest ELSE Head(queue), !.key = k]
<1>1. /\ pc[c] = "pop" /\ reg[c] \in Registers /\ s \in Server
      /\ Matching(shown, Maps, "pop", reg[c]) /\ k = get_available_backend(servers)
      /\ k \in Key /\ servers[k].saddr \in Server
      /\ UNCHANGED <<ip_to_key, servers, server_cnt>>
  <2>1. pc[c] = "pop" /\ UNCHANGED <<ip_to_key, servers, server_cnt>>
    BY DEF Pop, At
  <2>2. s \in Server /\ Occupied(servers, k) /\ reg[c] \in Registers
    BY <2>1 DEF Locals, Sound, SmpTypeOK
  <2>3. k \in Key /\ servers[k].saddr \in Server
    BY <2>2 DEF Occupied, SmpTypeOK, dest_info
  <2> QED
    BY <2>1, <2>2, <2>3, MapsFields DEF Stage
<1>2. /\ servers = Credited(shown, s) /\ Occupied(shown.servers, Slot(shown, s))
      /\ ip_to_key = Learned(shown, s) /\ server_cnt = shown.server_cnt
      /\ queue = shown.queue /\ queue # << >>
  BY <1>1, MapsFields DEF Matching, Found
<1>3. queue' = Tail(shown.queue)
  BY <1>2 DEF Pop
<1>4. PICK grown \in TailGrows : IF grown THEN Goto(c, "load", r) ELSE Return(c)
  BY DEF Pop
<1>5. r.frame = s /\ r.op = "charge" /\ r.key = k
  BY <1>1 DEF Registers
<1> HIDE DEF r
<1>6. grown \in BOOLEAN
  BY TailAssumption
<1>7. CASE grown
  <2>1. grown = TRUE
    BY <1>6, <1>7
  <2>2. Charging(shown, Maps', "load", r)
    BY <1>1, <1>2, <1>3, <1>5, <2>1, MapsFields DEF Charging, Base, Before
  <2>3. Stage(shown, Maps', "load", r)
    BY <1>5, <2>2 DEF Stage, Updating, Announced, Fetched
  <2> QED
    BY <1>4, <1>7, <2>3, GotoOnward DEF Pc, Updating
<1>8. CASE ~grown
  <2>1. shown.queue \in Seq(Request)
    BY DEF MapsType
  <2>2. shown' = Maps' => Atomic!LbNext
    BY <1>1, <1>2, <1>3, <1>8, <2>1, EndDispatch
  <2> QED
    BY <1>4, <1>8, <2>2, ReturnOnward
<1> QED
  BY <1>7, <1>8

LEMMA PushOnward ==
  ASSUME SmpTypeOK, Locals, shown \in MapsType, NEW c \in CPU,
         Stage(shown, Maps, pc[c], reg[c]), Push(c)
  PROVE  Onward(c)
<1> DEFINE r == reg[c].frame
<1>1. pc[c] = "push" /\ r \in Request /\ r \notin Server
  BY FrameAssumption DEF Push, At, Locals, Sound
<1>2. shown = Maps /\ get_available_backend(servers) = NoKey
  BY <1>1, MapsFields DEF Stage
<1>3. /\ Return(c) /\ UNCHANGED <<ip_to_key, servers, server_cnt>>
      /\ queue' = IF Len(queue) < QUEUE_MAX THEN Append(queue, r) ELSE queue
  BY DEF Push, enqueue
<1>4. shown' = Maps' => Atomic!LbNext
  BY <1>1, <1>2, <1>3, MapsFields, EndEnqueue
<1> QED
  BY <1>3, <1>4, ReturnOnward

LEMMA SendOnward ==
  ASSUME SmpTypeOK, Locals, shown \in MapsType, NEW c \in CPU,
         Stage(shown, Maps, pc[c], reg[c]), Send(c)
  PROVE  Onward(c)
<1> DEFINE u == reg[c].frame
           k == reg[c].key
<1>1. pc[c] = "send" /\ Return(c) /\ Maps' = Maps /\ k \in Key
  BY DEF Send, At, lbvars, Maps, Locals, Sound, Occupied
<1>2. Charging(shown, Maps', "send", reg[c])
  BY <1>1 DEF Stage
<1>3. ASSUME NEW srv \in [Key -> dest_info], k = get_available_backend(srv)
      PROVE  srv[k].saddr \in Server
  <2>1. Occupied(srv, k)
    BY <1>1, <1>3, CntFacts, BackendSelection
  <2> QED
    BY <2>1 DEF Occupied, dest_info
<1>4. shown.servers \in [Key -> dest_info] /\ shown.queue \in Seq(Request)
  BY DEF MapsType
<1>5. CASE u \in Server
  <2>1. Slot(shown, u) \in Key
    BY <1>2, <1>5 DEF Charging, Occupied
  <2>2. k = get_available_backend(Credited(shown, u))
    BY <1>2, <1>5 DEF Charging, Base
  <2>3. Credited(shown, u)[k].saddr \in Server
    BY <1>3, <2>1, <2>2, CreditedType
  <2>4. /\ servers' = TakeThread(Credited(shown, u), k) /\ server_cnt' = shown.server_cnt
        /\ Occupied(shown.servers, Slot(shown, u)) /\ ip_to_key' = Learned(shown, u)
        /\ shown.queue # << >> /\ queue' = Tail(shown.queue) /\ TRUE \in TailGrows
    BY <1>2, <1>5, MapsFields DEF Charging, Base, Before
  <2>5. shown' = Maps' => Atomic!LbNext
    BY <1>1, <1>4, <1>5, <2>2, <2>3, <2>4, EndDispatch
  <2> QED
    BY <1>1, <2>5, ReturnOnward
<1>6. CASE u \notin Server
  <2>1. /\ k = get_available_backend(shown.servers) /\ u \in Request
        /\ servers' = TakeThread(shown.servers, k) /\ server_cnt' = shown.server_cnt
        /\ ip_to_key' = shown.ip_to_key /\ queue' = shown.queue
    BY <1>2, <1>6, MapsFields DEF Charging, Base, Before
  <2>2. shown.servers[k].saddr \in Server
    BY <1>3, <1>4, <2>1
  <2>3. shown' = Maps' => Atomic!LbNext
    BY <1>1, <2>1, <2>2, EndForward
  <2> QED
    BY <1>1, <2>3, ReturnOnward
<1> QED
  BY <1>5, <1>6

LEMMA StepOnward ==
  ASSUME SmpTypeOK, Locals, shown \in MapsType, NEW c \in CPU,
         Stage(shown, Maps, pc[c], reg[c]), Step(c)
  PROVE  Onward(c)
BY FindOnward, PlaceOnward, ReadOnward, StoreOnward, CopyStoreOnward, PeekOnward,
   SelectOnward, PopOnward, PushOnward, SendOnward DEF Step

\* An invocation that starts while all CPUs are idle.
LEMMA LookupOnward ==
  ASSUME SmpTypeOK, shown = Maps, NEW c \in CPU,
         \/ \E s \in Server : LookupKey(c, s)
         \/ \E r \in Request : LookupRequest(c, r)
  PROVE  Stage(shown, Maps', pc'[c], reg'[c])
<1>1. Maps' = Maps
  BY DEF LookupKey, LookupRequest, lbvars, Maps
<1>2. ASSUME NEW s \in Server, LookupKey(c, s) PROVE Stage(shown, Maps', pc'[c], reg'[c])
  <2> DEFINE p == IF ip_to_key[s] = NoKey THEN "read_cnt" ELSE "read_slot"
             r == [Blank EXCEPT !.frame = s, !.key = ip_to_key[s]]
  <2>1. pc'[c] = p /\ reg'[c] = r
    <3>1. Goto(c, p, r)
      BY <1>2 DEF LookupKey
    <3> HIDE DEF p, r
    <3> QED
      BY <3>1, GotoView
  <2>2. r.frame = s /\ r.key = ip_to_key[s] /\ r.best = None
    BY DEF Blank, None
  <2> HIDE DEF r
  <2>3. CASE ip_to_key[s] = NoKey
    <3>1. Finding(shown, Maps', "read_cnt", r)
      BY <1>1, <2>2, <2>3, MapsFields DEF Finding
    <3> QED
      BY <2>1, <2>2, <2>3, <3>1 DEF Stage, Updating
  <2>4. CASE ip_to_key[s] # NoKey
    <3>1. Placing(shown, Maps', "read_slot", r)
      BY <1>1, <2>2, <2>4, MapsFields DEF Placing, Found, Learned, Slot
    <3> QED
      BY <2>1, <2>2, <2>4, <3>1 DEF Stage, Updating
  <2> QED
    BY <2>3, <2>4
<1>3. ASSUME NEW v \in Request, LookupRequest(c, v)
      PROVE  Stage(shown, Maps', pc'[c], reg'[c])
  <2> DEFINE r == [Blank EXCEPT !.frame = v]
  <2>1. pc'[c] = "select" /\ reg'[c] = r
    BY <1>3, GotoView DEF LookupRequest
  <2>2. r.frame = v /\ r.best = None /\ r.slot = 0 /\ v \notin Server
    BY FrameAssumption DEF Blank, None
  <2>3. r.best = Looked(Maps'.servers, r.slot)
    BY <2>2 DEF Looked
  <2> HIDE DEF r
  <2> QED
    BY <1>1, <2>1, <2>2, <2>3 DEF Stage, Updating, Announced
<1> QED
  BY <1>2, <1>3

-----------------------------------------------------------------------------
(* Every step keeps Undisturbed, and one that shows new maps without an    *)
(* overlap is an action of LoadBalancer.                                   *)

LEMMA MapsTyped == SmpTypeOK => Maps \in MapsType
BY DEF SmpTypeOK, Maps, MapsType

\* Two CPUs at work are an overlap.
LEMMA Pair ==
  ASSUME NEW c, NEW d, c # d
  PROVE  Cardinality({c, d}) > 1
<1>1. Cardinality({d}) = 1 /\ IsFiniteSet({d})
  BY FS_Singleton
<1>2. Cardinality({d} \cup {c}) = 2
  BY <1>1, FS_AddElement
<1>3. {d} \cup {c} = {c, d}
  OBVIOUS
<1> QED
  BY <1>2, <1>3

Kept == Undisturbed' /\ (~overlapped => Atomic!LbNext \/ shown' = shown)

\* Nothing happens on the CPUs.
LEMMA StillKept ==
  ASSUME Undisturbed, UNCHANGED <<pc, reg, ip_to_key, servers, server_cnt, queue>>,
         SmpTypeOK,
         \/ UNCHANGED <<shown, overlapped>>
         \/ /\ shown' = IF Working' = {} THEN Maps' ELSE shown
            /\ overlapped' = \/ Working # {} /\ overlapped
                             \/ Cardinality(Working') > 1
  PROVE  Kept
<1>1. Working' = Working /\ Maps' = Maps
  BY DEF Working, At, Maps
<1>2. shown' = shown
  BY <1>1 DEF Undisturbed
<1>3. overlapped' \in BOOLEAN
  BY DEF Undisturbed
<1>4. overlapped' \/ ~overlapped \/ Working = {}
  OBVIOUS
<1> QED
  BY <1>1, <1>2, <1>3, <1>4 DEF Kept, Undisturbed

\* An invocation starts on an idle CPU.
LEMMA LookupStarts ==
  ASSUME SmpTypeOK, NEW c \in CPU,
         \/ \E s \in Server : LookupKey(c, s)
         \/ \E r \in Request : LookupRequest(c, r)
  PROVE  Working' = Working \cup {c} /\ c \notin Working
<1>1. pc \in [CPU -> Pc]
  BY DEF SmpTypeOK
<1>2. ASSUME NEW s \in Server, LookupKey(c, s)
      PROVE  /\ pc[c] = "idle" /\ pc'[c] # "idle"
             /\ \A d \in CPU \ {c} : pc'[d] = pc[d]
  BY <1>1, <1>2 DEF LookupKey, At, Goto
<1>3. ASSUME NEW r \in Request, LookupRequest(c, r)
      PROVE  /\ pc[c] = "idle" /\ pc'[c] # "idle"
             /\ \A d \in CPU \ {c} : pc'[d] = pc[d]
  BY <1>1, <1>3 DEF LookupRequest, At, Goto
<1> QED
  BY <1>2, <1>3 DEF Working, At

\* It overlaps with another one unless all CPUs are idle.
LEMMA StartsAlone ==
  ASSUME Undisturbed, NEW c \in CPU, Working' = Working \cup {c}, c \notin Working,
         overlapped' = \/ Working # {} /\ overlapped
                       \/ Cardinality(Working') > 1,
         ~overlapped'
  PROVE  Working = {}
<1>1. SUFFICES ASSUME NEW d \in Working PROVE FALSE
  OBVIOUS
<1>2. Working = {d}
  BY <1>1 DEF Undisturbed
<1>3. Working' = {c, d} /\ c # d
  BY <1>1, <1>2
<1> QED
  BY <1>3, Pair

\* An invocation starts.
LEMMA LookupKept ==
  ASSUME Undisturbed, SmpTypeOK, NEW c \in CPU,
         \/ \E s \in Server : LookupKey(c, s)
         \/ \E r \in Request : LookupRequest(c, r),
         shown' = IF Working' = {} THEN Maps' ELSE shown,
         overlapped' = \/ Working # {} /\ overlapped
                       \/ Cardinality(Working') > 1
  PROVE  Kept
<1>1. Working' = Working \cup {c} /\ c \notin Working
  BY LookupStarts
<1>2. shown' = shown /\ overlapped' \in BOOLEAN
  BY <1>1
<1>3. ASSUME ~overlapped'
      PROVE  Working' = {c} /\ Stage(shown', Maps', pc'[c], reg'[c])
  <2>1. Working = {}
    BY <1>1, <1>3, StartsAlone
  <2>2. Stage(shown, Maps', pc'[c], reg'[c])
    BY <2>1, LookupOnward DEF Undisturbed
  <2> QED
    BY <1>1, <1>2, <2>1, <2>2
<1> QED
  BY <1>1, <1>2, <1>3 DEF Kept, Undisturbed

\* A step moves its own CPU only.
LEMMA StepLocal ==
  ASSUME SmpTypeOK, Locals, NEW c \in CPU, Step(c)
  PROVE  \A d \in CPU \ {c} : pc'[d] = pc[d]
<1>1. CASE ReadCnt(c) \/ Learn(c) \/ ReadSlot(c) \/ WriteSlot(c) \/ Load(c) \/ CopyLoad(c)
  BY <1>1 DEF ReadCnt, Learn, ReadSlot, WriteSlot, Load, CopyLoad, Update, Goto, SmpTypeOK
<1>2. CASE Store(c)
  BY <1>2 DEF Store, Goto, SmpTypeOK
<1>3. CASE CopyStore(c)
  <2>1. reg[c].op \in {"count", "credit", "charge"}
    BY <1>3 DEF CopyStore, At, SmpTypeOK, Locals, Sound, Updating, Registers, Op
  <2> QED
    BY <1>3, <2>1 DEF CopyStore, Return, Goto, SmpTypeOK
<1>4. CASE Peek(c) \/ Select(c) \/ Pop(c) \/ Push(c) \/ Send(c)
  BY <1>4 DEF Peek, Select, Pop, Push, Send, Return, Goto, SmpTypeOK
<1> QED
  BY <1>1, <1>2, <1>3, <1>4 DEF Step

\* An invocation goes on or ends.
LEMMA StepKept ==
  ASSUME Undisturbed, SmpTypeOK, Locals, SmpTypeOK', NEW c \in CPU, Step(c),
         shown' = IF Working' = {} THEN Maps' ELSE shown,
         overlapped' = \/ Working # {} /\ overlapped
                       \/ Cardinality(Working') > 1
  PROVE  Kept
<1>1. c \in Working
  BY DEF Step, ReadCnt, Learn, ReadSlot, WriteSlot, Load, Store, CopyLoad, CopyStore,
         Peek, Select, Pop, Push, Send, At, Working
<1>2. \A d \in CPU \ {c} : pc'[d] = pc[d]
  BY StepLocal
<1>3. shown' \in MapsType /\ overlapped' \in BOOLEAN
  <2>1. Maps' \in MapsType
    BY DEF SmpTypeOK, Maps, MapsType
  <2> QED
    BY <2>1 DEF Undisturbed
<1>4. CASE overlapped
  BY <1>1, <1>3, <1>4 DEF Kept, Undisturbed
<1>5. CASE ~overlapped
  <2>1. Working = {c} /\ Stage(shown, Maps, pc[c], reg[c]) /\ shown \in MapsType
    BY <1>1, <1>5 DEF Undisturbed
  <2>2. Onward(c)
    BY <2>1, StepOnward
  <2>3. CASE pc'[c] = "idle"
    <3>1. Working' = {}
      BY <1>2, <2>1, <2>3 DEF Working, At
    <3> QED
      BY <1>3, <2>2, <2>3, <3>1 DEF Kept, Undisturbed, Onward
  <2>4. CASE pc'[c] # "idle"
    <3>1. Working' = {c}
      BY <1>2, <2>1, <2>4 DEF Working, At
    <3> QED
      BY <1>3, <2>2, <2>4, <3>1 DEF Kept, Undisturbed, Onward
  <2> QED
    BY <2>3, <2>4
<1> QED
  BY <1>4, <1>5

LEMMA AtomicKept ==
  ASSUME Undisturbed, SmpTypeOK, Locals, [AtomicNext]_<<vars, shown, overlapped>>
  PROVE  SmpTypeOK' /\ Locals' /\ Kept
<1>1. [Next]_vars
  BY DEF AtomicNext
<1>2. SmpTypeOK' /\ Locals'
  BY <1>1, SmpTypes
<1>3. CASE UNCHANGED <<vars, shown, overlapped>>
  BY <1>2, <1>3, StillKept DEF vars, lbvars
<1>4. CASE AtomicNext
  <2>1. /\ shown' = IF Working' = {} THEN Maps' ELSE shown
        /\ overlapped' = \/ Working # {} /\ overlapped
                         \/ Cardinality(Working') > 1
    BY <1>4 DEF AtomicNext
  <2>2. CASE Idle \/ \E s \in Server : Finish(s)
    <3>1. UNCHANGED <<pc, reg, ip_to_key, servers, server_cnt, queue>>
      BY <2>2 DEF Idle, Finish, vars, lbvars
    <3> QED
      BY <1>2, <2>1, <3>1, StillKept
  <2> QED
    BY <1>2, <1>4, <2>1, <2>2, LookupKept, StepKept DEF AtomicNext, Next
<1> QED
  BY <1>2, <1>3, <1>4

LEMMA UndisturbedStart ==
  ASSUME AtomicInit
  PROVE  Undisturbed /\ SmpTypeOK /\ Locals
<1>1. SmpTypeOK /\ Locals /\ shown = Maps /\ overlapped = FALSE
  BY SmpStart DEF AtomicInit
<1>2. Working = {}
  BY DEF AtomicInit, Init, Working, At
<1> QED
  BY <1>1, <1>2, MapsTyped DEF Undisturbed

(* Whatever the other CPUs did before and will do later, an invocation of  *)
(* lb.c that runs alone changes the maps as one action of LoadBalancer     *)
(* does: the atomic model loses nothing that the separate loads, stores    *)
(* and helper calls could do on a CPU that is not disturbed.               *)
THEOREM SmpImplementsLoadBalancer == AtomicSpec => ImplementsLoadBalancer
<1> DEFINE Inv == Undisturbed /\ SmpTypeOK /\ Locals
<1>1. AtomicInit => Inv /\ Atomic!LbInit
  <2> SUFFICES ASSUME AtomicInit PROVE Inv /\ Atomic!LbInit
    OBVIOUS
  <2>1. Inv
    BY UndisturbedStart
  <2>2. shown = Maps
    BY DEF AtomicInit
  <2>3. Atomic!LbInit
    BY <2>2, MapsFields, SameOperators DEF AtomicInit, Init, LbInit, Atomic!LbInit
  <2> QED
    BY <2>1, <2>3
<1>2. Inv /\ [AtomicNext]_<<vars, shown, overlapped>> =>
        Inv' /\ [overlapped \/ Atomic!LbNext]_shown
  BY AtomicKept DEF Kept
<1> QED
  BY <1>1, <1>2, PTL DEF AtomicSpec, ImplementsLoadBalancer

-----------------------------------------------------------------------------
(* Without overlaps the books of lb.c are right.  They are told from the   *)
(* maps sh that were last shown, the hosts H whose ping is being handled,  *)
(* the pings pi that are under way and the jobs ru that the workers have.  *)

KnownIn(sh) == {s \in Server : sh.ip_to_key[s] # NoKey}

\* Keys and slots are inverse to each other and were handed out one by one.
Registry(sh) ==
  /\ \A s \in KnownIn(sh) : /\ sh.ip_to_key[s] \in Key
                            /\ sh.servers[sh.ip_to_key[s]].saddr = s
  /\ \A k \in Key : Occupied(sh.servers, k) => sh.ip_to_key[sh.servers[k].saddr] = k
  /\ sh.server_cnt = Cardinality(KnownIn(sh))
  /\ \A k \in Key : Occupied(sh.servers, k) <=> k < sh.server_cnt

\* A host that is not known has its 'S' to send and no job; a known one has
\* every thread free, at work or about to be credited.
Books(sh, H, pi, ru) ==
  \A s \in Server :
    IF sh.ip_to_key[s] = NoKey
    THEN ru[s] = 0 /\ pi[s] + (IF s \in H THEN 1 ELSE 0) = 1
    ELSE sh.servers[sh.ip_to_key[s]].free_threads + ru[s] + pi[s]
           + (IF s \in H THEN 1 ELSE 0) = MAX_THREADS

\* Maps with right books.
Sheet(sh, H, pi, ru) ==
  /\ sh \in MapsType /\ H \in SUBSET Server
  /\ pi \in [Server -> Nat] /\ ru \in [Server -> Nat]
  /\ Registry(sh) /\ Books(sh, H, pi, ru)

\* Jobs wait only when all threads of all hosts are taken.
Waits(sh) ==
  sh.queue # << >> => /\ KnownIn(sh) = Server
                      /\ \A k \in Key : Occupied(sh.servers, k) =>
                           sh.servers[k].free_threads = 0

\* From the maps sh to the maps m the host s is registered, or a thread comes
\* back to it, or one of the slot k is taken.
Enrols(sh, m, s) ==
  /\ m \in MapsType
  /\ ~Occupied(sh.servers, Slot(sh, s))
  /\ m.ip_to_key = Learned(sh, s) /\ m.servers = Filled(sh, s)
  /\ m.server_cnt = (sh.server_cnt + 1) % U16

Credits(sh, m, s) ==
  /\ m \in MapsType
  /\ Occupied(sh.servers, Slot(sh, s))
  /\ m.ip_to_key = Learned(sh, s) /\ m.servers = Credited(sh, s)
  /\ m.server_cnt = sh.server_cnt

Takes(sh, m, k) ==
  /\ m \in MapsType
  /\ k \in Key /\ k = get_available_backend(sh.servers)
  /\ m.ip_to_key = sh.ip_to_key /\ m.servers = TakeThread(sh.servers, k)
  /\ m.server_cnt = sh.server_cnt

\* The slot k has d more free threads in m, and m is otherwise as sh.
Differs(sh, m, k, d) ==
  /\ m.ip_to_key = sh.ip_to_key /\ KnownIn(m) = KnownIn(sh)
  /\ k \in Key /\ Occupied(m.servers, k)
  /\ m.servers[k].saddr = sh.servers[k].saddr
  /\ m.servers[k].free_threads = sh.servers[k].free_threads + d
  /\ \A j \in Key \ {k} : m.servers[j] = sh.servers[j]

LEMMA ShownTypes ==
  ASSUME NEW sh \in MapsType
  PROVE  /\ sh.servers \in [Key -> dest_info] /\ sh.server_cnt \in Nat
         /\ sh.ip_to_key \in [Server -> Cnt \cup {NoKey}]
         /\ sh.queue \in Seq(Request)
         /\ \A k \in Key : sh.servers[k].free_threads \in Nat
         /\ \A k \in Key : Occupied(sh.servers, k) <=> sh.servers[k].saddr \in Server
         /\ IsFiniteSet(KnownIn(sh)) /\ Cardinality(KnownIn(sh)) \in Nat
<1>1. /\ sh.servers \in [Key -> dest_info] /\ sh.server_cnt \in Cnt
      /\ sh.ip_to_key \in [Server -> Cnt \cup {NoKey}]
      /\ sh.queue \in Seq(Request)
  BY DEF MapsType
<1>2. \A k \in Key : sh.servers[k].free_threads \in Nat
  BY <1>1, CntFacts DEF dest_info
<1>3. \A k \in Key : Occupied(sh.servers, k) <=> sh.servers[k].saddr \in Server
  BY <1>1, ServersAssumption DEF dest_info, Occupied
<1>4. IsFiniteSet(KnownIn(sh)) /\ Cardinality(KnownIn(sh)) \in Nat
  BY ServersAssumption, FS_Subset, FS_CardinalityType DEF KnownIn
<1> QED
  BY <1>1, <1>2, <1>3, <1>4, CntFacts

\* The slot of a host that has one, and of a host that gets one.
LEMMA KnownSlot ==
  ASSUME NEW sh \in MapsType, Registry(sh), NEW s \in Server, s \in KnownIn(sh)
  PROVE  /\ Slot(sh, s) = sh.ip_to_key[s] /\ Occupied(sh.servers, Slot(sh, s))
         /\ Slot(sh, s) \in Key /\ sh.servers[Slot(sh, s)].saddr = s
         /\ Learned(sh, s) = sh.ip_to_key
BY ServersAssumption DEF Registry, KnownIn, Slot, Learned, Occupied

LEMMA NewSlot ==
  ASSUME NEW sh \in MapsType, Registry(sh), NEW s \in Server, s \notin KnownIn(sh),
         Cardinality(Server) <= MAX_SERVERS
  PROVE  /\ Slot(sh, s) = sh.server_cnt /\ sh.server_cnt \in Key
         /\ ~Occupied(sh.servers, Slot(sh, s))
         /\ (sh.server_cnt + 1) % U16 = sh.server_cnt + 1
         /\ Learned(sh, s) = [sh.ip_to_key EXCEPT ![s] = sh.server_cnt]
         /\ Cardinality(KnownIn(sh) \cup {s}) = sh.server_cnt + 1
<1>1. /\ sh.server_cnt = Cardinality(KnownIn(sh)) /\ sh.server_cnt \in Nat
      /\ IsFiniteSet(KnownIn(sh))
  BY ShownTypes DEF Registry
<1>2. Cardinality(KnownIn(sh) \cup {s}) = sh.server_cnt + 1
  BY <1>1, FS_AddElement
<1>3. Cardinality(KnownIn(sh) \cup {s}) <= Cardinality(Server)
  <2>1. KnownIn(sh) \cup {s} \subseteq Server
    BY DEF KnownIn
  <2> QED
    BY <2>1, ServersAssumption, FS_Subset
<1>4. Cardinality(Server) \in Nat
  BY ServersAssumption, FS_CardinalityType
<1>5. sh.server_cnt < 3 /\ sh.server_cnt \in Key
  BY <1>1, <1>2, <1>3, <1>4 DEF Key, MAX_SERVERS
<1>6. (sh.server_cnt + 1) % U16 = sh.server_cnt + 1
  BY <1>1, <1>5, SizesAssumption DEF MAX_SERVERS
<1>7. Slot(sh, s) = sh.server_cnt
  BY DEF Slot, KnownIn
<1>8. ~Occupied(sh.servers, sh.server_cnt)
  BY <1>1, <1>5 DEF Registry
<1>9. Learned(sh, s) = [sh.ip_to_key EXCEPT ![s] = sh.server_cnt]
  BY <1>1, <1>5 DEF Learned, KnownIn, MAX_SERVERS
<1> QED
  BY <1>2, <1>5, <1>6, <1>7, <1>8, <1>9

LEMMA RegisterBooks ==
  ASSUME NEW sh, NEW m, NEW H, NEW pi, NEW ru, Sheet(sh, H, pi, ru),
         Cardinality(Server) <= MAX_SERVERS, NEW s \in H, Enrols(sh, m, s)
  PROVE  Sheet(m, H \ {s}, pi, ru) /\ s \notin KnownIn(sh)
<1> DEFINE n == sh.server_cnt
<1> USE DEF Sheet, Enrols
<1>1. s \in Server /\ s \notin KnownIn(sh)
  BY KnownSlot
<1>2. /\ Slot(sh, s) = n /\ n \in Key /\ n \in Nat /\ ~Occupied(sh.servers, n)
      /\ m.server_cnt = n + 1
      /\ m.ip_to_key = [sh.ip_to_key EXCEPT ![s] = n]
      /\ Cardinality(KnownIn(sh) \cup {s}) = n + 1
  BY <1>1, NewSlot, ShownTypes
<1>3. m.servers = [sh.servers EXCEPT ![n] = [saddr |-> s, free_threads |-> MAX_THREADS]]
  BY <1>2 DEF Filled
<1> HIDE DEF n
<1>4. /\ m.ip_to_key[s] = n /\ m.servers[n].saddr = s
      /\ m.servers[n].free_threads = MAX_THREADS
      /\ \A t \in Server \ {s} : m.ip_to_key[t] = sh.ip_to_key[t]
      /\ \A k \in Key \ {n} : m.servers[k] = sh.servers[k]
  BY <1>1, <1>2, <1>3, ShownTypes
<1>5. n # NoKey /\ KnownIn(m) = KnownIn(sh) \cup {s}
  BY <1>1, <1>2, <1>4, CntFacts DEF KnownIn
<1>6. ASSUME NEW t \in KnownIn(sh)
      PROVE  /\ t \in Server /\ t # s /\ sh.ip_to_key[t] \in Key /\ sh.ip_to_key[t] # n
             /\ sh.servers[sh.ip_to_key[t]].saddr = t
             /\ m.ip_to_key[t] = sh.ip_to_key[t]
             /\ m.servers[m.ip_to_key[t]] = sh.servers[sh.ip_to_key[t]]
  BY <1>1, <1>2, <1>4, ServersAssumption DEF Registry, KnownIn, Occupied
<1>7. Registry(m)
  <2>1. ASSUME NEW t \in KnownIn(m)
        PROVE  m.ip_to_key[t] \in Key /\ m.servers[m.ip_to_key[t]].saddr = t
    BY <1>2, <1>4, <1>5, <1>6
  <2>2. ASSUME NEW k \in Key, Occupied(m.servers, k)
        PROVE  m.ip_to_key[m.servers[k].saddr] = k
    <3>1. CASE k = n
      BY <1>4, <3>1
    <3>2. CASE k # n
      <4>1. Occupied(sh.servers, k) /\ m.servers[k] = sh.servers[k]
        BY <1>4, <2>2, <3>2 DEF Occupied
      <4>2. sh.servers[k].saddr \in Server /\ sh.ip_to_key[sh.servers[k].saddr] = k
        BY <4>1, ShownTypes DEF Registry
      <4>3. sh.servers[k].saddr \in KnownIn(sh)
        BY <4>2, CntFacts DEF KnownIn
      <4> QED
        BY <1>6, <4>1, <4>2, <4>3
    <3> QED
      BY <3>1, <3>2
  <2>3. ASSUME NEW k \in Key PROVE Occupied(m.servers, k) <=> k < n + 1
    <3>1. CASE k = n
      BY <1>1, <1>2, <1>4, <3>1, ServersAssumption DEF Occupied
    <3>2. CASE k # n
      <4>1. Occupied(m.servers, k) <=> Occupied(sh.servers, k)
        BY <1>4, <3>2 DEF Occupied
      <4>2. Occupied(sh.servers, k) <=> k < n
        BY DEF Registry, n
      <4> QED
        BY <1>2, <3>2, <4>1, <4>2 DEF Key
    <3> QED
      BY <3>1, <3>2
  <2> QED
    BY <1>2, <1>5, <2>1, <2>2, <2>3 DEF Registry
<1>8. ASSUME NEW t \in Server
      PROVE  IF m.ip_to_key[t] = NoKey
             THEN ru[t] = 0 /\ pi[t] + (IF t \in H \ {s} THEN 1 ELSE 0) = 1
             ELSE m.servers[m.ip_to_key[t]].free_threads + ru[t] + pi[t]
                    + (IF t \in H \ {s} THEN 1 ELSE 0) = MAX_THREADS
  <2>1. CASE t = s
    <3>1. ru[s] = 0 /\ pi[s] + 1 = 1 /\ pi[s] \in Nat
      BY <1>1 DEF Books, KnownIn
    <3> QED
      BY <1>4, <1>5, <2>1, <3>1, SizesAssumption
  <2>2. CASE t # s
    <3>1. t \in H <=> t \in H \ {s}
      BY <2>2
    <3>2. CASE t \in KnownIn(sh)
      BY <1>6, <3>1, <3>2 DEF Books, KnownIn
    <3>3. CASE t \notin KnownIn(sh)
      BY <1>4, <2>2, <3>1, <3>3 DEF Books, KnownIn
    <3> QED
      BY <3>2, <3>3
  <2> QED
    BY <2>1, <2>2
<1>9. Books(m, H \ {s}, pi, ru)
  BY <1>8 DEF Books
<1> QED
  BY <1>1, <1>7, <1>9

\* A change of counters leaves the registry alone.
LEMMA RegistryKept ==
  ASSUME NEW sh \in MapsType, NEW m \in MapsType, Registry(sh),
         m.ip_to_key = sh.ip_to_key, m.server_cnt = sh.server_cnt,
         \A k \in Key : m.servers[k].saddr = sh.servers[k].saddr
  PROVE  Registry(m) /\ KnownIn(m) = KnownIn(sh)
<1>1. KnownIn(m) = KnownIn(sh)
  BY DEF KnownIn
<1>2. \A k \in Key : Occupied(m.servers, k) <=> Occupied(sh.servers, k)
  BY DEF Occupied
<1>3. \A s \in KnownIn(sh) : m.ip_to_key[s] \in Key /\ m.servers[m.ip_to_key[s]].saddr = s
  BY DEF Registry
<1>4. \A k \in Key : Occupied(m.servers, k) => m.ip_to_key[m.servers[k].saddr] = k
  BY <1>2 DEF Registry
<1>5. /\ m.server_cnt = Cardinality(KnownIn(m))
      /\ \A k \in Key : Occupied(m.servers, k) <=> k < m.server_cnt
  BY <1>1, <1>2 DEF Registry
<1> QED
  BY <1>1, <1>3, <1>4, <1>5 DEF Registry

\* A completion is credited to the slot of its sender; the clamp is not needed.
LEMMA CreditBooks ==
  ASSUME NEW sh, NEW m, NEW H, NEW pi, NEW ru, Sheet(sh, H, pi, ru),
         Cardinality(Server) <= MAX_SERVERS, NEW s \in H, Credits(sh, m, s)
  PROVE  /\ Sheet(m, H \ {s}, pi, ru)
         /\ s \in KnownIn(sh) /\ Differs(sh, m, sh.ip_to_key[s], 1)
<1> USE DEF Sheet, Credits
<1> DEFINE k == sh.ip_to_key[s]
           free == sh.servers[k].free_threads
<1>1. s \in Server /\ s \in KnownIn(sh)
  BY NewSlot
<1>2. /\ Slot(sh, s) = k /\ k \in Key /\ sh.servers[k].saddr = s
      /\ m.ip_to_key = sh.ip_to_key /\ k # NoKey
  BY <1>1, KnownSlot DEF KnownIn
<1>3. free \in Nat /\ pi[s] \in Nat /\ ru[s] \in Nat
  BY <1>2, ShownTypes
<1>4. free + ru[s] + pi[s] + 1 = MAX_THREADS
  BY <1>1, <1>2 DEF Books
<1>5. (free + 1) % U16 = free + 1 /\ ~(free + 1 > MAX_THREADS)
  <2>1. MAX_THREADS \in Nat /\ U16 \in Nat /\ MAX_THREADS + 1 < U16
    BY SizesAssumption
  <2>2. free + 1 <= MAX_THREADS
    BY <1>3, <1>4
  <2> HIDE DEF free
  <2> QED
    BY <1>3, <2>1, <2>2
<1>6. m.servers = [sh.servers EXCEPT ![k] = [saddr |-> s, free_threads |-> free + 1]]
  BY <1>2, <1>5 DEF Credited, ReturnThread, WithFree
<1>7. /\ m.servers[k].saddr = s /\ m.servers[k].free_threads = free + 1
      /\ \A j \in Key \ {k} : m.servers[j] = sh.servers[j]
  BY <1>2, <1>6, ShownTypes
<1>8. Registry(m) /\ KnownIn(m) = KnownIn(sh)
  BY <1>2, <1>7, RegistryKept
<1>9. Occupied(m.servers, k)
  BY <1>1, <1>2, <1>7, ServersAssumption DEF Occupied
<1>10. ASSUME NEW t \in Server
       PROVE  IF m.ip_to_key[t] = NoKey
              THEN ru[t] = 0 /\ pi[t] + (IF t \in H \ {s} THEN 1 ELSE 0) = 1
              ELSE m.servers[m.ip_to_key[t]].free_threads + ru[t] + pi[t]
                     + (IF t \in H \ {s} THEN 1 ELSE 0) = MAX_THREADS
  <2>1. CASE t = s
    BY <1>2, <1>3, <1>4, <1>7, <2>1
  <2>2. CASE t # s
    <3>1. t \in H <=> t \in H \ {s}
      BY <2>2
    <3>2. CASE t \in KnownIn(sh)
      <4>1. sh.ip_to_key[t] \in Key /\ sh.ip_to_key[t] # k
        BY <1>2, <2>2, <3>2 DEF Registry
      <4>2. m.servers[sh.ip_to_key[t]] = sh.servers[sh.ip_to_key[t]]
        BY <1>7, <4>1
      <4> QED
        BY <1>2, <3>1, <3>2, <4>2 DEF Books, KnownIn
    <3>3. CASE t \notin KnownIn(sh)
      BY <1>2, <3>1, <3>3 DEF Books, KnownIn
    <3> QED
      BY <3>2, <3>3
  <2> QED
    BY <2>1, <2>2
<1>11. Books(m, H \ {s}, pi, ru)
  BY <1>10 DEF Books
<1>12. Differs(sh, m, k, 1)
  BY <1>2, <1>7, <1>8, <1>9 DEF Differs
<1> QED
  BY <1>1, <1>8, <1>11, <1>12

\* A backend is charged for the job it gets.
LEMMA ChargeBooks ==
  ASSUME NEW sh, NEW m, NEW H, NEW pi, NEW ru, Sheet(sh, H, pi, ru),
         NEW k, Takes(sh, m, k)
  PROVE  /\ Sheet(m, H, pi, [ru EXCEPT ![sh.servers[k].saddr] = @ + 1])
         /\ Differs(sh, m, k, -1) /\ sh.servers[k].free_threads > 0
<1> USE DEF Sheet, Takes
<1> DEFINE d == sh.servers[k].saddr
           free == sh.servers[k].free_threads
           new == [ru EXCEPT ![d] = @ + 1]
<1>1. sh.servers \in [Key -> dest_info]
  BY ShownTypes
<1>2. Occupied(sh.servers, k) /\ free > 0 /\ free \in Nat /\ d \in Server
  BY <1>1, BackendSelection, CntFacts, ShownTypes
<1>3. sh.ip_to_key[d] = k /\ k # NoKey
  BY <1>2, CntFacts DEF Registry
<1>4. (free - 1) % U16 = free - 1
  <2>1. free \in Cnt
    BY <1>1 DEF dest_info
  <2>2. U16 \in Nat /\ free < U16
    BY <2>1, SizesAssumption DEF Cnt
  <2> HIDE DEF free
  <2> QED
    BY <1>2, <2>2
<1>5. m.servers = [sh.servers EXCEPT ![k] = [saddr |-> d, free_threads |-> free - 1]]
  BY <1>4 DEF TakeThread, WithFree
<1>6. /\ m.servers[k].saddr = d /\ m.servers[k].free_threads = free - 1
      /\ \A j \in Key \ {k} : m.servers[j] = sh.servers[j]
  BY <1>1, <1>5
<1>7. Registry(m) /\ KnownIn(m) = KnownIn(sh)
  BY <1>6, RegistryKept
<1>8. \A t \in Server : new[t] = IF t = d THEN ru[t] + 1 ELSE ru[t]
  BY <1>2
<1>9. ASSUME NEW t \in Server
      PROVE  IF m.ip_to_key[t] = NoKey
             THEN new[t] = 0 /\ pi[t] + (IF t \in H THEN 1 ELSE 0) = 1
             ELSE m.servers[m.ip_to_key[t]].free_threads + new[t] + pi[t]
                    + (IF t \in H THEN 1 ELSE 0) = MAX_THREADS
  <2> HIDE DEF new, d
  <2>1. CASE t = d
    <3>1. free + ru[d] + pi[d] + (IF d \in H THEN 1 ELSE 0) = MAX_THREADS
      BY <1>2, <1>3 DEF Books
    <3>2. ru[d] \in Nat /\ pi[d] \in Nat
      BY <1>2
    <3> HIDE DEF free
    <3> QED
      BY <1>2, <1>3, <1>6, <1>8, <2>1, <3>1, <3>2
  <2>2. CASE t # d
    <3>1. CASE t \in KnownIn(sh)
      <4>1. sh.ip_to_key[t] \in Key /\ sh.ip_to_key[t] # k
        BY <2>2, <3>1 DEF Registry, d
      <4>2. m.servers[sh.ip_to_key[t]] = sh.servers[sh.ip_to_key[t]]
        BY <1>6, <4>1
      <4> QED
        BY <1>8, <2>2, <3>1, <4>2 DEF Books, KnownIn
    <3>2. CASE t \notin KnownIn(sh)
      BY <1>8, <2>2, <3>2 DEF Books, KnownIn
    <3> QED
      BY <3>1, <3>2
  <2> QED
    BY <2>1, <2>2
<1>10. Books(m, H, pi, new)
  BY <1>9 DEF Books
<1>11. new \in [Server -> Nat]
  BY <1>2
<1>12. Differs(sh, m, k, -1)
  BY <1>2, <1>6, <1>7 DEF Differs, Occupied
<1> QED
  BY <1>2, <1>7, <1>10, <1>11, <1>12

\* The hosts whose ping is being handled.
Handled == {s \in Server : \E c \in CPU : reg[c].frame = s}

\* An invocation that stands at p has a job to send.
Charges(p, r) == (p \in Updating /\ r.op = "charge") \/ p = "send"

Account ==
  /\ Registry(shown)
  /\ Books(shown, Handled, pings, running)
  /\ Waits(shown)
  /\ unsent # Request \/ (\E c \in CPU : reg[c].frame \in Request) =>
       KnownIn(shown) = Server
  /\ \A c \in CPU : Charges(pc[c], reg[c]) => reg[c].value \in Request
  /\ sent[NoRequest] = 0

\* The workers fit into the maps, start first, and frames can be grown.
Deployed ==
  /\ WorkersFirst
  /\ FALSE \notin TailGrows
  /\ Cardinality(Server) <= MAX_SERVERS

LEMMA BlankFrame ==
  Blank.frame \notin Server /\ Blank.frame \notin Request /\ ~Charges("idle", Blank)
BY FrameAssumption, RequestsAssumption DEF Blank, Charges, Updating

LEMMA OthersIdle ==
  ASSUME SmpTypeOK, Locals, NEW c \in CPU, Working \subseteq {c}
  PROVE  /\ \A d \in CPU \ {c} : pc[d] = "idle" /\ reg[d] = Blank
         /\ Handled = {reg[c].frame} \cap Server
<1>1. \A d \in CPU \ {c} : pc[d] = "idle"
  BY DEF Working, At
<1>2. \A d \in CPU \ {c} : reg[d] = Blank
  BY <1>1 DEF Locals, Sound
<1> QED
  BY <1>1, <1>2, BlankFrame DEF Handled

\* An invocation that goes on keeps its frame, changes nothing outside lb.c,
\* and charges a backend only for a job of the client.
LEMMA GoesOn ==
  ASSUME SmpTypeOK, Locals, shown \in MapsType, NEW c \in CPU,
         Stage(shown, Maps, pc[c], reg[c]), Step(c), pc'[c] # "idle",
         Charges(pc[c], reg[c]) => reg[c].value \in Request
  PROVE  /\ \A d \in CPU \ {c} : pc'[d] = pc[d] /\ reg'[d] = reg[d]
         /\ reg'[c].frame = reg[c].frame
         /\ Charges(pc'[c], reg'[c]) => reg'[c].value \in Request
         /\ UNCHANGED outer
<1> DEFINE Fine(p, r) == /\ r.frame = reg[c].frame
                         /\ Charges(p, r) => r.value \in Request
<1>1. ASSUME NEW p, NEW r, Goto(c, p, r), Fine(p, r), UNCHANGED outer
      PROVE  /\ \A d \in CPU \ {c} : pc'[d] = pc[d] /\ reg'[d] = reg[d]
             /\ reg'[c].frame = reg[c].frame
             /\ Charges(pc'[c], reg'[c]) => reg'[c].value \in Request
             /\ UNCHANGED outer
  BY <1>1, GotoView
<1>2. ~Return(c)
  BY GotoView DEF Return
<1>3. reg[c] \in Registers
  BY DEF SmpTypeOK
<1>4. CASE ReadCnt(c)
  <2>1. Fine("learn", [reg[c] EXCEPT !.key = server_cnt])
    BY <1>3 DEF Registers, Charges, Updating
  <2> QED
    BY <1>1, <1>4, <2>1 DEF ReadCnt
<1>5. CASE Learn(c)
  <2>1. Fine("read_slot", reg[c])
    BY DEF Charges, Updating
  <2> QED
    BY <1>1, <1>5, <2>1 DEF Learn
<1>6. CASE ReadSlot(c)
  <2>1. Fine("load", [reg[c] EXCEPT !.op = "credit", !.key = reg[c].key])
    BY <1>3 DEF Registers, Charges, Updating
  <2>2. Fine("write_slot", reg[c])
    BY DEF Charges, Updating
  <2> QED
    BY <1>1, <1>6, <2>1, <2>2 DEF ReadSlot, Update
<1>7. CASE WriteSlot(c)
  <2>1. Fine("load", [reg[c] EXCEPT !.op = "count", !.key = NoKey])
    BY <1>3 DEF Registers, Charges, Updating
  <2> QED
    BY <1>1, <1>7, <2>1 DEF WriteSlot, Update
<1>8. CASE Load(c)
  <2> DEFINE x == IF reg[c].op = "count" THEN server_cnt ELSE servers[reg[c].key].free_threads
  <2>1. pc[c] = "load"
    BY <1>8 DEF Load, At
  <2>2. Fine("store", [reg[c] EXCEPT !.tmp = x])
    BY <1>3, <2>1 DEF Registers, Charges, Updating
  <2> QED
    BY <1>1, <1>8, <2>2 DEF Load
<1>9. CASE Store(c)
  <2>1. pc[c] = "store" /\ Goto(c, "copy_load", reg[c]) /\ UNCHANGED outer
    BY <1>9 DEF Store, At
  <2>2. Fine("copy_load", reg[c])
    BY <2>1 DEF Charges, Updating
  <2> QED
    BY <1>1, <2>1, <2>2
<1>10. CASE CopyLoad(c)
  <2> DEFINE r == IF reg[c].op = "count" THEN [reg[c] EXCEPT !.tmp = server_cnt]
                  ELSE [reg[c] EXCEPT !.tmp = 0, !.elem = servers[reg[c].key]]
  <2>1. pc[c] = "copy_load" /\ Goto(c, "copy_store", r) /\ UNCHANGED outer
    BY <1>10 DEF CopyLoad, At
  <2>2. r.frame = reg[c].frame /\ r.op = reg[c].op /\ r.value = reg[c].value
    BY <1>3 DEF Registers
  <2> HIDE DEF r
  <2>3. Fine("copy_store", r)
    BY <2>1, <2>2 DEF Charges, Updating
  <2> QED
    BY <1>1, <2>1, <2>3
<1>11. CASE CopyStore(c)
  <2> DEFINE r == [reg[c] EXCEPT !.elem = Unused]
  <2>1. pc[c] = "copy_store" /\ UNCHANGED outer
    BY <1>11 DEF CopyStore, At
  <2>2. reg[c].op \in {"count", "credit", "charge"}
    BY <1>3, <2>1 DEF Locals, Sound, Updating, Registers, Op
  <2>3. \/ reg[c].op = "credit" /\ Goto(c, "peek", r)
        \/ reg[c].op = "charge" /\ Goto(c, "send", r)
    BY <1>2, <1>11, <2>2 DEF CopyStore
  <2>4. r.frame = reg[c].frame /\ r.op = reg[c].op /\ r.value = reg[c].value
    BY <1>3 DEF Registers
  <2> HIDE DEF r
  <2>5. Fine("peek", r)
    BY <2>4 DEF Charges, Updating
  <2>6. reg[c].op = "charge" => Fine("send", r)
    BY <2>1, <2>4 DEF Charges, Updating
  <2> QED
    BY <1>1, <2>1, <2>3, <2>5, <2>6
<1>12. CASE Peek(c)
  <2>1. Fine("select", reg[c])
    BY DEF Charges, Updating
  <2>2. Goto(c, "select", reg[c]) /\ UNCHANGED outer
    BY <1>2, <1>12 DEF Peek
  <2> QED
    BY <1>1, <2>1, <2>2
<1>13. CASE Select(c)
  <2> DEFINE best == Visit(servers, reg[c].best, reg[c].slot)
             looked == [reg[c] EXCEPT !.best = best, !.slot = @ + 1]
             k == best.selected_key
             charged == [looked EXCEPT !.op = "charge", !.key = k, !.value = reg[c].frame]
  <2>1. pc[c] = "select" /\ UNCHANGED outer
    BY <1>13 DEF Select, At
  <2>2. reg[c].frame \in Server \cup Request
    BY <2>1 DEF Locals, Sound
  <2>3. looked.frame = reg[c].frame /\ charged.frame = reg[c].frame
        /\ charged.value = reg[c].frame
    BY <1>3 DEF Registers
  <2>4. \/ Goto(c, "select", looked) \/ Goto(c, "pop", looked) \/ Goto(c, "push", looked)
        \/ reg[c].frame \notin Server /\ Goto(c, "load", charged)
    BY <1>2, <1>13 DEF Select
  <2> HIDE DEF looked, charged
  <2>5. Fine("select", looked) /\ Fine("pop", looked) /\ Fine("push", looked)
    BY <2>3 DEF Charges, Updating
  <2>6. reg[c].frame \notin Server => Fine("load", charged)
    BY <2>2, <2>3
  <2> QED
    BY <1>1, <2>1, <2>4, <2>5, <2>6
<1>14. CASE Pop(c)
  <2> DEFINE k == reg[c].best.selected_key
             r == [reg[c] EXCEPT !.op = "charge",
                     !.value = IF queue = << >> THEN NoRequest ELSE Head(queue), !.key = k]
  <2>1. pc[c] = "pop" /\ reg[c].frame \in Server
    BY <1>14 DEF Pop, At, Locals, Sound
  <2>2. queue # << >> /\ queue \in Seq(Request)
    BY <2>1, MapsFields DEF Stage, Matching, Found, SmpTypeOK
  <2>3. r.frame = reg[c].frame /\ r.value = Head(queue)
    BY <1>3, <2>2 DEF Registers
  <2>4. Goto(c, "load", r) /\ UNCHANGED outer
    BY <1>2, <1>14 DEF Pop, outer
  <2> HIDE DEF r
  <2>5. Fine("load", r)
    BY <2>2, <2>3
  <2> QED
    BY <1>1, <2>4, <2>5
<1>15. CASE Push(c) \/ Send(c)
  BY <1>2, <1>15 DEF Push, Send
<1> QED
  BY <1>4, <1>5, <1>6, <1>7, <1>8, <1>9, <1>10, <1>11, <1>12, <1>13, <1>14, <1>15 DEF Step

\* The only invocation ends: the maps are shown, and what has to be right of
\* them does not mention the CPUs.
LEMMA EndAccount ==
  ASSUME SmpTypeOK, Locals, NEW c \in CPU, Working = {c}, Return(c), shown' = Maps',
         Registry(Maps'), Books(Maps', {}, pings', running'), Waits(Maps'),
         unsent' # Request => KnownIn(Maps') = Server, sent'[NoRequest] = 0
  PROVE  Account'
<1>1. \A d \in CPU \ {c} : pc[d] = "idle" /\ reg[d] = Blank
  BY OthersIdle
<1>2. \A d \in CPU : pc'[d] = "idle" /\ reg'[d] = Blank
  BY <1>1, GotoView DEF Return
<1>3. Handled' = {}
  BY <1>2, BlankFrame DEF Handled
<1>4. /\ \A d \in CPU : reg'[d].frame \notin Request
      /\ \A d \in CPU : ~Charges(pc'[d], reg'[d])
  BY <1>2, BlankFrame
<1>5. Registry(shown)' /\ Books(shown', Handled', pings', running') /\ Waits(shown)'
  BY <1>3
<1>6. unsent' # Request \/ (\E d \in CPU : reg'[d].frame \in Request) =>
        KnownIn(shown') = Server
  BY <1>4
<1> QED
  BY <1>4, <1>5, <1>6 DEF Account

\* What is known of the only invocation.
Alone(c) ==
  /\ SmpTypeOK /\ Locals /\ shown \in MapsType
  /\ Working = {c} /\ Stage(shown, Maps, pc[c], reg[c])
  /\ Account

LEMMA AloneViews ==
  ASSUME NEW c \in CPU, Alone(c)
  PROVE  /\ Handled \in SUBSET Server
         /\ reg[c].frame \in Server => Handled = {reg[c].frame}
         /\ reg[c].frame \notin Server => Handled = {}
         /\ pings \in [Server -> Nat] /\ running \in [Server -> Nat]
BY OthersIdle DEF Alone, SmpTypeOK

LEMMA RegisterEnds ==
  ASSUME Deployed, NEW c \in CPU, Alone(c), SmpTypeOK', shown' = Maps',
         CopyStore(c), reg[c].op = "count"
  PROVE  Account'
<1> DEFINE s == reg[c].frame
<1>0. SmpTypeOK /\ Locals /\ shown \in MapsType /\ Working = {c} /\ Account
      /\ Stage(shown, Maps, pc[c], reg[c])
  BY DEF Alone
<1>1. /\ pc[c] = "copy_store" /\ UNCHANGED <<ip_to_key, queue, servers>>
      /\ server_cnt' = reg[c].tmp /\ Return(c) /\ UNCHANGED outer
  BY DEF CopyStore, At
<1>2. Fetched(Maps, "copy_store", reg[c]) /\ Counting(shown, Maps, "copy_store", reg[c])
  BY <1>0, <1>1 DEF Stage, Updating
<1>3. Maps' = Maps
  BY <1>1, <1>2, MapsFields DEF Fetched, Maps
<1>4. /\ s \in Server /\ ~Occupied(shown.servers, Slot(shown, s))
      /\ Maps'.ip_to_key = Learned(shown, s) /\ Maps'.servers = Filled(shown, s)
      /\ Maps'.queue = shown.queue /\ Maps'.server_cnt = (shown.server_cnt + 1) % U16
  BY <1>2, <1>3 DEF Counting, Found, Before
<1>5. Maps' \in MapsType /\ Handled = {s} /\ Handled \ {s} = {}
      /\ pings \in [Server -> Nat] /\ running \in [Server -> Nat]
  <2>1. Maps' \in MapsType
    BY DEF SmpTypeOK, Maps, MapsType
  <2> QED
    BY <1>4, <2>1, AloneViews
<1>6. Registry(Maps') /\ Books(Maps', {}, pings, running) /\ s \notin KnownIn(shown)
  <2>1. Sheet(shown, Handled, pings, running) /\ s \in Handled
    BY <1>0, <1>4, <1>5 DEF Account, Sheet
  <2>2. Enrols(shown, Maps', s) /\ Cardinality(Server) <= MAX_SERVERS
    BY <1>4, <1>5 DEF Enrols, Deployed
  <2>3. Sheet(Maps', Handled \ {s}, pings, running) /\ s \notin KnownIn(shown)
    BY <2>1, <2>2, RegisterBooks
  <2> QED
    BY <1>5, <2>3 DEF Sheet
<1>7. unsent = Request /\ shown.queue = << >>
  BY <1>0, <1>4, <1>6 DEF Account, Waits
<1>8. Waits(Maps')
  BY <1>4, <1>7 DEF Waits
<1> QED
  BY <1>0, <1>1, <1>6, <1>7, <1>8, EndAccount DEF outer, Account

LEMMA PeekEnds ==
  ASSUME Deployed, NEW c \in CPU, Alone(c), SmpTypeOK', shown' = Maps',
         Peek(c), queue = << >>
  PROVE  Account'
<1> DEFINE s == reg[c].frame
<1>0. SmpTypeOK /\ Locals /\ shown \in MapsType /\ Working = {c} /\ Account
      /\ Stage(shown, Maps, pc[c], reg[c])
  BY DEF Alone
<1>1. pc[c] = "peek" /\ Maps' = Maps /\ Return(c) /\ UNCHANGED outer
  BY DEF Peek, At, lbvars, Maps
<1>2. Matching(shown, Maps, "peek", reg[c])
  BY <1>0, <1>1 DEF Stage
<1>3. /\ s \in Server /\ Occupied(shown.servers, Slot(shown, s))
      /\ Maps'.ip_to_key = Learned(shown, s) /\ Maps'.servers = Credited(shown, s)
      /\ Maps'.server_cnt = shown.server_cnt
  BY <1>1, <1>2 DEF Matching, Found
<1>4. Maps' \in MapsType /\ Handled = {s} /\ Handled \ {s} = {}
      /\ pings \in [Server -> Nat] /\ running \in [Server -> Nat]
  <2>1. Maps' \in MapsType
    BY DEF SmpTypeOK, Maps, MapsType
  <2> QED
    BY <1>3, <2>1, AloneViews
<1>5. Registry(Maps') /\ Books(Maps', {}, pings, running) /\ KnownIn(Maps') = KnownIn(shown)
  <2>1. Sheet(shown, Handled, pings, running) /\ s \in Handled
    BY <1>0, <1>3, <1>4 DEF Account, Sheet
  <2>2. Credits(shown, Maps', s) /\ Cardinality(Server) <= MAX_SERVERS
    BY <1>3, <1>4 DEF Credits, Deployed
  <2>3. /\ Sheet(Maps', Handled \ {s}, pings, running)
        /\ Differs(shown, Maps', shown.ip_to_key[s], 1)
    BY <2>1, <2>2, CreditBooks
  <2> QED
    BY <1>4, <2>3 DEF Sheet, Differs
<1>6. Waits(Maps')
  BY <1>1, MapsFields DEF Waits
<1> QED
  BY <1>0, <1>1, <1>5, <1>6, EndAccount DEF outer, Account

\* The slot that was credited has a free thread, so that a backend is found.
LEMMA SelectFinds ==
  ASSUME Deployed, NEW c \in CPU, Alone(c), Select(c), Return(c)
  PROVE  FALSE
<1> DEFINE s == reg[c].frame
<1>0. SmpTypeOK /\ Locals /\ shown \in MapsType /\ Working = {c} /\ Account
      /\ Stage(shown, Maps, pc[c], reg[c])
  BY DEF Alone
<1>1. pc'[c] = "idle"
  BY <1>0, GotoView DEF Return
<1>2. pc[c] = "select" /\ reg[c].best = Looked(servers, reg[c].slot)
      /\ reg[c].slot \in {0, 1, 2}
  <2>1. pc[c] = "select" /\ reg[c] \in Registers
    BY <1>0 DEF Select, At, SmpTypeOK
  <2>2. reg[c].slot < 3 /\ reg[c].slot \in 0 .. 3
    BY <1>0, <2>1 DEF Locals, Sound, MAX_SERVERS, Registers
  <2> QED
    BY <1>0, <2>1, <2>2, MapsFields DEF Stage
<1>3. s \in Server /\ get_available_backend(servers) = NoKey
  <2> DEFINE best == Visit(servers, reg[c].best, reg[c].slot)
             looked == [reg[c] EXCEPT !.best = best, !.slot = @ + 1]
             k == best.selected_key
  <2>1. ASSUME NEW p \in Pc \ {"idle"}, NEW r, Goto(c, p, r) PROVE FALSE
    BY <1>0, <1>1, <2>1, GotoView
  <2>2. reg[c].slot = 2 /\ s \in Server /\ k = NoKey
    BY <1>2, <2>1 DEF Select, MAX_SERVERS, Pc, Updating
  <2>3. best = Looked(servers, 3)
    BY <1>2, <2>2, LookedNext
  <2> QED
    BY <2>2, <2>3, LookedNext
<1>4. /\ Occupied(shown.servers, Slot(shown, s)) /\ servers = Credited(shown, s)
      /\ ip_to_key = Learned(shown, s) /\ server_cnt = shown.server_cnt
  BY <1>0, <1>2, <1>3, MapsFields DEF Stage, Matching, Found
<1>5. Maps \in MapsType /\ Handled = {s} /\ Handled \in SUBSET Server
      /\ pings \in [Server -> Nat] /\ running \in [Server -> Nat]
  BY <1>0, <1>3, AloneViews, MapsTyped
<1>6. LET k == shown.ip_to_key[s] IN
      /\ Occupied(servers, k)
      /\ servers[k].free_threads = shown.servers[k].free_threads + 1
  <2>1. Sheet(shown, Handled, pings, running) /\ s \in Handled
    BY <1>0, <1>5 DEF Account, Sheet
  <2>2. Credits(shown, Maps, s) /\ Cardinality(Server) <= MAX_SERVERS
    BY <1>4, <1>5, MapsFields DEF Credits, Deployed
  <2>3. Differs(shown, Maps, shown.ip_to_key[s], 1)
    BY <2>1, <2>2, CreditBooks
  <2> QED
    BY <2>3, MapsFields DEF Differs
<1>7. shown.ip_to_key[s] \in Key
      /\ shown.servers[shown.ip_to_key[s]].free_threads \in Nat
  BY <1>0, <1>6, ShownTypes DEF Occupied
<1>8. servers \in [Key -> dest_info]
  BY <1>0 DEF SmpTypeOK
<1> QED
  BY <1>3, <1>6, <1>7, <1>8, BackendSelection

LEMMA PushEnds ==
  ASSUME Deployed, NEW c \in CPU, Alone(c), SmpTypeOK', shown' = Maps', Push(c)
  PROVE  Account'
<1> DEFINE r == reg[c].frame
<1>0. SmpTypeOK /\ Locals /\ shown \in MapsType /\ Working = {c} /\ Account
      /\ Stage(shown, Maps, pc[c], reg[c])
  BY DEF Alone
<1>1. pc[c] = "push" /\ r \in Request /\ r \notin Server
  BY <1>0, FrameAssumption DEF Push, At, Locals, Sound
<1>2. shown = Maps /\ get_available_backend(servers) = NoKey
  BY <1>0, <1>1, MapsFields DEF Stage
<1>3. /\ Return(c) /\ UNCHANGED <<ip_to_key, servers, server_cnt, unsent, pings, running, sent>>
  BY DEF Push
<1>4. Maps' \in MapsType
  BY DEF SmpTypeOK, Maps, MapsType
<1>5. /\ Maps'.ip_to_key = shown.ip_to_key /\ Maps'.servers = shown.servers
      /\ Maps'.server_cnt = shown.server_cnt
  BY <1>2, <1>3, MapsFields
<1>6. Registry(shown) /\ Books(shown, {}, pings, running) /\ KnownIn(shown) = Server
  <2>1. Handled = {}
    BY <1>1, AloneViews
  <2> QED
    BY <1>0, <1>1, <2>1 DEF Account
<1>7. Registry(Maps') /\ KnownIn(Maps') = Server
  BY <1>0, <1>4, <1>5, <1>6, RegistryKept
<1>8. Books(Maps', {}, pings, running)
  BY <1>5, <1>6 DEF Books
<1>9. \A k \in Key : Occupied(servers, k) => servers[k].free_threads = 0
  <2>1. servers \in [Key -> dest_info]
    BY <1>0 DEF SmpTypeOK
  <2> QED
    BY <1>2, <2>1, BackendSelection
<1>10. Waits(Maps')
  BY <1>3, <1>7, <1>9, MapsFields DEF Waits
<1> QED
  BY <1>0, <1>3, <1>7, <1>8, <1>10, EndAccount DEF Account

LEMMA SendEnds ==
  ASSUME Deployed, NEW c \in CPU, Alone(c), SmpTypeOK', shown' = Maps', Send(c)
  PROVE  Account'
<1> DEFINE u == reg[c].frame
           k == reg[c].key
<1>0. SmpTypeOK /\ Locals /\ shown \in MapsType /\ Working = {c} /\ Account
      /\ Stage(shown, Maps, pc[c], reg[c])
  BY DEF Alone
<1>1. /\ pc[c] = "send" /\ Return(c) /\ Maps' = Maps /\ k \in Key
      /\ sent' = [sent EXCEPT ![reg[c].value] = @ + 1]
      /\ running' = [running EXCEPT ![servers[k].saddr] = @ + 1]
      /\ UNCHANGED <<unsent, pings>>
  BY <1>0 DEF Send, At, lbvars, Maps, Locals, Sound, Occupied
<1>2. Charging(shown, Maps', "send", reg[c])
  BY <1>0, <1>1 DEF Stage
<1>3. sent'[NoRequest] = 0
  <2>1. reg[c].value \in Request
    BY <1>0, <1>1 DEF Account, Charges
  <2>2. sent \in [Payload -> Nat] /\ NoRequest \in Payload /\ reg[c].value # NoRequest
    BY <1>0, <2>1, RequestsAssumption DEF SmpTypeOK, Payload
  <2> QED
    BY <1>0, <1>1, <2>2 DEF Account
<1>4. /\ Maps' \in MapsType /\ pings \in [Server -> Nat] /\ running \in [Server -> Nat]
      /\ Registry(shown) /\ Books(shown, Handled, pings, running) /\ Waits(shown)
      /\ Maps'.servers = servers
  <2>1. Maps' \in MapsType
    BY DEF SmpTypeOK, Maps, MapsType
  <2> QED
    BY <1>0, <1>1, <2>1, MapsFields DEF Account, SmpTypeOK
<1>5. CASE u \in Server
  <2> DEFINE sh == [shown EXCEPT !.servers = Credited(shown, u)]
             j == shown.ip_to_key[u]
  <2>1. /\ k = get_available_backend(Credited(shown, u))
        /\ Maps'.servers = TakeThread(Credited(shown, u), k)
        /\ Maps'.server_cnt = shown.server_cnt
        /\ Occupied(shown.servers, Slot(shown, u)) /\ Maps'.ip_to_key = Learned(shown, u)
        /\ shown.queue # << >> /\ Maps'.queue = Tail(shown.queue)
    BY <1>2, <1>5 DEF Charging, Base, Before
  <2>2. KnownIn(shown) = Server
        /\ \A i \in Key : Occupied(shown.servers, i) => shown.servers[i].free_threads = 0
    BY <1>4, <2>1 DEF Waits
  <2>3. Learned(shown, u) = shown.ip_to_key
    BY <1>0, <1>4, <1>5, <2>2, KnownSlot
  <2>4. /\ sh \in MapsType /\ sh.servers = Credited(shown, u)
        /\ sh.ip_to_key = shown.ip_to_key /\ sh.server_cnt = shown.server_cnt
    <3>1. Slot(shown, u) \in Key
      BY <2>1 DEF Occupied
    <3>2. Credited(shown, u) \in [Key -> dest_info]
      BY <1>0, <3>1, CreditedType
    <3> QED
      BY <1>0, <3>2 DEF MapsType
  <2> HIDE DEF sh
  <2>5. Handled = {u} /\ Handled \ {u} = {} /\ Handled \in SUBSET Server
    BY <1>5, AloneViews
  <2>6. /\ Registry(sh) /\ Books(sh, {}, pings, running) /\ KnownIn(sh) = Server
        /\ Occupied(sh.servers, j) /\ sh.servers[j].free_threads = 1
        /\ \A i \in Key \ {j} : sh.servers[i] = shown.servers[i]
    <3>1. Sheet(shown, Handled, pings, running) /\ u \in Handled
      BY <1>0, <1>4, <2>5 DEF Sheet
    <3>0. Credits(shown, sh, u) /\ Cardinality(Server) <= MAX_SERVERS
      BY <2>1, <2>3, <2>4 DEF Credits, Deployed
    <3>2. Sheet(sh, Handled \ {u}, pings, running) /\ Differs(shown, sh, j, 1)
      BY <3>0, <3>1, CreditBooks
    <3>3. Occupied(shown.servers, j)
      BY <1>0, <1>4, <1>5, <2>2, KnownSlot
    <3>4. shown.servers[j].free_threads = 0
      BY <2>2, <3>3 DEF Occupied
    <3>5. Sheet(sh, {}, pings, running)
      BY <2>5, <3>2
    <3>6. sh.servers[j].free_threads = shown.servers[j].free_threads + 1
      BY <3>2 DEF Differs
    <3>7. sh.servers[j].free_threads = 1
      BY <3>4, <3>6
    <3>8. /\ KnownIn(sh) = KnownIn(shown) /\ Occupied(sh.servers, j)
          /\ \A i \in Key \ {j} : sh.servers[i] = shown.servers[i]
      BY <3>2 DEF Differs
    <3>9. Registry(sh) /\ Books(sh, {}, pings, running)
      BY <3>5 DEF Sheet
    <3> HIDE DEF j
    <3> QED
      BY <2>2, <3>7, <3>8, <3>9
  <2>7. /\ Registry(Maps') /\ KnownIn(Maps') = Server
        /\ servers[k].saddr = sh.servers[k].saddr
        /\ Books(Maps', {}, pings, [running EXCEPT ![sh.servers[k].saddr] = @ + 1])
        /\ servers[k].free_threads = sh.servers[k].free_threads - 1
        /\ \A i \in Key \ {k} : servers[i] = sh.servers[i]
    <3>1. Takes(sh, Maps', k)
      BY <1>1, <1>4, <2>1, <2>3, <2>4 DEF Takes
    <3>2. Sheet(sh, {}, pings, running)
      BY <1>4, <2>4, <2>6 DEF Sheet
    <3>3. /\ Sheet(Maps', {}, pings, [running EXCEPT ![sh.servers[k].saddr] = @ + 1])
          /\ Differs(sh, Maps', k, -1)
      BY <3>1, <3>2, ChargeBooks
    <3>4. sh.servers[k].free_threads \in Nat
      BY <1>1, <2>4, ShownTypes
    <3> QED
      BY <1>4, <2>6, <3>3, <3>4 DEF Sheet, Differs
  <2>8. Books(Maps', {}, pings', running')
    BY <1>1, <2>7
  <2>9. Waits(Maps')
    <3>1. sh.servers[k].free_threads > 0 /\ Occupied(sh.servers, k)
      <4>1. sh.servers \in [Key -> dest_info] /\ k = get_available_backend(sh.servers)
            /\ k # NoKey
        BY <1>1, <2>1, <2>4, ShownTypes, CntFacts
      <4> QED
        BY <4>1, BackendSelection
    <3>2. k = j
      <4>1. SUFFICES ASSUME k # j PROVE FALSE
        OBVIOUS
      <4>2. sh.servers[k] = shown.servers[k] /\ Occupied(shown.servers, k)
        BY <1>1, <2>6, <3>1, <4>1 DEF Occupied
      <4> QED
        BY <1>1, <2>2, <3>1, <4>2
    <3>3. servers[k].free_threads = 0
      <4>1. sh.servers[k].free_threads = 1
        BY <2>6, <3>2
      <4>2. servers[k].free_threads = sh.servers[k].free_threads - 1
        BY <2>7
      <4> QED
        BY <4>1, <4>2
    <3>4. ASSUME NEW i \in Key, Occupied(servers, i) PROVE servers[i].free_threads = 0
      <4>1. CASE i = k
        BY <3>3, <4>1
      <4>2. CASE i # k
        <5>1. servers[i] = shown.servers[i]
          BY <2>6, <2>7, <3>2, <4>2
        <5> QED
          BY <2>2, <3>4, <5>1 DEF Occupied
      <4> QED
        BY <4>1, <4>2
    <3> QED
      BY <1>4, <2>7, <3>4 DEF Waits
  <2> QED
    BY <1>0, <1>1, <1>3, <2>7, <2>8, <2>9, EndAccount
<1>6. CASE u \notin Server
  <2>1. /\ k = get_available_backend(shown.servers) /\ u \in Request
        /\ Maps'.servers = TakeThread(shown.servers, k)
        /\ Maps'.server_cnt = shown.server_cnt
        /\ Maps'.ip_to_key = shown.ip_to_key /\ Maps'.queue = shown.queue
    BY <1>2, <1>6 DEF Charging, Base, Before
  <2>2. Handled = {} /\ KnownIn(shown) = Server /\ {} \in SUBSET Server
    BY <1>0, <1>6, <2>1, AloneViews DEF Account
  <2>3. /\ Registry(Maps') /\ KnownIn(Maps') = Server
        /\ servers[k].saddr = shown.servers[k].saddr
        /\ Books(Maps', {}, pings, [running EXCEPT ![shown.servers[k].saddr] = @ + 1])
    <3>1. Takes(shown, Maps', k)
      BY <1>1, <1>4, <2>1 DEF Takes
    <3>2. Sheet(shown, {}, pings, running)
      BY <1>0, <1>4, <2>2 DEF Sheet
    <3>3. /\ Sheet(Maps', {}, pings, [running EXCEPT ![shown.servers[k].saddr] = @ + 1])
          /\ Differs(shown, Maps', k, -1)
      BY <3>1, <3>2, ChargeBooks
    <3> QED
      BY <1>4, <2>2, <3>3 DEF Sheet, Differs
  <2>4. Books(Maps', {}, pings', running')
    BY <1>1, <2>3
  <2>5. Waits(Maps')
    <3>1. shown.servers[k].free_threads > 0 /\ Occupied(shown.servers, k)
      <4>1. shown.servers \in [Key -> dest_info] /\ k # NoKey
        BY <1>0, <1>1, ShownTypes, CntFacts
      <4> QED
        BY <2>1, <4>1, BackendSelection
    <3>2. shown.queue = << >>
      BY <1>1, <1>4, <3>1 DEF Waits
    <3> QED
      BY <2>1, <3>2 DEF Waits
  <2> QED
    BY <1>0, <1>1, <1>3, <2>3, <2>4, <2>5, EndAccount
<1> QED
  BY <1>5, <1>6

-----------------------------------------------------------------------------
(* Every step keeps the books as long as the invocations do not overlap. *)

LEMMA StepAlone ==
  ASSUME Undisturbed, ~overlapped, SmpTypeOK, Locals, Account, NEW c \in CPU, Step(c)
  PROVE  Alone(c)
<1>1. c \in Working
  BY DEF Step, ReadCnt, Learn, ReadSlot, WriteSlot, Load, Store, CopyLoad, CopyStore,
         Peek, Select, Pop, Push, Send, At, Working
<1> QED
  BY <1>1 DEF Undisturbed, Alone

LEMMA OnAccount ==
  ASSUME NEW c \in CPU, Alone(c), Step(c), pc'[c] # "idle", shown' = shown
  PROVE  Account'
<1>1. SmpTypeOK /\ Locals /\ shown \in MapsType /\ Account
      /\ Stage(shown, Maps, pc[c], reg[c])
  BY DEF Alone
<1>2. Charges(pc[c], reg[c]) => reg[c].value \in Request
  BY <1>1 DEF Account
<1>3. /\ \A d \in CPU \ {c} : pc'[d] = pc[d] /\ reg'[d] = reg[d]
      /\ reg'[c].frame = reg[c].frame
      /\ Charges(pc'[c], reg'[c]) => reg'[c].value \in Request
      /\ UNCHANGED outer
  BY <1>1, <1>2, GoesOn
<1>4. \A d \in CPU : reg'[d].frame = reg[d].frame
  BY <1>3
<1>5. Handled' = Handled
  BY <1>4 DEF Handled
<1>6. \A d \in CPU : Charges(pc'[d], reg'[d]) => reg'[d].value \in Request
  <2> SUFFICES ASSUME NEW d \in CPU, Charges(pc'[d], reg'[d])
               PROVE  reg'[d].value \in Request
    OBVIOUS
  <2>1. CASE d = c
    BY <1>3, <2>1
  <2>2. CASE d # c
    BY <1>1, <1>3, <2>2 DEF Account
  <2> QED
    BY <2>1, <2>2
<1>7. /\ unsent' = unsent /\ pings' = pings /\ running' = running /\ sent' = sent
  BY <1>3 DEF outer
<1>8. unsent' # Request \/ (\E d \in CPU : reg'[d].frame \in Request) =>
        KnownIn(shown') = Server
  BY <1>1, <1>4, <1>7 DEF Account
<1>9. /\ Registry(shown') /\ Books(shown', Handled', pings', running')
      /\ Waits(shown') /\ sent'[NoRequest] = 0
  BY <1>1, <1>5, <1>7 DEF Account
<1> QED
  BY <1>6, <1>8, <1>9 DEF Account

LEMMA EndsAccount ==
  ASSUME Deployed, NEW c \in CPU, Alone(c), SmpTypeOK', shown' = Maps', Step(c),
         pc'[c] = "idle"
  PROVE  Account'
<1>0. SmpTypeOK /\ Locals
  BY DEF Alone
<1>1. ASSUME NEW p \in Pc \ {"idle"}, NEW r, Goto(c, p, r) PROVE FALSE
  BY <1>0, <1>1, GotoView
<1>2. {"learn", "read_slot", "write_slot", "load", "store", "copy_load", "copy_store",
       "peek", "select", "pop", "push", "send"} \subseteq Pc \ {"idle"}
  BY DEF Pc, Announced, Updating
<1>3. ~ReadCnt(c) /\ ~Learn(c)
  BY <1>1, <1>2 DEF ReadCnt, Learn
<1>4. ~ReadSlot(c) /\ ~WriteSlot(c)
  BY <1>1, <1>2 DEF ReadSlot, WriteSlot, Update
<1>5. ~Load(c) /\ ~CopyLoad(c)
  BY <1>1, <1>2 DEF Load, CopyLoad
<1>6. ~Store(c)
  BY <1>1, <1>2 DEF Store
<1>7. CASE CopyStore(c)
  <2>1. reg[c].op \in {"count", "credit", "charge"}
    BY <1>0, <1>7 DEF CopyStore, At, SmpTypeOK, Locals, Sound, Updating, Registers, Op
  <2>2. reg[c].op = "count"
    BY <1>1, <1>2, <1>7, <2>1 DEF CopyStore
  <2> QED
    BY <1>7, <2>2, RegisterEnds
<1>8. CASE Peek(c)
  <2>1. queue = << >>
    BY <1>1, <1>2, <1>8 DEF Peek
  <2> QED
    BY <1>8, <2>1, PeekEnds
<1>9. ~Select(c)
  <2>1. SUFFICES ASSUME Select(c) PROVE FALSE
    OBVIOUS
  <2>2. Return(c)
    BY <1>1, <1>2, <2>1 DEF Select
  <2> QED
    BY <2>1, <2>2, SelectFinds
<1>10. ~Pop(c)
  <2>1. SUFFICES ASSUME Pop(c) PROVE FALSE
    OBVIOUS
  <2>2. FALSE \notin TailGrows /\ TailGrows \subseteq BOOLEAN
    BY TailAssumption DEF Deployed
  <2>3. \A grown \in TailGrows : grown = TRUE
    BY <2>2
  <2> QED
    BY <1>1, <1>2, <2>1, <2>3 DEF Pop
<1> QED
  BY <1>3, <1>4, <1>5, <1>6, <1>7, <1>8, <1>9, <1>10, PushEnds, SendEnds DEF Step

\* All CPUs are idle, so that no ping is being handled.
LEMMA NoneHandled ==
  ASSUME SmpTypeOK, Locals, Working = {}
  PROVE  /\ \A d \in CPU : pc[d] = "idle" /\ reg[d] = Blank
         /\ Handled = {}
<1>1. \A d \in CPU : pc[d] = "idle"
  BY DEF Working, At
<1>2. \A d \in CPU : reg[d] = Blank
  BY <1>1 DEF Locals, Sound
<1> QED
  BY <1>1, <1>2, BlankFrame DEF Handled

\* The threads of a known host, and sums of them.
LEMMA KnownFree ==
  ASSUME NEW sh \in MapsType, Registry(sh), NEW t \in Server, sh.ip_to_key[t] # NoKey
  PROVE  sh.servers[sh.ip_to_key[t]].free_threads \in Nat
BY ShownTypes DEF Registry, KnownIn

LEMMA SameSum ==
  ASSUME NEW f \in Nat, NEW a \in Int, NEW b \in Int, NEW h \in Int,
         NEW x \in Int, NEW y \in Int, NEW z \in Int,
         x + y + z = a + b + h, f + a + b + h = MAX_THREADS
  PROVE  f + x + y + z = MAX_THREADS
BY SizesAssumption

LEMMA PingAccount ==
  ASSUME SmpTypeOK, Locals, shown \in MapsType, Account, Working = {}, NEW c \in CPU, NEW s \in Server,
         LookupKey(c, s), shown' = shown
  PROVE  Account'
<1> DEFINE p == IF ip_to_key[s] = NoKey THEN "read_cnt" ELSE "read_slot"
           r == [Blank EXCEPT !.frame = s, !.key = ip_to_key[s]]
<1>1. (\A d \in CPU : pc[d] = "idle" /\ reg[d] = Blank) /\ Handled = {}
  BY NoneHandled
<1>2. /\ Goto(c, p, r) /\ pings[s] > 0 /\ pings' = [pings EXCEPT ![s] = @ - 1]
      /\ unsent' = unsent /\ running' = running /\ sent' = sent
  BY DEF LookupKey
<1>3. r.frame = s /\ ~Charges(p, r)
  BY DEF Blank, Charges, Updating
<1> HIDE DEF p, r
<1>4. /\ pc'[c] = p /\ reg'[c] = r
      /\ \A d \in CPU \ {c} : pc'[d] = "idle" /\ reg'[d] = Blank
  BY <1>1, <1>2, GotoView
<1>5. Handled' = {s}
  BY <1>3, <1>4, BlankFrame DEF Handled
<1>6. /\ \A d \in CPU : ~Charges(pc'[d], reg'[d])
      /\ \A d \in CPU : reg'[d].frame \notin Request
  BY <1>3, <1>4, BlankFrame, FrameAssumption
<1>7. Books(shown, {s}, pings', running)
  <2>1. Books(shown, {}, pings, running) /\ pings \in [Server -> Nat]
    BY <1>1 DEF Account, SmpTypeOK
  <2>2. pings'[s] + 1 = pings[s] /\ \A t \in Server \ {s} : pings'[t] = pings[t]
    BY <1>2, <2>1
  <2>3. ASSUME NEW t \in Server
        PROVE  /\ pings'[t] \in Int
               /\ pings'[t] + (IF t \in {s} THEN 1 ELSE 0) = pings[t]
    BY <1>2, <2>1, <2>2
  <2>4. ASSUME NEW t \in Server, shown.ip_to_key[t] = NoKey
        PROVE  running[t] = 0 /\ pings'[t] + (IF t \in {s} THEN 1 ELSE 0) = 1
    BY <2>1, <2>3, <2>4 DEF Books
  <2>5. ASSUME NEW t \in Server, shown.ip_to_key[t] # NoKey
        PROVE  shown.servers[shown.ip_to_key[t]].free_threads + running[t] + pings'[t]
                 + (IF t \in {s} THEN 1 ELSE 0) = MAX_THREADS
    <3>1. shown.servers[shown.ip_to_key[t]].free_threads + running[t] + pings[t]
            + 0 = MAX_THREADS
      BY <2>1, <2>5 DEF Books
    <3>2. shown.servers[shown.ip_to_key[t]].free_threads \in Nat
      BY <2>5, KnownFree DEF Account
    <3>3. running[t] \in Int /\ pings[t] \in Int /\ (IF t \in {s} THEN 1 ELSE 0) \in Int
      BY DEF SmpTypeOK
    <3>4. running[t] + pings'[t] + (IF t \in {s} THEN 1 ELSE 0) = running[t] + pings[t] + 0
      BY <2>3, <3>3
    <3> QED
      BY <2>3, <3>1, <3>2, <3>3, <3>4, SameSum
  <2> QED
    BY <2>4, <2>5 DEF Books
<1>8. unsent' # Request \/ (\E d \in CPU : reg'[d].frame \in Request) =>
        KnownIn(shown') = Server
  BY <1>2, <1>6 DEF Account
<1>9. /\ Registry(shown') /\ Books(shown', Handled', pings', running')
      /\ Waits(shown') /\ sent'[NoRequest] = 0
  BY <1>2, <1>5, <1>7 DEF Account
<1> QED
  BY <1>6, <1>8, <1>9 DEF Account

\* The client starts when every worker has registered.
LEMMA RequestAccount ==
  ASSUME Deployed, SmpTypeOK, Locals, Account, Working = {}, NEW c \in CPU,
         NEW v \in Request, LookupRequest(c, v), shown' = shown
  PROVE  Account'
<1> DEFINE r == [Blank EXCEPT !.frame = v]
<1>1. (\A d \in CPU : pc[d] = "idle" /\ reg[d] = Blank) /\ Handled = {}
  BY NoneHandled
<1>2. /\ Goto(c, "select", r)
      /\ unsent = Request => \A s \in Server : pings[s] = 0
      /\ pings' = pings /\ running' = running /\ sent' = sent
  BY DEF LookupRequest, Deployed
<1>3. r.frame = v /\ ~Charges("select", r)
  BY DEF Blank, Charges, Updating
<1> HIDE DEF r
<1>4. /\ pc'[c] = "select" /\ reg'[c] = r
      /\ \A d \in CPU \ {c} : pc'[d] = "idle" /\ reg'[d] = Blank
  BY <1>1, <1>2, GotoView
<1>5. Handled' = {}
  BY <1>3, <1>4, BlankFrame, FrameAssumption DEF Handled
<1>6. \A d \in CPU : ~Charges(pc'[d], reg'[d])
  BY <1>3, <1>4, BlankFrame
<1>7. KnownIn(shown) = Server
  <2>1. CASE unsent # Request
    BY <2>1 DEF Account
  <2>2. CASE unsent = Request
    <3>1. Books(shown, {}, pings, running)
      BY <1>1 DEF Account
    <3>2. ASSUME NEW s \in Server PROVE shown.ip_to_key[s] # NoKey
      BY <1>2, <2>2, <3>1 DEF Books
    <3> QED
      BY <3>2 DEF KnownIn
  <2> QED
    BY <2>1, <2>2
<1>8. /\ Registry(shown') /\ Books(shown', Handled', pings', running')
      /\ Waits(shown') /\ sent'[NoRequest] = 0
  BY <1>1, <1>2, <1>5 DEF Account
<1> QED
  BY <1>6, <1>7, <1>8 DEF Account

LEMMA FinishAccount ==
  ASSUME SmpTypeOK, shown \in MapsType, Account, NEW s \in Server, Finish(s), shown' = shown
  PROVE  Account'
<1>1. /\ running[s] > 0 /\ running' = [running EXCEPT ![s] = @ - 1]
      /\ pings' = [pings EXCEPT ![s] = @ + 1]
      /\ UNCHANGED <<pc, reg, unsent, sent>>
  BY DEF Finish
<1>2. Handled' = Handled
  BY <1>1 DEF Handled
<1>3. Books(shown, Handled, pings', running')
  <2>1. /\ Books(shown, Handled, pings, running)
        /\ pings \in [Server -> Nat] /\ running \in [Server -> Nat]
    BY DEF Account, SmpTypeOK
  <2>2. CASE shown.ip_to_key[s] = NoKey
    BY <1>1, <2>1, <2>2 DEF Books
  <2>3. CASE shown.ip_to_key[s] # NoKey
    <3>1. ASSUME NEW t \in Server
          PROVE  /\ running'[t] + pings'[t] = running[t] + pings[t]
                 /\ running'[t] \in Int /\ pings'[t] \in Int
                 /\ t # s => running'[t] = running[t] /\ pings'[t] = pings[t]
      BY <1>1, <2>1
    <3>2. ASSUME NEW t \in Server, shown.ip_to_key[t] = NoKey
          PROVE  running'[t] = 0 /\ pings'[t] + (IF t \in Handled THEN 1 ELSE 0) = 1
      <4>1. t # s
        BY <2>3, <3>2
      <4>2. running'[t] = running[t] /\ pings'[t] = pings[t]
        BY <3>1, <4>1
      <4> QED
        BY <2>1, <3>2, <4>2 DEF Books
    <3>3. ASSUME NEW t \in Server, shown.ip_to_key[t] # NoKey
          PROVE  shown.servers[shown.ip_to_key[t]].free_threads + running'[t] + pings'[t]
                   + (IF t \in Handled THEN 1 ELSE 0) = MAX_THREADS
      <4>1. shown.servers[shown.ip_to_key[t]].free_threads + running[t] + pings[t]
              + (IF t \in Handled THEN 1 ELSE 0) = MAX_THREADS
        BY <2>1, <3>3 DEF Books
      <4>2. running[t] \in Int /\ pings[t] \in Int
            /\ (IF t \in Handled THEN 1 ELSE 0) \in Int
        BY <2>1
      <4>3. shown.servers[shown.ip_to_key[t]].free_threads \in Nat
        BY <3>3, KnownFree DEF Account
      <4>4. running'[t] + pings'[t] + (IF t \in Handled THEN 1 ELSE 0)
              = running[t] + pings[t] + (IF t \in Handled THEN 1 ELSE 0)
        BY <3>1, <4>2
      <4>5. running'[t] \in Int /\ pings'[t] \in Int
        BY <3>1
      <4> DEFINE h == IF t \in Handled THEN 1 ELSE 0
                 f == shown.servers[shown.ip_to_key[t]].free_threads
      <4>6. /\ f + running[t] + pings[t] + h = MAX_THREADS /\ f \in Nat /\ h \in Int
            /\ running'[t] + pings'[t] + h = running[t] + pings[t] + h
        BY <4>1, <4>2, <4>3, <4>4
      <4>7. f + running'[t] + pings'[t] + h = MAX_THREADS
        <5> HIDE DEF f, h
        <5> QED
          BY <4>2, <4>5, <4>6, SameSum
      <4> QED
        BY <4>7
    <3> QED
      BY <3>2, <3>3 DEF Books
  <2> QED
    BY <2>2, <2>3
<1> QED
  BY <1>1, <1>2, <1>3 DEF Account

LEMMA AccountKept ==
  ASSUME Deployed, Undisturbed, SmpTypeOK, Locals, Account,
         [AtomicNext]_<<vars, shown, overlapped>>, ~overlapped, ~overlapped'
  PROVE  Account'
<1>1. SmpTypeOK' /\ Locals'
  BY AtomicKept
<1>2. CASE UNCHANGED <<vars, shown, overlapped>>
  <2>1. UNCHANGED <<pc, reg, shown, unsent, pings, running, sent>>
    BY <1>2 DEF vars, outer
  <2> QED
    BY <2>1 DEF Account, Handled
<1>3. CASE AtomicNext
  <2>1. /\ shown' = IF Working' = {} THEN Maps' ELSE shown
        /\ shown \in MapsType
        /\ overlapped' = \/ Working # {} /\ overlapped
                         \/ Cardinality(Working') > 1
    BY <1>3 DEF AtomicNext, Undisturbed
  <2>2. CASE \E s \in Server : Finish(s)
    <3>1. PICK s \in Server : Finish(s)
      BY <2>2
    <3>2. Working' = Working /\ Maps' = Maps
      BY <3>1 DEF Finish, Working, At, Maps, lbvars
    <3>3. shown' = shown
      BY <2>1, <3>2 DEF Undisturbed
    <3> QED
      BY <2>1, <3>1, <3>3, FinishAccount
  <2>3. CASE Idle
    <3>1. Working' = Working /\ Maps' = Maps
      BY <2>3 DEF Idle, Working, At, Maps, vars, lbvars
    <3>2. shown' = shown
      BY <2>1, <3>1 DEF Undisturbed
    <3>3. UNCHANGED <<pc, reg, shown, unsent, pings, running, sent>>
      BY <2>3, <3>2 DEF Idle, vars, outer
    <3> QED
      BY <3>3 DEF Account, Handled
  <2>4. ASSUME NEW c \in CPU,
               \/ \E s \in Server : LookupKey(c, s)
               \/ \E v \in Request : LookupRequest(c, v)
        PROVE  Account'
    <3>1. Working' = Working \cup {c} /\ c \notin Working
      BY <2>4, LookupStarts
    <3>2. shown' = shown
      BY <2>1, <3>1
    <3>3. Working = {}
      BY <2>1, <3>1, StartsAlone
    <3> QED
      BY <2>1, <2>4, <3>2, <3>3, PingAccount, RequestAccount
  <2>5. ASSUME NEW c \in CPU, Step(c) PROVE Account'
    <3>1. Alone(c)
      BY <2>5, StepAlone
    <3>2. CASE pc'[c] # "idle"
      <4>1. c \in Working'
        BY <3>2 DEF Working, At
      <4>2. shown' = shown
        BY <2>1, <4>1
      <4> QED
        BY <2>5, <3>1, <3>2, <4>2, OnAccount
    <3>3. CASE pc'[c] = "idle"
      <4>1. \A d \in CPU \ {c} : pc[d] = "idle"
        BY <3>1 DEF Alone, Working, At
      <4>2. \A d \in CPU \ {c} : pc'[d] = pc[d]
        BY <2>5, StepLocal
      <4>3. Working' = {}
        BY <3>3, <4>1, <4>2 DEF Working, At
      <4>4. shown' = Maps'
        BY <2>1, <4>3
      <4> QED
        BY <1>1, <2>5, <3>1, <3>3, <4>4, EndsAccount
    <3> QED
      BY <3>2, <3>3
  <2> QED
    BY <1>3, <2>2, <2>3, <2>4, <2>5 DEF AtomicNext, Next
<1> QED
  BY <1>2, <1>3

LEMMA AccountStart ==
  ASSUME AtomicInit
  PROVE  Account
<1>1. /\ shown = Maps /\ Init
  BY DEF AtomicInit
<1>2. /\ pc = [c \in CPU |-> "idle"] /\ reg = [c \in CPU |-> Blank]
      /\ unsent = Request /\ pings = [s \in Server |-> 1]
      /\ running = [s \in Server |-> 0] /\ sent = [v \in Payload |-> 0]
  BY <1>1 DEF Init
<1>3. /\ shown.ip_to_key = [s \in Server |-> NoKey] /\ shown.server_cnt = 0
      /\ shown.queue = << >> /\ \A k \in Key : ~Occupied(shown.servers, k)
  BY <1>1, MapsFields, ServersAssumption DEF Init, LbInit, Occupied
<1>4. KnownIn(shown) = {} /\ Cardinality({}) = 0
  BY <1>3, FS_EmptySet DEF KnownIn
<1>5. Registry(shown)
  <2>1. \A k \in Key : ~(k < 0)
    BY DEF Key
  <2> QED
    BY <1>3, <1>4, <2>1 DEF Registry
<1>6. Handled = {}
  BY <1>2, BlankFrame DEF Handled
<1>7. Books(shown, Handled, pings, running)
  <2>1. ASSUME NEW s \in Server
        PROVE  shown.ip_to_key[s] = NoKey /\ running[s] = 0 /\ pings[s] = 1
    BY <1>2, <1>3
  <2> QED
    BY <1>6, <2>1 DEF Books
<1>8. Waits(shown)
  BY <1>3 DEF Waits
<1>9. \A c \in CPU : reg[c].frame \notin Request /\ ~Charges(pc[c], reg[c])
  BY <1>2, BlankFrame
<1>10. sent[NoRequest] = 0
  BY <1>2 DEF Payload
<1> QED
  BY <1>2, <1>5, <1>7, <1>8, <1>9, <1>10 DEF Account

\* Right books are those of AtRest when nothing is under way.
LEMMA AccountAtRest ==
  ASSUME Server # {}, Undisturbed, SmpTypeOK, Locals, Account
  PROVE  AtRest
<1> SUFFICES ASSUME Quiet
             PROVE  /\ \A s \in Server : \E k \in Key : servers[k].saddr = s
                    /\ \A k \in Key : Occupied(servers, k) =>
                         servers[k].free_threads = MAX_THREADS
                    /\ queue = << >>
                    /\ sent[NoRequest] = 0
  BY DEF AtRest
<1>1. Working = {}
  BY DEF Quiet, Working
<1>2. shown = Maps /\ shown \in MapsType /\ Handled = {}
  BY <1>1, NoneHandled DEF Undisturbed
<1>3. shown.servers = servers /\ shown.queue = queue
  BY <1>2, MapsFields
<1>4. /\ Registry(shown) /\ Books(shown, {}, pings, running) /\ Waits(shown)
      /\ \A s \in Server : pings[s] = 0 /\ running[s] = 0
  BY <1>2 DEF Account, Quiet
<1>5. ASSUME NEW s \in Server
      PROVE  /\ shown.ip_to_key[s] \in Key /\ servers[shown.ip_to_key[s]].saddr = s
             /\ servers[shown.ip_to_key[s]].free_threads = MAX_THREADS
  <2>1. shown.ip_to_key[s] # NoKey
    BY <1>4 DEF Books
  <2>2. shown.ip_to_key[s] \in Key /\ shown.servers[shown.ip_to_key[s]].saddr = s
    BY <1>4, <2>1 DEF Registry, KnownIn
  <2>3. shown.servers[shown.ip_to_key[s]].free_threads + 0 + 0 + 0 = MAX_THREADS
    BY <1>4, <2>1 DEF Books
  <2>4. shown.servers[shown.ip_to_key[s]].free_threads \in Nat
    BY <1>2, <1>4, <2>1, KnownFree
  <2>5. shown.servers[shown.ip_to_key[s]].free_threads = MAX_THREADS
    BY <2>3, <2>4
  <2> QED
    BY <1>3, <2>2, <2>5
<1>6. ASSUME NEW k \in Key, Occupied(servers, k)
      PROVE  servers[k].free_threads = MAX_THREADS
  <2>1. servers[k].saddr \in Server /\ shown.ip_to_key[servers[k].saddr] = k
    BY <1>2, <1>3, <1>4, <1>6, ShownTypes DEF Registry
  <2> QED
    BY <1>5, <2>1
<1>7. queue = << >>
  <2>1. PICK s \in Server : TRUE
    OBVIOUS
  <2> DEFINE k == shown.ip_to_key[s]
  <2>2. k \in Key /\ servers[k].saddr = s /\ servers[k].free_threads = MAX_THREADS
    BY <1>5
  <2>3. Occupied(servers, k)
    BY <2>2, ServersAssumption DEF Occupied
  <2>4. MAX_THREADS # 0
    BY SizesAssumption
  <2> QED
    BY <1>3, <1>4, <2>2, <2>3, <2>4 DEF Waits
<1> QED
  BY <1>5, <1>6, <1>7 DEF Account

(* Overlapping invocations are all that can spoil the books of lb.c.  When *)
(* the workers fit into the maps, the client starts after them and frames  *)
(* can be grown, then in every behaviour in which no two CPUs are ever at  *)
(* work at the same time, at rest every worker is registered, all threads  *)
(* are free, no job waits and only jobs of the client were sent.           *)
THEOREM RestWithoutOverlap ==
  ASSUME Deployed, Server # {}
  PROVE  AtomicSpec /\ []~overlapped => []AtRest
<1> DEFINE Inv == Undisturbed /\ SmpTypeOK /\ Locals /\ Account
<1>1. AtomicInit => Inv
  BY AccountStart, UndisturbedStart
<1>2. Inv /\ [AtomicNext]_<<vars, shown, overlapped>> /\ ~overlapped /\ ~overlapped' => Inv'
  BY AtomicKept, AccountKept DEF Kept
<1>3. Inv => AtRest
  BY AccountAtRest
<1> QED
  BY <1>1, <1>2, <1>3, PTL DEF AtomicSpec

(* When one CPU runs lb.c, its invocations cannot overlap: every thread is *)
(* charged and credited exactly once, and whenever nothing is under way    *)
(* all threads are free and no job is left in the queue.                   *)
THEOREM OneCpuAtRest ==
  ASSUME Deployed, Server # {}, NEW c, CPU = {c}
  PROVE  AtomicSpec => []AtRest
<1>1. AtomicInit => ~overlapped
  BY DEF AtomicInit
<1>2. Cardinality(Working') <= 1
  <2>1. Working' \subseteq {c}
    BY DEF Working
  <2>2. IsFiniteSet({c}) /\ Cardinality({c}) = 1
    BY FS_Singleton
  <2> QED
    BY <2>1, <2>2, FS_Subset
<1>3. Cardinality(Working') \in Nat
  <2>1. Working' \subseteq {c}
    BY DEF Working
  <2> QED
    BY <2>1, FS_Singleton, FS_Subset, FS_CardinalityType
<1>4. ~overlapped /\ [AtomicNext]_<<vars, shown, overlapped>> => ~overlapped'
  <2>1. ~(Cardinality(Working') > 1)
    BY <1>2, <1>3
  <2>2. ~overlapped /\ AtomicNext => ~overlapped'
    BY <2>1 DEF AtomicNext
  <2> QED
    BY <2>2
<1>5. AtomicSpec /\ []~overlapped => []AtRest
  BY RestWithoutOverlap
<1> QED
  BY <1>1, <1>4, <1>5, PTL DEF AtomicSpec
=============================================================================
