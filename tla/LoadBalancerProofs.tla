------------------------- MODULE LoadBalancerProofs -------------------------
(***************************************************************************)
(* Proofs about lb.c in any surroundings.                                  *)
(***************************************************************************)
EXTENDS LoadBalancer, FiniteSetTheorems, TLAPS

(* get_available_backend returns a registered backend with a free thread   *)
(* that no other backend exceeds, and "none" only when no thread is free.  *)
LEMMA BackendSelection ==
  ASSUME NEW srv \in [Key -> dest_info]
  PROVE  LET b == get_available_backend(srv) IN
         /\ b \in Key \cup {NoKey}
         /\ b # NoKey => /\ Occupied(srv, b)
                         /\ srv[b].free_threads > 0
                         /\ \A k \in Key : Occupied(srv, k) =>
                              srv[k].free_threads <= srv[b].free_threads
         /\ b = NoKey => \A k \in Key : Occupied(srv, k) =>
                           srv[k].free_threads = 0
<1>1. Key = {0, 1, 2} /\ NoKey \notin Key
  BY DEF Key, MAX_SERVERS, NoKey
<1>2. \A k \in Key : srv[k].free_threads \in Nat
  BY SizesAssumption DEF dest_info, Cnt
<1> QED
  BY <1>1, <1>2 DEF get_available_backend, Visit, Occupied

-----------------------------------------------------------------------------
\* A slot is credited, charged or filled, and stays a slot.
LEMMA ReturnThreadType ==
  ASSUME NEW srv \in [Key -> dest_info], NEW k \in Key,
         \A j \in Key : srv[j].free_threads <= MAX_THREADS
  PROVE  /\ ReturnThread(srv, k) \in [Key -> dest_info]
         /\ ReturnThread(srv, k)[k].free_threads =
              IF srv[k].free_threads = MAX_THREADS THEN MAX_THREADS
              ELSE srv[k].free_threads + 1
         /\ \A j \in Key : /\ ReturnThread(srv, k)[j].saddr = srv[j].saddr
                           /\ ReturnThread(srv, k)[j].free_threads <= MAX_THREADS
                           /\ j # k => ReturnThread(srv, k)[j] = srv[j]
<1>1. srv[k].free_threads \in Nat /\ srv[k].free_threads + 1 \in 0 .. (U16 - 1)
  BY SizesAssumption DEF dest_info, Cnt
<1>2. (srv[k].free_threads + 1) % U16 = srv[k].free_threads + 1
  BY <1>1, SizesAssumption
<1> QED
  BY <1>1, <1>2, SizesAssumption DEF ReturnThread, WithFree, dest_info, Cnt

LEMMA TakeThreadType ==
  ASSUME NEW srv \in [Key -> dest_info], NEW k \in Key,
         \A j \in Key : srv[j].free_threads <= MAX_THREADS,
         srv[k].free_threads > 0
  PROVE  /\ TakeThread(srv, k) \in [Key -> dest_info]
         /\ TakeThread(srv, k)[k].free_threads = srv[k].free_threads - 1
         /\ \A j \in Key : /\ TakeThread(srv, k)[j].saddr = srv[j].saddr
                           /\ TakeThread(srv, k)[j].free_threads <= MAX_THREADS
                           /\ j # k => TakeThread(srv, k)[j] = srv[j]
<1>1. srv[k].free_threads \in Nat /\ srv[k].free_threads - 1 \in 0 .. (U16 - 1)
  BY SizesAssumption DEF dest_info, Cnt
<1>2. (srv[k].free_threads - 1) % U16 = srv[k].free_threads - 1
  BY <1>1, SizesAssumption
<1> QED
  BY <1>1, <1>2, SizesAssumption DEF TakeThread, WithFree, dest_info, Cnt

-----------------------------------------------------------------------------
(* The queue as a sequence. *)

LEMMA AppendElements ==
  ASSUME NEW q \in Seq(Request), NEW r \in Request
  PROVE  Elements(Append(q, r)) = Elements(q) \cup {r}
<1>1. ASSUME NEW x \in Elements(Append(q, r)) PROVE x \in Elements(q) \cup {r}
  BY <1>1 DEF Elements
<1>2. ASSUME NEW x \in Elements(q) PROVE x \in Elements(Append(q, r))
  <2>1. PICK i \in 1 .. Len(q) : x = q[i]
    BY <1>2 DEF Elements
  <2>2. i \in 1 .. Len(Append(q, r)) /\ Append(q, r)[i] = q[i]
    BY <2>1
  <2> QED
    BY <2>1, <2>2 DEF Elements
<1>3. r \in Elements(Append(q, r))
  <2>1. Len(q) + 1 \in 1 .. Len(Append(q, r))
        /\ Append(q, r)[Len(q) + 1] = r
    OBVIOUS
  <2> QED
    BY <2>1 DEF Elements
<1> QED
  BY <1>1, <1>2, <1>3

LEMMA TailElements ==
  ASSUME NEW q \in Seq(Request), q # << >>,
         \A i, j \in 1 .. Len(q) : q[i] = q[j] => i = j
  PROVE  /\ Head(q) \in Elements(q)
         /\ Elements(Tail(q)) = Elements(q) \ {Head(q)}
         /\ \A i, j \in 1 .. Len(Tail(q)) : Tail(q)[i] = Tail(q)[j] => i = j
<1>1. /\ Len(q) \in Nat
      /\ Len(q) >= 1
      /\ Head(q) = q[1]
      /\ Len(Tail(q)) = Len(q) - 1
      /\ \A i \in 1 .. Len(Tail(q)) : Tail(q)[i] = q[i + 1]
  OBVIOUS
<1>2. Head(q) \in Elements(q)
  BY <1>1 DEF Elements
<1>3. ASSUME NEW x \in Elements(Tail(q)) PROVE x \in Elements(q) \ {Head(q)}
  <2>1. PICK i \in 1 .. Len(Tail(q)) : x = Tail(q)[i]
    BY <1>3 DEF Elements
  <2>2. i + 1 \in 1 .. Len(q) /\ x = q[i + 1] /\ i + 1 # 1 /\ 1 \in 1 .. Len(q)
    BY <1>1, <2>1
  <2> QED
    BY <1>1, <2>2 DEF Elements
<1>4. ASSUME NEW x \in Elements(q) \ {Head(q)} PROVE x \in Elements(Tail(q))
  <2>1. PICK i \in 1 .. Len(q) : x = q[i]
    BY <1>4 DEF Elements
  <2>2. i - 1 \in 1 .. Len(Tail(q)) /\ Tail(q)[i - 1] = x
    BY <1>1, <1>4, <2>1
  <2> QED
    BY <2>2 DEF Elements
<1>5. ASSUME NEW i \in 1 .. Len(Tail(q)), NEW j \in 1 .. Len(Tail(q)),
             Tail(q)[i] = Tail(q)[j]
      PROVE  i = j
  <2>1. i + 1 \in 1 .. Len(q) /\ j + 1 \in 1 .. Len(q) /\ q[i + 1] = q[j + 1]
    BY <1>1, <1>5
  <2> QED
    BY <2>1
<1> QED
  BY <1>2, <1>3, <1>4, <1>5

LEMMA AppendInjective ==
  ASSUME NEW q \in Seq(Request), NEW r \in Request, r \notin Elements(q),
         \A i, j \in 1 .. Len(q) : q[i] = q[j] => i = j
  PROVE  \A i, j \in 1 .. Len(Append(q, r)) :
           Append(q, r)[i] = Append(q, r)[j] => i = j
<1> SUFFICES ASSUME NEW i \in 1 .. Len(Append(q, r)),
                    NEW j \in 1 .. Len(Append(q, r)),
                    Append(q, r)[i] = Append(q, r)[j]
             PROVE  i = j
  OBVIOUS
<1>1. \A m \in 1 .. Len(q) : q[m] # r
  BY DEF Elements
<1> QED
  BY <1>1

-----------------------------------------------------------------------------
LEMMA KnownFinite ==
  /\ IsFiniteSet(Known)
  /\ Cardinality(Known) \in Nat
<1>1. Known \subseteq Server
  BY DEF Known
<1> QED
  BY <1>1, ServersAssumption, FS_Subset, FS_CardinalityType

\* A ping for a slot in use leaves the hash map alone: its sender is known,
\* or server_cnt has wrapped and the hash is full.
LEMMA CompletionKeepsKeys ==
  ASSUME LbInv, NEW s \in Server, Occupied(servers, KeyOf(s)), LearnKey(s)
  PROVE  ip_to_key' = ip_to_key
<1>1. CASE ip_to_key[s] # NoKey
  BY <1>1 DEF LearnKey
<1>2. CASE ip_to_key[s] = NoKey
  <2>1. KeyOf(s) = server_cnt
    BY <1>2 DEF KeyOf
  <2>2. ~(Cardinality(Known) < MAX_SERVERS)
    BY <2>1, KnownFinite DEF LbInv, CntSound, LbTypeOK, Occupied, Cnt
  <2> QED
    BY <2>2 DEF LearnKey
<1> QED
  BY <1>1, <1>2

\* Steps that change no address and no key keep the maps consistent.
LEMMA SameAddresses ==
  ASSUME LbInv, LbTypeOK', ip_to_key' = ip_to_key, server_cnt' = server_cnt,
         \A k \in Key : servers'[k].saddr = servers[k].saddr
  PROVE  LbInv'
<1>1. Known' = Known
  BY DEF Known
<1> QED
  BY <1>1 DEF LbInv, KeysSound, CntSound, Occupied

\* The first ping of a host fills the slot server_cnt, and once the hash is
\* full a ping from an unknown host only moves server_cnt.
LEMMA RegisterCases ==
  ASSUME LbInv, NEW s \in Server, NEW v, Register(s, v)
  PROVE  /\ ip_to_key[s] = NoKey
         /\ \/ /\ Cardinality(Known) < MAX_SERVERS
               /\ server_cnt \in Key
               /\ server_cnt' = server_cnt + 1
               /\ servers' = [servers EXCEPT ![server_cnt] =
                                [saddr |-> s, free_threads |-> MAX_THREADS]]
               /\ ip_to_key' = [ip_to_key EXCEPT ![s] = server_cnt]
            \/ /\ Cardinality(Known) = MAX_SERVERS
               /\ servers' = servers
               /\ ip_to_key' = ip_to_key
<1>1. ip_to_key[s] = NoKey
  <2>1. SUFFICES ASSUME ip_to_key[s] # NoKey PROVE FALSE
    OBVIOUS
  <2>2. s \in Known /\ KeyOf(s) = ip_to_key[s]
    BY <2>1 DEF Known, KeyOf
  <2>3. Occupied(servers, KeyOf(s))
    BY <2>2, ServersAssumption DEF LbInv, KeysSound, Occupied
  <2> QED
    BY <2>3 DEF Register
<1>2. KeyOf(s) = server_cnt
  BY <1>1 DEF KeyOf
<1>3. CASE Cardinality(Known) < MAX_SERVERS
  <2>1. server_cnt = Cardinality(Known) /\ server_cnt \in Key
    BY <1>3, KnownFinite DEF LbInv, CntSound, Key, MAX_SERVERS
  <2>2. (server_cnt + 1) % U16 = server_cnt + 1
    BY <2>1, SizesAssumption DEF Key, MAX_SERVERS
  <2> QED
    BY <1>1, <1>2, <1>3, <2>1, <2>2 DEF Register, LearnKey
<1>4. CASE ~(Cardinality(Known) < MAX_SERVERS)
  <2>1. Cardinality(Known) = MAX_SERVERS
    BY <1>4, KnownFinite DEF LbInv, CntSound, MAX_SERVERS
  <2>2. server_cnt \notin Key
    BY <1>2, <2>1 DEF LbInv, CntSound, Register
  <2> QED
    BY <1>1, <1>2, <1>4, <2>1, <2>2 DEF Register, LearnKey
<1> QED
  BY <1>3, <1>4

LEMMA RegisterInv ==
  ASSUME LbInv, NEW s \in Server, NEW v, Register(s, v)
  PROVE  LbInv'
<1> USE DEF LbInv
<1>1. ip_to_key[s] = NoKey
  BY RegisterCases
<1>2. queue' = queue /\ server_cnt' \in Cnt
  BY SizesAssumption DEF Register, LbTypeOK, Cnt
<1>3. CASE /\ Cardinality(Known) < MAX_SERVERS
           /\ server_cnt \in Key
           /\ server_cnt' = server_cnt + 1
           /\ servers' = [servers EXCEPT ![server_cnt] =
                            [saddr |-> s, free_threads |-> MAX_THREADS]]
           /\ ip_to_key' = [ip_to_key EXCEPT ![s] = server_cnt]
  <2>1. LbTypeOK'
    BY <1>2, <1>3, SizesAssumption DEF LbTypeOK, dest_info, Cnt
  <2>2. Known' = Known \cup {s} /\ s \notin Known
    BY <1>1, <1>3 DEF Known, LbTypeOK, NoKey, Key
  <2>3. Cardinality(Known') = Cardinality(Known) + 1
    BY <2>2, KnownFinite, FS_AddElement
  <2>4. server_cnt = Cardinality(Known)
        /\ \A k \in Key : Occupied(servers, k) <=> k < server_cnt
    BY <1>3 DEF CntSound
  <2>5. \A k \in Key : servers'[k] = IF k = server_cnt
                          THEN [saddr |-> s, free_threads |-> MAX_THREADS]
                          ELSE servers[k]
    BY <1>3 DEF LbTypeOK
  <2>6. \A h \in Server : ip_to_key'[h] = IF h = s THEN server_cnt
                                          ELSE ip_to_key[h]
    BY <1>3 DEF LbTypeOK
  <2>7. KeysSound'
    <3>1. ASSUME NEW h \in Known'
          PROVE  ip_to_key'[h] \in Key /\ servers'[ip_to_key'[h]].saddr = h
      <4>1. CASE h = s
        BY <1>3, <4>1, <2>5, <2>6
      <4>2. CASE h # s
        <5>1. h \in Known /\ h \in Server /\ ip_to_key'[h] = ip_to_key[h]
          BY <2>2, <2>6, <3>1, <4>2 DEF Known
        <5>2. ip_to_key[h] \in Key /\ servers[ip_to_key[h]].saddr = h
          BY <5>1 DEF KeysSound
        <5>3. Occupied(servers, ip_to_key[h])
          BY <5>1, <5>2, ServersAssumption DEF Occupied
        <5>4. ip_to_key[h] # server_cnt
          BY <2>4, <5>2, <5>3, KnownFinite
        <5> QED
          BY <2>5, <5>1, <5>2, <5>4
      <4> QED
        BY <4>1, <4>2
    <3>2. ASSUME NEW k \in Key, Occupied(servers', k)
          PROVE  ip_to_key'[servers'[k].saddr] = k
      <4>1. CASE k = server_cnt
        BY <2>5, <2>6, <4>1
      <4>2. CASE k # server_cnt
        <5>1. Occupied(servers, k) /\ servers'[k] = servers[k]
          BY <2>5, <3>2, <4>2 DEF Occupied
        <5>2. ip_to_key[servers[k].saddr] = k
          BY <5>1 DEF KeysSound
        <5>3. servers[k].saddr \in Server
          BY <5>1 DEF Occupied, LbTypeOK, dest_info
        <5> QED
          BY <1>1, <2>6, <5>1, <5>2, <5>3 DEF NoKey, Key
      <4> QED
        BY <4>1, <4>2
    <3> QED
      BY <3>1, <3>2 DEF KeysSound, Occupied
  <2>8. CntSound'
    <3>1. \A k \in Key : Occupied(servers, k)' <=> k < server_cnt + 1
      BY <2>4, <2>5, KnownFinite, ServersAssumption DEF Occupied, Key
    <3> QED
      BY <1>3, <2>3, <2>4, <3>1, KnownFinite DEF CntSound, Key, MAX_SERVERS
  <2> QED
    BY <2>1, <2>7, <2>8
<1>4. CASE Cardinality(Known) = MAX_SERVERS /\ servers' = servers
           /\ ip_to_key' = ip_to_key
  <2>1. Known' = Known
    BY <1>4 DEF Known
  <2>2. LbTypeOK'
    BY <1>2, <1>4 DEF LbTypeOK
  <2>3. KeysSound' /\ CntSound'
    BY <1>4, <2>1 DEF KeysSound, CntSound, Occupied, MAX_SERVERS
  <2> QED
    BY <2>2, <2>3
<1> QED
  BY <1>3, <1>4, RegisterCases

-----------------------------------------------------------------------------
\* What a completion does to the slots, before a waiting job is dispatched.
LEMMA CreditedSlots ==
  ASSUME LbInv, NEW s \in Server, Occupied(servers, KeyOf(s))
  PROVE  LET k == KeyOf(s)
             credited == ReturnThread(servers, k)
         IN  /\ k \in Key
             /\ credited \in [Key -> dest_info]
             /\ credited[k].free_threads > 0
             /\ Occupied(credited, k)
             /\ \A j \in Key : /\ credited[j].saddr = servers[j].saddr
                               /\ credited[j].free_threads <= MAX_THREADS
<1>1. KeyOf(s) \in Key
  BY DEF Occupied
<1>2. /\ servers \in [Key -> dest_info]
      /\ \A j \in Key : servers[j].free_threads <= MAX_THREADS
  BY DEF LbInv, LbTypeOK
<1>3. servers[KeyOf(s)].free_threads \in Nat
  BY <1>1, <1>2, SizesAssumption DEF dest_info, Cnt
<1> QED
  BY <1>1, <1>2, <1>3, ReturnThreadType, SizesAssumption DEF Occupied

LEMMA CompleteInv ==
  ASSUME LbInv, NEW s \in Server, NEW v, Complete(s, v)
  PROVE  LbInv'
<1>1. ip_to_key' = ip_to_key
  BY CompletionKeepsKeys DEF Complete
<1>2. /\ servers' \in [Key -> dest_info]
      /\ \A j \in Key : /\ servers'[j].saddr = servers[j].saddr
                        /\ servers'[j].free_threads <= MAX_THREADS
  BY CreditedSlots DEF Complete
<1>3. server_cnt' = server_cnt /\ queue' = queue
  BY DEF Complete
<1>4. LbTypeOK'
  BY <1>1, <1>2, <1>3 DEF LbInv, LbTypeOK
<1> QED
  BY <1>1, <1>2, <1>3, <1>4, SameAddresses

\* A completion that finds jobs waiting always finds a backend: the branch
\* of lb.c:321 that gives up is never taken.
LEMMA DispatchFindsBackend ==
  ASSUME LbInv, NEW s \in Server, Occupied(servers, KeyOf(s))
  PROVE  LET credited == ReturnThread(servers, KeyOf(s))
             b == get_available_backend(credited)
         IN  /\ b \in Key
             /\ Occupied(credited, b)
             /\ credited[b].free_threads > 0
<1> DEFINE credited == ReturnThread(servers, KeyOf(s))
           b == get_available_backend(credited)
<1>1. /\ KeyOf(s) \in Key
      /\ credited \in [Key -> dest_info]
      /\ credited[KeyOf(s)].free_threads > 0
      /\ Occupied(credited, KeyOf(s))
  BY CreditedSlots
<1>2. b # NoKey
  <2>1. SUFFICES ASSUME b = NoKey PROVE FALSE
    OBVIOUS
  <2>2. credited[KeyOf(s)].free_threads = 0
    BY <1>1, <2>1, BackendSelection
  <2> QED
    BY <1>1, <2>2
<1> QED
  BY <1>1, <1>2, BackendSelection

LEMMA DispatchInv ==
  ASSUME LbInv, NEW s \in Server, NEW v, CompleteAndDispatch(s, v)
  PROVE  LbInv'
<1> DEFINE credited == ReturnThread(servers, KeyOf(s))
           b == get_available_backend(credited)
<1>1. Occupied(servers, KeyOf(s)) /\ LearnKey(s) /\ server_cnt' = server_cnt
      /\ queue # << >>
  BY DEF CompleteAndDispatch
<1>2. ip_to_key' = ip_to_key
  BY <1>1, CompletionKeepsKeys
<1>3. b \in Key /\ credited[b].free_threads > 0
  BY <1>1, DispatchFindsBackend
<1>4. PICK grown \in TailGrows :
        /\ queue' = Tail(queue)
        /\ servers' = IF grown THEN TakeThread(credited, b) ELSE credited
  BY <1>3 DEF CompleteAndDispatch, Dispatch, dequeue, NoKey, Key
<1>5. /\ credited \in [Key -> dest_info]
      /\ \A j \in Key : /\ credited[j].saddr = servers[j].saddr
                        /\ credited[j].free_threads <= MAX_THREADS
  BY <1>1, CreditedSlots
<1>6. /\ servers' \in [Key -> dest_info]
      /\ \A j \in Key : /\ servers'[j].saddr = servers[j].saddr
                        /\ servers'[j].free_threads <= MAX_THREADS
  <2>1. CASE grown
    BY <1>3, <1>4, <1>5, <2>1, TakeThreadType
  <2>2. CASE ~grown
    BY <1>4, <1>5, <2>2
  <2> QED
    BY <2>1, <2>2
<1>7. queue' \in Seq(Request) /\ Len(queue') <= QUEUE_MAX
  BY <1>1, <1>4, SizesAssumption DEF LbInv, LbTypeOK
<1>8. LbTypeOK'
  BY <1>1, <1>2, <1>6, <1>7 DEF LbInv, LbTypeOK
<1> QED
  BY <1>1, <1>2, <1>6, <1>8, SameAddresses

LEMMA RequestInv ==
  ASSUME LbInv, NEW r \in Request, NEW v, OnRequest(r, v)
  PROVE  LbInv'
<1> DEFINE b == get_available_backend(servers)
<1>1. /\ servers \in [Key -> dest_info]
      /\ \A j \in Key : servers[j].free_threads <= MAX_THREADS
  BY DEF LbInv, LbTypeOK
<1>2. CASE Forward(r, v)
  <2>1. b \in Key /\ servers[b].free_threads > 0
    BY <1>1, <1>2, BackendSelection DEF Forward
  <2>2. /\ servers' \in [Key -> dest_info]
        /\ \A j \in Key : /\ servers'[j].saddr = servers[j].saddr
                          /\ servers'[j].free_threads <= MAX_THREADS
    BY <1>1, <1>2, <2>1, TakeThreadType DEF Forward
  <2>3. /\ ip_to_key' = ip_to_key
        /\ server_cnt' = server_cnt
        /\ queue' = queue
    BY <1>2 DEF Forward
  <2>4. LbTypeOK'
    BY <2>2, <2>3 DEF LbInv, LbTypeOK
  <2> QED
    BY <2>2, <2>3, <2>4, SameAddresses
<1>3. CASE Enqueue(r, v)
  <2>1. /\ ip_to_key' = ip_to_key
        /\ servers' = servers
        /\ server_cnt' = server_cnt
    BY <1>3 DEF Enqueue
  <2>2. queue' \in Seq(Request) /\ Len(queue') <= QUEUE_MAX
    BY <1>3, SizesAssumption DEF Enqueue, enqueue, LbInv, LbTypeOK
  <2>3. LbTypeOK'
    BY <2>1, <2>2 DEF LbInv, LbTypeOK
  <2> QED
    BY <2>1, <2>3, SameAddresses
<1> QED
  BY <1>2, <1>3 DEF OnRequest

-----------------------------------------------------------------------------
LEMMA LbInitInv == LbInit => LbInv
<1> SUFFICES ASSUME LbInit PROVE LbInv
  OBVIOUS
<1>1. Known = {}
  BY DEF LbInit, Known
<1>2. Cardinality(Known) = 0
  BY <1>1, FS_EmptySet
<1>3. LbTypeOK
  BY SizesAssumption DEF LbInit, LbTypeOK, dest_info, Cnt
<1>4. KeysSound /\ CntSound
  BY <1>1, <1>2 DEF LbInit, KeysSound, CntSound, Occupied, Key, MAX_SERVERS
<1> QED
  BY <1>3, <1>4 DEF LbInv

LEMMA LbStepInv == LbInv /\ [LbNext]_lbvars => LbInv'
<1> SUFFICES ASSUME LbInv, [LbNext]_lbvars PROVE LbInv'
  OBVIOUS
<1>1. ASSUME NEW v \in Verdict, NEW s \in Server, OnPing(s, v)
      PROVE  LbInv'
  BY <1>1, RegisterInv, CompleteInv, DispatchInv DEF OnPing
<1>2. ASSUME NEW v \in Verdict, NEW r \in Request, OnRequest(r, v)
      PROVE  LbInv'
  BY <1>2, RequestInv
<1>3. CASE UNCHANGED lbvars
  BY <1>3 DEF lbvars, LbInv, LbTypeOK, KeysSound, CntSound, Known, Occupied
<1> QED
  BY <1>1, <1>2, <1>3 DEF LbNext

(* Whatever frames arrive in whatever order from however many hosts, the   *)
(* maps of lb.c stay well typed, free_threads never leaves 0..MAX_THREADS  *)
(* (no __u16 underflow) and the queue stays within its capacity.           *)
THEOREM LbTypeCorrect == LbSpec => []LbTypeOK
<1>1. LbInv => LbTypeOK
  BY DEF LbInv
<1> QED
  BY <1>1, LbInitInv, LbStepInv, PTL DEF LbSpec

(* Whatever frames arrive, ip_to_key and servers stay inverse to each      *)
(* other: no two hosts ever share a slot and no known host loses its slot, *)
(* also after server_cnt has wrapped around.                               *)
THEOREM LbKeysSound == LbSpec => []KeysSound
<1>1. LbInv => KeysSound
  BY DEF LbInv
<1> QED
  BY <1>1, LbInitInv, LbStepInv, PTL DEF LbSpec

-----------------------------------------------------------------------------
(* Action properties. *)

\* The slot whose address the frame carries is the one that was charged, and
\* no other slot has more than one thread more than is left of it.
LEMMA ChosenSlot ==
  ASSUME LbInv, NEW srv \in [Key -> dest_info],
         \A i \in Key : /\ srv[i].saddr = servers[i].saddr
                        /\ srv[i].free_threads <= MAX_THREADS,
         NEW b \in Key, b = get_available_backend(srv), srv[b].free_threads > 0,
         NEW k \in Key, TakeThread(srv, b)[k].saddr = srv[b].saddr,
         NEW j \in Key, Occupied(servers, j)
  PROVE  TakeThread(srv, b)[j].free_threads
           <= TakeThread(srv, b)[k].free_threads + 1
<1> DEFINE taken == TakeThread(srv, b)
<1>1. /\ taken[b].free_threads = srv[b].free_threads - 1
      /\ \A i \in Key : /\ taken[i].saddr = srv[i].saddr
                        /\ i # b => taken[i] = srv[i]
  BY TakeThreadType
<1>2. \A i \in Key : srv[i].free_threads \in Nat
  BY SizesAssumption DEF dest_info, Cnt
<1>3. b # NoKey
  BY DEF NoKey, Key
<1>4. Occupied(srv, b) /\ srv[j].free_threads <= srv[b].free_threads
  <2>1. Occupied(srv, j)
    BY DEF Occupied
  <2> QED
    BY <1>3, <2>1, BackendSelection
<1>5. k = b
  <2>1. servers[k].saddr = servers[b].saddr /\ servers[b].saddr # NoAddr
    BY <1>1, <1>4 DEF Occupied
  <2>2. Occupied(servers, k) /\ Occupied(servers, b)
    BY <2>1 DEF Occupied
  <2> QED
    BY <2>1, <2>2 DEF LbInv, KeysSound
<1>6. CASE j = b
  BY <1>1, <1>2, <1>5, <1>6
<1>7. CASE j # b
  BY <1>1, <1>2, <1>4, <1>5, <1>7
<1> QED
  BY <1>6, <1>7

(* Whatever frames arrive, a job is sent to a backend with the most free   *)
(* threads, the thread that a completion just returned included.           *)
THEOREM LbChargesTheBest == LbSpec => ChargesTheBest
<1>1. ASSUME LbInv, NEW v \in Verdict, Invoked(v), v.action = "XDP_TX",
             NEW k \in Key, NEW j \in Key,
             servers'[k].saddr = v.daddr, Occupied(servers, j)
      PROVE  servers'[j].free_threads <= servers'[k].free_threads + 1
  <2>1. v # Drop /\ v # Aborted
    BY <1>1 DEF Drop, Aborted
  <2>2. /\ servers \in [Key -> dest_info]
        /\ \A i \in Key : servers[i].free_threads <= MAX_THREADS
    BY <1>1 DEF LbInv, LbTypeOK
  <2>3. ASSUME NEW s \in Server, CompleteAndDispatch(s, v)
        PROVE  servers'[j].free_threads <= servers'[k].free_threads + 1
    <3> DEFINE credited == ReturnThread(servers, KeyOf(s))
               b == get_available_backend(credited)
    <3>1. Occupied(servers, KeyOf(s))
      BY <2>3 DEF CompleteAndDispatch
    <3>2. b \in Key /\ credited[b].free_threads > 0
      BY <1>1, <3>1, DispatchFindsBackend
    <3>3. /\ credited \in [Key -> dest_info]
          /\ \A i \in Key : /\ credited[i].saddr = servers[i].saddr
                            /\ credited[i].free_threads <= MAX_THREADS
      BY <1>1, <3>1, CreditedSlots
    <3>4. PICK value \in Request :
            servers' = TakeThread(credited, b) /\ v = Tx(credited[b].saddr, value)
      BY <2>1, <2>3, <3>2 DEF CompleteAndDispatch, Dispatch, NoKey, Key
    <3>5. v.daddr = credited[b].saddr
      BY <3>4 DEF Tx
    <3> HIDE DEF credited, b
    <3>6. b = get_available_backend(credited)
      BY DEF b
    <3> QED
      BY <1>1, <3>2, <3>3, <3>4, <3>5, <3>6, ChosenSlot
  <2>4. ASSUME NEW r \in Request, Forward(r, v)
        PROVE  servers'[j].free_threads <= servers'[k].free_threads + 1
    <3> DEFINE b == get_available_backend(servers)
    <3>1. b \in Key /\ servers[b].free_threads > 0
      BY <2>2, <2>4, BackendSelection DEF Forward
    <3>2. servers' = TakeThread(servers, b) /\ v = Tx(servers[b].saddr, r)
      BY <2>4 DEF Forward
    <3>3. v.daddr = servers[b].saddr
      BY <3>2 DEF Tx
    <3> HIDE DEF b
    <3>4. b = get_available_backend(servers)
      BY DEF b
    <3> QED
      BY <1>1, <2>2, <3>1, <3>2, <3>3, <3>4, ChosenSlot
  <2> QED
    BY <1>1, <2>1, <2>3, <2>4
       DEF Invoked, OnPing, OnRequest, Register, Complete, Enqueue
<1>2. LbInv =>
        \A v \in Verdict : Invoked(v) /\ v.action = "XDP_TX" =>
          \A k, j \in Key :
            servers'[k].saddr = v.daddr /\ Occupied(servers, j) =>
              servers'[j].free_threads <= servers'[k].free_threads + 1
  BY <1>1
<1> QED
  BY <1>2, LbInitInv, LbStepInv, PTL DEF LbSpec, ChargesTheBest

(* Whatever frames arrive, a host keeps its key and a slot its address.    *)
THEOREM LbKeysStable == LbSpec => KeysStable
<1>1. ASSUME LbInv, LbNext
      PROVE  /\ \A s \in Known : ip_to_key'[s] = ip_to_key[s]
             /\ \A k \in Key : Occupied(servers, k) =>
                  servers'[k].saddr = servers[k].saddr
  <2> DEFINE Kept == /\ ip_to_key' = ip_to_key
                     /\ \A k \in Key : servers'[k].saddr = servers[k].saddr
  <2>1. /\ servers \in [Key -> dest_info]
        /\ \A i \in Key : servers[i].free_threads <= MAX_THREADS
    BY <1>1 DEF LbInv, LbTypeOK
  <2>2. ASSUME NEW s \in Server, NEW v, Register(s, v)
        PROVE  /\ \A h \in Known : ip_to_key'[h] = ip_to_key[h]
               /\ \A k \in Key : Occupied(servers, k) =>
                    servers'[k].saddr = servers[k].saddr
    <3>1. ip_to_key[s] = NoKey /\ ~Occupied(servers, server_cnt)
      BY <1>1, <2>2, RegisterCases DEF Register, KeyOf
    <3>2. ip_to_key \in [Server -> Cnt \cup {NoKey}] /\ s \notin Known
      BY <1>1, <3>1 DEF LbInv, LbTypeOK, Known
    <3>3. CASE /\ server_cnt \in Key
               /\ servers' = [servers EXCEPT ![server_cnt] =
                                [saddr |-> s, free_threads |-> MAX_THREADS]]
               /\ ip_to_key' = [ip_to_key EXCEPT ![s] = server_cnt]
      BY <2>1, <3>1, <3>2, <3>3 DEF Known
    <3>4. CASE servers' = servers /\ ip_to_key' = ip_to_key
      BY <3>4
    <3> QED
      BY <1>1, <2>2, <3>3, <3>4, RegisterCases
  <2>3. ASSUME NEW s \in Server, NEW v, Complete(s, v) PROVE Kept
    BY <1>1, <2>3, CompletionKeepsKeys, CreditedSlots DEF Complete
  <2>4. ASSUME NEW s \in Server, NEW v, CompleteAndDispatch(s, v) PROVE Kept
    <3> DEFINE credited == ReturnThread(servers, KeyOf(s))
               b == get_available_backend(credited)
    <3>1. Occupied(servers, KeyOf(s)) /\ LearnKey(s)
      BY <2>4 DEF CompleteAndDispatch
    <3>2. ip_to_key' = ip_to_key
      BY <1>1, <3>1, CompletionKeepsKeys
    <3>3. b \in Key /\ credited[b].free_threads > 0
      BY <1>1, <3>1, DispatchFindsBackend
    <3>4. \/ servers' = TakeThread(credited, b)
          \/ servers' = credited
      BY <2>4, <3>3 DEF CompleteAndDispatch, Dispatch, NoKey, Key
    <3>5. /\ credited \in [Key -> dest_info]
          /\ \A i \in Key : /\ credited[i].saddr = servers[i].saddr
                            /\ credited[i].free_threads <= MAX_THREADS
      BY <1>1, <3>1, CreditedSlots
    <3> QED
      BY <3>2, <3>3, <3>4, <3>5, TakeThreadType
  <2>5. ASSUME NEW r \in Request, NEW v, Forward(r, v) PROVE Kept
    <3> DEFINE b == get_available_backend(servers)
    <3>1. b \in Key /\ servers[b].free_threads > 0
      BY <2>1, <2>5, BackendSelection DEF Forward
    <3> QED
      BY <2>1, <2>5, <3>1, TakeThreadType DEF Forward
  <2>6. ASSUME NEW r \in Request, NEW v, Enqueue(r, v) PROVE Kept
    BY <2>6 DEF Enqueue
  <2> QED
    BY <1>1, <2>2, <2>3, <2>4, <2>5, <2>6 DEF LbNext, OnPing, OnRequest
<1> QED
  BY <1>1, LbInitInv, LbStepInv, PTL DEF LbSpec, KeysStable
=============================================================================
