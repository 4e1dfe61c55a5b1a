---------------------------- MODULE FaultProofs -----------------------------
(***************************************************************************)
(* Proofs about part B under faults: crashes and restarts of workers, lost *)
(* datagrams and reloads of the XDP program, as many as one likes and at   *)
(* any time, for every number of workers, jobs and threads.                *)
(***************************************************************************)
EXTENDS SystemFaults, SystemProofs

\* At a worker a job is a datagram, in the hands of the main thread or a
\* thread, and never two of these.
OnceAtWorker ==
  \A s \in Server, r \in Request :
    /\ r \in jobs[s] => ~Held(s, r) /\ thread[s][r] = "none"
    /\ Held(s, r) => thread[s][r] = "none"

\* Every job is in one place, the set of lost jobs being one of them.
PlacedOnce ==
  /\ WaitsOnce
  /\ OnceAtWorker
  /\ \A r \in Request :
       /\ r \in unsent => r \notin reqs \cup dropped \cup Queued \cup lost
       /\ r \in reqs => r \notin dropped \cup Queued \cup lost
       /\ r \in dropped => r \notin Queued \cup lost
       /\ r \in Queued => r \notin lost
       /\ r \in unsent \cup reqs \cup dropped \cup Queued \cup lost
            <=> \A s \in Server : ~AtWorker(s, r)
       /\ \A s, u \in Server : AtWorker(s, r) /\ AtWorker(u, r) => s = u

\* The free threads lb.c has recorded for s.  A worker it does not know
\* counts as one that is a thread short: its next ping registers it.
Recorded(s) ==
  IF ip_to_key[s] = NoKey THEN MAX_THREADS - 1
  ELSE servers[ip_to_key[s]].free_threads

\* The work outstanding at s and the 'S' that a dead worker has still to send.
Booked(s) == Outstanding(s) + (IF mainpc[s] = "start" THEN 1 ELSE 0)

\* What lb.c believes to be free and what is not; MAX_THREADS without faults.
Balance(s) == Recorded(s) + Booked(s)

\* What reloads may add to the balance of every worker.
Forgotten == reloads * (MAX_THREADS - 1)

\* A crash adds one to the balance of the worker and a reload at most
\* MAX_THREADS - 1; only lost datagrams bring it down to zero.
Ledger ==
  \A s \in Server :
    /\ Balance(s) <= MAX_THREADS + crashes[s] + Forgotten
    /\ losses = 0 /\ ip_to_key[s] # NoKey => Balance(s) > 0

FaultInv == FaultTypeOK /\ LbInv /\ ThreadsSound /\ PlacedOnce /\ Ledger

-----------------------------------------------------------------------------
(* The quantities of the ledger. *)

LEMMA BalanceType ==
  ASSUME TypeOK, LbInv, NEW s \in Server
  PROVE  /\ Recorded(s) \in Nat /\ Recorded(s) <= MAX_THREADS
         /\ Booked(s) \in Nat /\ Outstanding(s) \in Nat
         /\ Balance(s) \in Nat
<1>1. Outstanding(s) \in Nat
  BY OutstandingType
<1>2. Recorded(s) \in Nat /\ Recorded(s) <= MAX_THREADS
  <2>1. CASE ip_to_key[s] = NoKey
    BY <2>1, SizesAssumption DEF Recorded
  <2>2. CASE ip_to_key[s] # NoKey
    <3>1. ip_to_key[s] \in Key
      BY <2>2, SlotOwner
    <3>2. servers[ip_to_key[s]].free_threads \in Nat
          /\ servers[ip_to_key[s]].free_threads <= MAX_THREADS
      BY <3>1, FreeNat DEF LbInv, LbTypeOK
    <3> QED
      BY <2>2, <3>2 DEF Recorded
  <2> QED
    BY <2>1, <2>2
<1> QED
  BY <1>1, <1>2 DEF Booked, Balance

LEMMA BalancesType ==
  TypeOK /\ LbInv => \A w \in Server : Balance(w) \in Nat
BY BalanceType

LEMMA BookedType ==
  TypeOK => \A w \in Server : Booked(w) \in Nat
BY OutstandingType DEF Booked

LEMMA ForgottenType ==
  ASSUME NEW n \in Nat
  PROVE  /\ n * (MAX_THREADS - 1) \in Nat
         /\ (n + 1) * (MAX_THREADS - 1) = n * (MAX_THREADS - 1) + (MAX_THREADS - 1)
<1>1. ASSUME NEW a \in Nat, NEW b \in Nat
      PROVE  a * b \in Nat /\ (a + 1) * b = a * b + b
  OBVIOUS
<1>2. MAX_THREADS - 1 \in Nat
  BY SizesAssumption
<1> QED
  BY <1>1, <1>2

\* A step without a fault that raises no balance and empties none.
LEMMA LedgerKept ==
  ASSUME FaultInv, TypeOK', LbInv', UNCHANGED counters,
         \A u \in Server :
           /\ Balance(u)' <= Balance(u)
           /\ ip_to_key'[u] # NoKey =>
                Balance(u)' > 0 \/ (Balance(u)' = Balance(u) /\ ip_to_key[u] # NoKey)
  PROVE  Ledger'
<1>1. UNCHANGED <<crashes, losses, reloads>>
  BY DEF counters
<1>2. Forgotten' = Forgotten
  BY <1>1 DEF Forgotten
<1>3. Forgotten \in Nat /\ crashes \in [Server -> Nat]
  BY ForgottenType, FaultsAssumption DEF FaultInv, FaultTypeOK, Forgotten
<1> SUFFICES ASSUME NEW u \in Server
             PROVE  /\ Balance(u)' <= MAX_THREADS + crashes[u] + Forgotten
                    /\ losses = 0 /\ ip_to_key'[u] # NoKey => Balance(u)' > 0
  BY <1>1, <1>2 DEF Ledger
<1>4. /\ Balance(u) \in Nat
      /\ crashes[u] \in Nat /\ MAX_THREADS \in Nat
  BY <1>3, BalanceType, SizesAssumption DEF FaultInv, FaultTypeOK
<1>5. (\A w \in Server : Balance(w) \in Nat)'
  BY BalancesType, PTL
<1> QED
  BY <1>3, <1>4, <1>5 DEF FaultInv, Ledger

-----------------------------------------------------------------------------
(* Where the jobs are. *)

\* Jobs may leave the workers, and then they are lost; nothing else moves.
LEMMA PlacesAfterLoss ==
  ASSUME PlacedOnce, OnceAtWorker', UNCHANGED <<queue, unsent, reqs, dropped>>,
         NEW X \in SUBSET Request, lost' = lost \cup X,
         \A r \in X : \E s \in Server : AtWorker(s, r),
         \A s \in Server, r \in Request :
           AtWorker(s, r)' <=> AtWorker(s, r) /\ r \notin X
  PROVE  PlacedOnce'
<1>1. Queued' = Queued /\ WaitsOnce'
  BY DEF PlacedOnce, Queued, WaitsOnce
<1> SUFFICES ASSUME NEW r \in Request
    PROVE  /\ r \in unsent => r \notin reqs \cup dropped \cup Queued \cup lost'
           /\ r \in reqs => r \notin dropped \cup Queued \cup lost'
           /\ r \in dropped => r \notin Queued \cup lost'
           /\ r \in Queued => r \notin lost'
           /\ r \in unsent \cup reqs \cup dropped \cup Queued \cup lost'
                <=> \A s \in Server : ~AtWorker(s, r)'
           /\ \A s, u \in Server : AtWorker(s, r)' /\ AtWorker(u, r)' => s = u
  BY <1>1 DEF PlacedOnce
<1>2. CASE r \in X
  BY <1>2 DEF PlacedOnce
<1>3. CASE r \notin X
  BY <1>3 DEF PlacedOnce
<1> QED
  BY <1>2, <1>3

\* Every job keeps its place.
LEMMA PlacesKept ==
  ASSUME PlacedOnce, OnceAtWorker', UNCHANGED <<queue, unsent, reqs, dropped, lost>>,
         \A s \in Server, r \in Request : AtWorker(s, r)' <=> AtWorker(s, r)
  PROVE  PlacedOnce'
<1>1. PICK X \in SUBSET Request : X = {}
  OBVIOUS
<1>2. /\ lost' = lost \cup X
      /\ \A r \in X : \E s \in Server : AtWorker(s, r)
      /\ \A s \in Server, r \in Request :
           AtWorker(s, r)' <=> AtWorker(s, r) /\ r \notin X
  BY <1>1
<1> QED
  BY <1>2, PlacesAfterLoss

\* Nothing is refused where the main threads stand still.
LEMMA NothingRefused ==
  ASSUME Faultless, \A s \in Server, r \in Request : Held(s, r) => AtWorker(s, r)'
  PROVE  lost' = lost /\ UNCHANGED counters
BY DEF Faultless

-----------------------------------------------------------------------------
(* The workers' steps. *)

\* The main thread of s is about to throw its datagram away.
Refusing(s) == mainpc[s] = "check" /\ n_threads[s] >= ServerThreads

\* What a step of a main thread does to the jobs and to the balance.
MainLeaves(s) ==
  /\ TypeOK' /\ ThreadsSound' /\ OnceAtWorker'
  /\ \A u \in Server, x \in Request :
       AtWorker(u, x)' <=>
         AtWorker(u, x) /\ ~(Refusing(s) /\ u = s /\ x = data[s])
  /\ \A u \in Server :
       Booked(u)' = Booked(u) - (IF u = s /\ Refusing(s) THEN 1 ELSE 0)

LEMMA OutstandingParts ==
  ASSUME TypeOK, NEW s \in Server
  PROVE  /\ Cardinality(jobs[s]) \in Nat /\ pings[s] \in Nat
         /\ Cardinality(ThreadsAt(s, Live)) \in Nat
BY JobSetFinite, ThreadSets DEF TypeOK

LEMMA CountedLive ==
  ASSUME ThreadsSound, NEW s \in Server
  PROVE  n_threads[s] <= Cardinality(ThreadsAt(s, Live))
<1>1. ThreadsAt(s, Counted) \subseteq ThreadsAt(s, Live)
  BY DEF ThreadsAt, Live, Counted
<1>2. Cardinality(ThreadsAt(s, Counted)) <= Cardinality(ThreadsAt(s, Live))
  BY <1>1, ThreadSets, JobSetFinite, FS_Subset
<1> QED
  BY <1>2 DEF ThreadsSound

LEMMA SendStartLeaves ==
  ASSUME TypeOK, LbInv, ThreadsSound, OnceAtWorker, NEW s \in Server,
         SendStart(s), UNCHANGED <<lbvars, clientvars, dropped>>
  PROVE  MainLeaves(s)
<1>1. /\ mainpc[s] = "start"
      /\ mainpc' = [mainpc EXCEPT ![s] = "recv"]
      /\ pings' = [pings EXCEPT ![s] = @ + 1]
      /\ UNCHANGED <<jobs, data, n_threads, thread, job, total_sleep_time>>
  BY DEF SendStart
<1>2. LbTypeOK' /\ ~Refusing(s)
  BY <1>1, LbUntouched DEF Refusing
<1>3. TypeOK'
  BY <1>1, <1>2 DEF TypeOK, MainPc, clientvars
<1>4. \A u \in Server : \A P : ThreadsAt(u, P)' = ThreadsAt(u, P)
  BY <1>1 DEF ThreadsAt
<1>5. ThreadsSound'
  BY <1>1, <1>4 DEF ThreadsSound, TypeOK
<1>6. \A u \in Server, x \in Request :
        Held(u, x)' = Held(u, x) /\ AtWorker(u, x)' = AtWorker(u, x)
  BY <1>1 DEF Held, AtWorker, TypeOK
<1>7. OnceAtWorker'
  BY <1>1, <1>6 DEF OnceAtWorker
<1>8. ASSUME NEW u \in Server PROVE Booked(u)' = Booked(u)
  <2>1. /\ mainpc'[u] = IF u = s THEN "recv" ELSE mainpc[u]
        /\ pings'[u] = IF u = s THEN pings[u] + 1 ELSE pings[u]
    BY <1>1 DEF TypeOK
  <2> QED
    BY <1>1, <1>4, <2>1, OutstandingParts DEF Booked, Outstanding
<1>9. \A u \in Server : Booked(u) \in Nat
  BY OutstandingType DEF Booked
<1> QED
  BY <1>2, <1>3, <1>5, <1>6, <1>7, <1>8, <1>9 DEF MainLeaves

LEMMA RecvLeaves ==
  ASSUME TypeOK, LbInv, ThreadsSound, OnceAtWorker, NEW s \in Server,
         NEW r \in Request, Recv(s, r), UNCHANGED <<lbvars, clientvars, dropped>>
  PROVE  MainLeaves(s)
<1>1. /\ mainpc[s] = "recv"
      /\ r \in jobs[s]
      /\ mainpc' = [mainpc EXCEPT ![s] = "check"]
      /\ jobs' = [jobs EXCEPT ![s] = @ \ {r}]
      /\ data' = [data EXCEPT ![s] = r]
      /\ UNCHANGED <<pings, n_threads, thread, job, total_sleep_time>>
  BY DEF Recv
<1>2. LbTypeOK' /\ ~Refusing(s)
  BY <1>1, LbUntouched DEF Refusing
<1>3. TypeOK'
  BY <1>1, <1>2 DEF TypeOK, MainPc, clientvars
<1>4. \A u \in Server : \A P : ThreadsAt(u, P)' = ThreadsAt(u, P)
  BY <1>1 DEF ThreadsAt
<1>5. ThreadsSound'
  BY <1>1, <1>4 DEF ThreadsSound, TypeOK
<1>6. \A u \in Server, x \in Request :
        /\ Held(u, x)' <=> (Held(u, x) \/ (u = s /\ x = r))
        /\ x \in jobs'[u] <=> (x \in jobs[u] /\ ~(u = s /\ x = r))
  BY <1>1 DEF Held, TypeOK
<1>7. \A u \in Server, x \in Request : AtWorker(u, x)' <=> AtWorker(u, x)
  BY <1>1, <1>6 DEF AtWorker
<1>8. OnceAtWorker'
  BY <1>1, <1>6 DEF OnceAtWorker
<1>9. ASSUME NEW u \in Server PROVE Booked(u)' = Booked(u)
  <2>1. /\ mainpc'[u] = IF u = s THEN "check" ELSE mainpc[u]
        /\ u # s => jobs'[u] = jobs[u]
    BY <1>1 DEF TypeOK
  <2>2. Cardinality(jobs'[s]) = Cardinality(jobs[s]) - 1
    BY <1>1, RemoveJob DEF TypeOK
  <2>3. /\ Cardinality(jobs[u]) \in Nat /\ pings[u] \in Nat
        /\ Cardinality(ThreadsAt(u, Live)) \in Nat
        /\ ThreadsAt(u, Live)' = ThreadsAt(u, Live) /\ pings' = pings
    BY <1>1, <1>4, OutstandingParts
  <2>4. CASE u = s
    BY <1>1, <2>1, <2>2, <2>3, <2>4 DEF Booked, Outstanding
  <2>5. CASE u # s
    BY <2>1, <2>3, <2>5 DEF Booked, Outstanding
  <2> QED
    BY <2>4, <2>5
<1>10. \A u \in Server : Booked(u) \in Nat
  BY OutstandingType DEF Booked
<1> QED
  BY <1>2, <1>3, <1>5, <1>7, <1>8, <1>9, <1>10 DEF MainLeaves

LEMMA BusyLeaves ==
  ASSUME TypeOK, LbInv, ThreadsSound, OnceAtWorker, NEW s \in Server,
         Busy(s), UNCHANGED <<lbvars, clientvars, dropped>>
  PROVE  MainLeaves(s)
<1>1. /\ mainpc[s] = "check"
      /\ mainpc' = [mainpc EXCEPT ![s] = "recv"]
      /\ UNCHANGED <<jobs, pings, data, n_threads, thread, job, total_sleep_time>>
  BY DEF Busy, wires
<1>2. LbTypeOK' /\ Refusing(s)
  BY LbUntouched DEF Refusing, Busy
<1>3. TypeOK'
  BY <1>1, <1>2 DEF TypeOK, MainPc, clientvars
<1>4. \A u \in Server : \A P : ThreadsAt(u, P)' = ThreadsAt(u, P)
  BY <1>1 DEF ThreadsAt
<1>5. ThreadsSound'
  BY <1>1, <1>4 DEF ThreadsSound, TypeOK
<1>6. \A u \in Server, x \in Request :
        Held(u, x)' <=> (Held(u, x) /\ ~(u = s /\ x = data[s]))
  BY <1>1 DEF Held, TypeOK
<1>7. \A u \in Server, x \in Request :
        AtWorker(u, x)' <=> AtWorker(u, x) /\ ~(u = s /\ x = data[s])
  BY <1>1, <1>6 DEF AtWorker, OnceAtWorker, Held
<1>8. OnceAtWorker'
  BY <1>1, <1>6 DEF OnceAtWorker
<1>9. ASSUME NEW u \in Server
      PROVE  Booked(u)' = Booked(u) - (IF u = s THEN 1 ELSE 0)
  <2>1. mainpc'[u] = IF u = s THEN "recv" ELSE mainpc[u]
    BY <1>1 DEF TypeOK
  <2> QED
    BY <1>1, <1>4, <2>1, OutstandingParts DEF Booked, Outstanding
<1> QED
  BY <1>2, <1>3, <1>5, <1>7, <1>8, <1>9 DEF MainLeaves

LEMMA SpawnLeaves ==
  ASSUME TypeOK, LbInv, ThreadsSound, OnceAtWorker, NEW s \in Server,
         Spawn(s), UNCHANGED <<lbvars, clientvars, dropped>>
  PROVE  MainLeaves(s)
<1>1. PICK t \in Request : t = data[s]
  BY DEF Spawn, ThreadsSound
<1>2. /\ mainpc[s] = "check"
      /\ mainpc' = [mainpc EXCEPT ![s] = "recv"]
      /\ thread' = [thread EXCEPT ![s][t] = "started"]
      /\ UNCHANGED <<jobs, pings, data, n_threads, job, total_sleep_time>>
  BY <1>1 DEF Spawn, wires
<1>3. LbTypeOK' /\ ~Refusing(s)
  <2>1. n_threads[s] \in Int /\ n_threads[s] < ServerThreads
    BY DEF Spawn, TypeOK
  <2> QED
    BY <2>1, LbUntouched, SizesAssumption DEF Refusing
<1>4. Held(s, t) /\ thread[s][t] = "none"
  BY <1>1, <1>2 DEF Held, OnceAtWorker
<1>5. TypeOK'
  BY <1>2, <1>3 DEF TypeOK, MainPc, ThreadPc, clientvars
<1>6. /\ Goto(s, t, "none", "started")
      /\ \A u \in Server, x \in Request :
           thread'[u][x] = IF u = s /\ x = t THEN "started" ELSE thread[u][x]
  BY <1>2, <1>4 DEF Goto, TypeOK
<1>7. ASSUME NEW u \in Server
      PROVE  /\ Cardinality(ThreadsAt(u, Counted)')
                  = Cardinality(ThreadsAt(u, Counted))
             /\ Cardinality(ThreadsAt(u, Live)')
                  = Cardinality(ThreadsAt(u, Live)) + (IF u = s THEN 1 ELSE 0)
  <2>1. /\ "started" \notin Counted /\ "none" \notin Counted
        /\ "started" \in Live /\ "none" \notin Live
    BY DEF Live, Counted
  <2>2. /\ Cardinality(ThreadsAt(u, Live)) \in Nat
        /\ Cardinality(ThreadsAt(u, Counted)) \in Nat
    BY ThreadSets
  <2>3. /\ Cardinality(ThreadsAt(u, Live)') = Cardinality(ThreadsAt(u, Live))
             + (IF u = s /\ "started" \in Live THEN 1 ELSE 0)
             - (IF u = s /\ "none" \in Live THEN 1 ELSE 0)
        /\ Cardinality(ThreadsAt(u, Counted)') = Cardinality(ThreadsAt(u, Counted))
             + (IF u = s /\ "started" \in Counted THEN 1 ELSE 0)
             - (IF u = s /\ "none" \in Counted THEN 1 ELSE 0)
    BY <1>6, GotoLive DEF TypeOK
  <2> QED
    BY <2>1, <2>2, <2>3
<1>8. ThreadsSound'
  BY <1>1, <1>2, <1>6, <1>7 DEF ThreadsSound, TypeOK
<1>9. \A u \in Server, x \in Request :
        Held(u, x)' <=> (Held(u, x) /\ ~(u = s /\ x = t))
  BY <1>1, <1>2 DEF Held, TypeOK
<1>10. \A u \in Server, x \in Request : AtWorker(u, x)' <=> AtWorker(u, x)
  BY <1>2, <1>4, <1>6, <1>9 DEF AtWorker
<1>11. OnceAtWorker'
  BY <1>2, <1>4, <1>6, <1>9 DEF OnceAtWorker
<1>12. ASSUME NEW u \in Server PROVE Booked(u)' = Booked(u)
  <2>1. mainpc'[u] = IF u = s THEN "recv" ELSE mainpc[u]
    BY <1>2 DEF TypeOK
  <2> QED
    BY <1>2, <1>7, <2>1, OutstandingParts DEF Booked, Outstanding
<1>13. \A u \in Server : Booked(u) \in Nat
  BY OutstandingType DEF Booked
<1> QED
  BY <1>3, <1>5, <1>8, <1>10, <1>11, <1>12, <1>13 DEF MainLeaves

LEMMA ThreadLeaves ==
  ASSUME TypeOK, LbInv, ThreadsSound, OnceAtWorker,
         NEW s \in Server, NEW t \in Request, WorkerThread(s, t)
  PROVE  /\ TypeOK' /\ ThreadsSound' /\ OnceAtWorker'
         /\ \A u \in Server, x \in Request : AtWorker(u, x)' <=> AtWorker(u, x)
         /\ \A u \in Server : Booked(u)' = Booked(u)
<1>1. PICK from \in Live, to \in Live \cup {"done"} :
        /\ Goto(s, t, from, to)
        /\ \/ ReadData(s, t) /\ from = "started" /\ to = "bound"
           \/ CountIn(s, t) /\ from = "bound" /\ to = "sleeping"
           \/ WakeUp(s, t) /\ from = "sleeping" /\ to = "slept"
           \/ CountOut(s, t) /\ from = "slept" /\ to = "left"
           \/ SendDone(s, t) /\ from = "left" /\ to = "done"
  BY DEF WorkerThread, ThreadStep, ReadData, CountIn, WakeUp, CountOut, SendDone, Live
<1>2. UNCHANGED <<jobs, mainpc, data>> /\ UNCHANGED <<lbvars, clientvars, dropped>>
  BY DEF WorkerThread, ThreadStep, ReadData, CountIn, WakeUp, CountOut, SendDone, wires
<1>3. /\ thread[s][t] = from /\ from # "none" /\ to # "none"
      /\ thread' \in [Server -> [Request -> ThreadPc]]
      /\ \A u \in Server, x \in Request :
           thread'[u][x] = IF u = s /\ x = t THEN to ELSE thread[u][x]
  <2>1. from # "none" /\ to # "none" /\ to \in ThreadPc
    BY DEF Live, ThreadPc
  <2> QED
    BY <1>1, <2>1 DEF Goto, TypeOK
<1>4. /\ from = "started" => data[s] \in Request
      /\ from \in {"bound", "sleeping"} => job[s][t] \in Request
  BY <1>3 DEF ThreadsSound
<1>5. TypeOK'
  <2>1. LbTypeOK'
    BY <1>2, LbUntouched
  <2>2. /\ pings' \in [Server -> Nat]
        /\ n_threads' \in [Server -> Int]
        /\ job' \in [Server -> [Request -> Request \cup {NoRequest}]]
        /\ total_sleep_time' \in [Server -> [Request -> Nat]]
    <3>1. CASE ReadData(s, t)
      BY <3>1 DEF ReadData, wires, TypeOK
    <3>2. CASE CountIn(s, t) \/ CountOut(s, t)
      BY <3>2 DEF CountIn, CountOut, wires, TypeOK
    <3>3. CASE WakeUp(s, t)
      <4>1. job[s][t] \in Request
        BY <3>3 DEF WakeUp, Goto, ThreadsSound
      <4> QED
        BY <3>3, <4>1 DEF WakeUp, wires, TypeOK
    <3>4. CASE SendDone(s, t)
      BY <3>4 DEF SendDone, TypeOK
    <3> QED
      BY <1>1, <3>1, <3>2, <3>3, <3>4
  <2> QED
    BY <1>2, <1>3, <2>1, <2>2, ThreadTypes
<1>6. ThreadsSound'
  <2>1. \A u \in Server : Cardinality(ThreadsAt(u, Counted)') = n_threads[u]
             + (IF u = s /\ to \in Counted THEN 1 ELSE 0)
             - (IF u = s /\ from \in Counted THEN 1 ELSE 0)
    BY <1>1, ThreadCounted
  <2>2. \A u \in Server :
          /\ n_threads[u] \in Int
          /\ n_threads'[u] = n_threads[u] +
               (IF u = s /\ from = "bound" THEN 1
                ELSE IF u = s /\ from = "slept" THEN -1 ELSE 0)
    BY <1>1 DEF ReadData, CountIn, WakeUp, CountOut, SendDone, TypeOK
  <2>3. \A u \in Server : n_threads'[u] = Cardinality(ThreadsAt(u, Counted)')
    BY <1>1, <2>1, <2>2 DEF Counted
  <2>4. \A u \in Server, x \in Request :
          job'[u][x] = IF u = s /\ x = t /\ from = "started"
                       THEN data[s] ELSE job[u][x]
    BY <1>1 DEF ReadData, CountIn, WakeUp, CountOut, SendDone, TypeOK
  <2>5. to \in {"bound", "sleeping"} => job'[s][t] \in Request
    BY <1>1, <1>4, <2>4
  <2>6. to # "started"
    BY <1>1
  <2> QED
    BY <1>2, <1>3, <2>3, <2>4, <2>5, <2>6 DEF ThreadsSound
<1>7. \A u \in Server, x \in Request :
        /\ Held(u, x)' = Held(u, x)
        /\ thread'[u][x] = "none" <=> thread[u][x] = "none"
  BY <1>2, <1>3 DEF Held
<1>8. \A u \in Server, x \in Request : AtWorker(u, x)' <=> AtWorker(u, x)
  BY <1>2, <1>7 DEF AtWorker
<1>9. OnceAtWorker'
  BY <1>2, <1>7 DEF OnceAtWorker
<1>10. ASSUME NEW u \in Server PROVE Booked(u)' = Booked(u)
  <2>1. Cardinality(ThreadsAt(u, Live)') = Cardinality(ThreadsAt(u, Live))
          + (IF u = s /\ to \in Live THEN 1 ELSE 0)
          - (IF u = s /\ from \in Live THEN 1 ELSE 0)
    BY <1>1, GotoLive DEF TypeOK
  <2>2. pings'[u] = pings[u] + (IF u = s /\ from = "left" THEN 1 ELSE 0)
    BY <1>1 DEF ReadData, CountIn, WakeUp, CountOut, SendDone, TypeOK, wires
  <2>3. /\ to \in Live <=> from # "left"
        /\ from \in Live
    BY <1>1 DEF Live
  <2> QED
    BY <1>2, <2>1, <2>2, <2>3, OutstandingParts DEF Booked, Outstanding
<1> QED
  BY <1>5, <1>6, <1>8, <1>9, <1>10

-----------------------------------------------------------------------------
(* Steps of the programs keep the invariant. *)

\* Steps that leave the maps alone and raise no balance.
LEMMA BesideLb ==
  ASSUME FaultInv, TypeOK', UNCHANGED lbvars, UNCHANGED counters,
         \A u \in Server : \/ Booked(u)' = Booked(u)
                           \/ Booked(u)' < Booked(u) /\ Booked(u)' > 0
  PROVE  Ledger'
<1>1. LbInv'
  BY LbUntouched DEF FaultInv
<1>2. \A u \in Server : Recorded(u)' = Recorded(u) /\ ip_to_key' = ip_to_key
  BY DEF Recorded, lbvars
<1>3. \A u \in Server : Recorded(u) \in Nat /\ Booked(u) \in Nat
  BY BalanceType DEF FaultInv, FaultTypeOK
<1>4. (\A w \in Server : Booked(w) \in Nat)'
  BY BookedType, PTL
<1>5. ASSUME NEW u \in Server
      PROVE  /\ Balance(u)' <= Balance(u)
             /\ Balance(u)' > 0 \/ Balance(u)' = Balance(u)
  BY <1>2, <1>3, <1>4 DEF Balance
<1> QED
  BY <1>1, <1>2, <1>5, LedgerKept

LEMMA CountersKept ==
  ASSUME FaultInv, TypeOK', UNCHANGED counters, lost' \in SUBSET Request
  PROVE  FaultTypeOK'
BY DEF FaultInv, FaultTypeOK, counters

LEMMA MainFault ==
  ASSUME FaultInv, NEW s \in Server, WorkerMain(s), Faultless
  PROVE  FaultInv'
<1> USE DEF FaultInv
<1>1. TypeOK /\ OnceAtWorker
  BY DEF FaultTypeOK, PlacedOnce
<1>2. UNCHANGED <<lbvars, clientvars, dropped>> /\ UNCHANGED counters
  BY DEF WorkerMain, Faultless
<1>3. MainLeaves(s)
  BY <1>1, <1>2, SendStartLeaves, RecvLeaves, BusyLeaves, SpawnLeaves,
     NeverSkips
     DEF WorkerMain, MainStep
<1>4. TypeOK' /\ ThreadsSound' /\ OnceAtWorker'
  BY <1>3 DEF MainLeaves
<1>5. LbInv'
  BY <1>2, LbUntouched
<1> DEFINE X == {x \in Request : Refusing(s) /\ x = data[s]}
<1>6. lost' = lost \cup X
  <2>1. \A r \in Request :
          (\E u \in Server : Held(u, r) /\ ~AtWorker(u, r)') <=> r \in X
    BY <1>3 DEF MainLeaves, AtWorker, Held, Refusing
  <2> QED
    BY <2>1 DEF Faultless
<1>7. /\ \A r \in X : \E u \in Server : AtWorker(u, r)
      /\ \A u \in Server, r \in Request :
           AtWorker(u, r)' <=> AtWorker(u, r) /\ r \notin X
  <2>1. \A r \in X : AtWorker(s, r)
    BY DEF AtWorker, Held, Refusing
  <2>2. \A u \in Server, r \in Request : r \in X /\ AtWorker(u, r) => u = s
    BY <2>1 DEF PlacedOnce
  <2> QED
    BY <1>3, <2>1, <2>2 DEF MainLeaves
<1>8. PlacedOnce'
  <2>1. X \in SUBSET Request /\ UNCHANGED <<queue, unsent, reqs, dropped>>
    BY <1>2 DEF lbvars, clientvars
  <2> HIDE DEF X
  <2> QED
    BY <1>4, <1>6, <1>7, <2>1, PlacesAfterLoss
<1>9. FaultTypeOK'
  BY <1>2, <1>4, <1>6, CountersKept DEF FaultTypeOK
<1>10. ASSUME NEW u \in Server
       PROVE  \/ Booked(u)' = Booked(u)
              \/ Booked(u)' < Booked(u) /\ Booked(u)' > 0
  <2>1. CASE ~(u = s /\ Refusing(s))
    <3>1. Booked(u) \in Nat
      BY <1>1, BookedType
    <3> QED
      BY <1>3, <2>1, <3>1 DEF MainLeaves
  <2>2. CASE u = s /\ Refusing(s)
    <3>1. Booked(s)' = Booked(s) - 1
      BY <1>3, <2>2 DEF MainLeaves
    <3>2. Booked(s) = Outstanding(s) /\ n_threads[s] >= ServerThreads
          /\ Cardinality(ThreadsAt(s, Live)) + 1 <= Outstanding(s)
          /\ Outstanding(s) \in Nat
      BY <1>1, <2>2, OutstandingType DEF Refusing, Booked
    <3>3. n_threads[s] <= Cardinality(ThreadsAt(s, Live))
          /\ n_threads[s] \in Int
          /\ Cardinality(ThreadsAt(s, Live)) \in Nat
      BY <1>1, CountedLive, ThreadSets DEF TypeOK
    <3> QED
      BY <2>2, <3>1, <3>2, <3>3, SizesAssumption
  <2> QED
    BY <2>1, <2>2
<1>11. Ledger'
  BY <1>2, <1>4, <1>10, BesideLb
<1> QED
  BY <1>4, <1>5, <1>8, <1>9, <1>11

LEMMA ThreadFault ==
  ASSUME FaultInv, NEW s \in Server, NEW t \in Request, WorkerThread(s, t),
         Faultless
  PROVE  FaultInv'
<1> USE DEF FaultInv
<1>1. TypeOK /\ OnceAtWorker
  BY DEF FaultTypeOK, PlacedOnce
<1>2. UNCHANGED <<lbvars, clientvars, dropped>>
  BY DEF WorkerThread
<1>3. /\ TypeOK' /\ ThreadsSound' /\ OnceAtWorker'
      /\ \A u \in Server, x \in Request : AtWorker(u, x)' <=> AtWorker(u, x)
      /\ \A u \in Server : Booked(u)' = Booked(u)
  BY <1>1, ThreadLeaves
<1>4. lost' = lost /\ UNCHANGED counters
  BY <1>3, NothingRefused DEF AtWorker
<1>5. PlacedOnce'
  BY <1>2, <1>3, <1>4, PlacesKept DEF lbvars, clientvars
<1> QED
  BY <1>2, <1>3, <1>4, <1>5, LbUntouched, CountersKept, BesideLb DEF FaultTypeOK

LEMMA ClientFault ==
  ASSUME FaultInv, NEW r \in Request, ClientSend(r), Faultless
  PROVE  FaultInv'
<1> USE DEF FaultInv
<1>1. /\ UNCHANGED lbvars /\ UNCHANGED wires /\ UNCHANGED servervars
      /\ dropped' = dropped /\ r \in unsent
      /\ unsent' = unsent \ {r} /\ reqs' = reqs \cup {r}
  BY DEF ClientSend
<1>2. LbInv' /\ LbTypeOK' /\ Queued' = Queued /\ queue' = queue
  BY <1>1, LbUntouched DEF lbvars
<1>3. TypeOK'
  BY <1>1, <1>2 DEF FaultTypeOK, TypeOK, wires, servervars
<1>4. \A s \in Server, x \in Request :
        /\ AtWorker(s, x)' = AtWorker(s, x)
        /\ Held(s, x)' = Held(s, x)
        /\ Held(s, x) => AtWorker(s, x)'
  BY <1>1 DEF AtWorker, Held, wires, servervars
<1>5. lost' = lost /\ UNCHANGED counters
  BY <1>4, NothingRefused
<1>6. PlacedOnce'
  <2>1. OnceAtWorker' /\ WaitsOnce'
    BY <1>1, <1>2, <1>4
       DEF PlacedOnce, OnceAtWorker, WaitsOnce, wires, servervars
  <2> QED
    BY <1>1, <1>2, <1>4, <1>5, <2>1 DEF PlacedOnce
<1>7. \A u \in Server : Booked(u)' = Booked(u)
  BY <1>1, BesideWorkers DEF Booked, Outstanding, wires
<1> QED
  BY <1>1, <1>2, <1>3, <1>5, <1>6, <1>7, ThreadsKept, CountersKept, BesideLb
     DEF FaultTypeOK

-----------------------------------------------------------------------------
(* Invocations of the XDP program. *)

LEMMA LbBooked ==
  ASSUME TypeOK, UNCHANGED servervars, NEW u \in Server,
         NEW dj \in Int, Cardinality(jobs'[u]) = Cardinality(jobs[u]) + dj,
         NEW dp \in Int, pings'[u] = pings[u] + dp
  PROVE  Booked(u)' = Booked(u) + dj + dp
<1>1. Outstanding(u)' = Outstanding(u) + dj + dp /\ mainpc' = mainpc
  BY LbOutstanding, BesideWorkers
<1>2. Outstanding(u) \in Nat
  BY OutstandingType
<1> QED
  BY <1>1, <1>2 DEF Booked

\* The job under way to the owner of the slot down is the only new one.
JobFor(down) ==
  \A u \in Server :
    Cardinality(jobs'[u]) = Cardinality(jobs[u])
      + (IF ip_to_key[u] # NoKey /\ ip_to_key[u] = down THEN 1 ELSE 0)

\* The record of a worker moves with its slot.
LEMMA SlotsRecorded ==
  ASSUME LbInv, ip_to_key' = ip_to_key, NEW up, NEW down, SlotsMove(up, down),
         NEW u \in Server
  PROVE  Recorded(u)' = Recorded(u) +
           (IF ip_to_key[u] = NoKey THEN 0
            ELSE Gain(up, ip_to_key[u]) - (IF ip_to_key[u] = down THEN 1 ELSE 0))
<1>1. CASE ip_to_key[u] = NoKey
  BY <1>1, SizesAssumption DEF Recorded
<1>2. CASE ip_to_key[u] # NoKey
  <2>1. ip_to_key[u] \in Key
    BY <1>2, SlotOwner
  <2>2. servers'[ip_to_key[u]].free_threads = servers[ip_to_key[u]].free_threads
          + Gain(up, ip_to_key[u]) - (IF ip_to_key[u] = down THEN 1 ELSE 0)
    BY <2>1 DEF SlotsMove
  <2>3. servers[ip_to_key[u]].free_threads \in Nat
        /\ Gain(up, ip_to_key[u]) \in Nat
    BY <2>1, FreeNat DEF Gain
  <2> QED
    BY <1>2, <2>2, <2>3 DEF Recorded
<1> QED
  BY <1>1, <1>2

\* A ping of a worker that lb.c knows: the clamp may keep the thread it
\* returns from the record, and then the record shows all threads free.
LEMMA PingBalance ==
  ASSUME FaultInv, NEW s \in Server, ip_to_key[s] # NoKey, ip_to_key' = ip_to_key,
         NEW down, SlotsMove(ip_to_key[s], down), JobFor(down),
         UNCHANGED servervars, pings[s] > 0, pings' = [pings EXCEPT ![s] = @ - 1],
         NEW u \in Server
  PROVE  /\ Balance(u)' <= Balance(u)
         /\ ip_to_key'[u] # NoKey =>
              Balance(u)' > 0 \/ (Balance(u)' = Balance(u) /\ ip_to_key[u] # NoKey)
<1>1. TypeOK /\ LbInv
  BY DEF FaultInv, FaultTypeOK
<1> DEFINE dj == IF ip_to_key[u] # NoKey /\ ip_to_key[u] = down THEN 1 ELSE 0
           dp == IF u = s THEN -1 ELSE 0
           g == IF ip_to_key[u] = NoKey THEN 0 ELSE Gain(ip_to_key[s], ip_to_key[u])
<1>2. Booked(u)' = Booked(u) + dj + dp
  <2>1. Cardinality(jobs'[u]) = Cardinality(jobs[u]) + dj /\ dj \in Int
    BY DEF JobFor
  <2>2. pings'[u] = pings[u] + dp /\ dp \in Int
    BY <1>1 DEF TypeOK
  <2> HIDE DEF dj, dp
  <2> QED
    BY <1>1, <2>1, <2>2, LbBooked
<1>3. Recorded(u)' = Recorded(u) + g - dj
  BY <1>1, SlotsRecorded, BalanceType DEF Gain
<1>4. /\ Recorded(u) \in Nat /\ Recorded(u) <= MAX_THREADS /\ Booked(u) \in Nat
      /\ dj \in Nat /\ g \in Nat
  BY <1>1, BalanceType DEF Gain
<1>5. u = s => g = IF Recorded(s) < MAX_THREADS THEN 1 ELSE 0
  BY DEF Gain, Recorded
<1>6. u # s => g = 0
  <2>1. ASSUME u # s, ip_to_key[u] # NoKey PROVE ip_to_key[u] # ip_to_key[s]
    BY <1>1, <2>1, SlotOwner
  <2> QED
    BY <2>1 DEF Gain
<1>7. u = s => Booked(u) >= 1
  <2>1. pings[s] \in Nat
    BY <1>1 DEF TypeOK
  <2> QED
    BY <1>1, <2>1, OutstandingParts DEF Booked, Outstanding
<1> HIDE DEF dj, g
<1>8. CASE u = s
  BY <1>2, <1>3, <1>4, <1>5, <1>7, <1>8, SizesAssumption DEF Balance
<1>9. CASE u # s
  BY <1>2, <1>3, <1>4, <1>6, <1>9 DEF Balance
<1> QED
  BY <1>8, <1>9

LEMMA FirstPingBalance ==
  ASSUME FaultInv, NEW s \in Server, FirstPing(s),
         UNCHANGED servervars, pings[s] > 0, pings' = [pings EXCEPT ![s] = @ - 1],
         NEW u \in Server
  PROVE  /\ Balance(u)' <= Balance(u)
         /\ ip_to_key'[u] # NoKey =>
              Balance(u)' > 0 \/ (Balance(u)' = Balance(u) /\ ip_to_key[u] # NoKey)
<1>1. TypeOK /\ LbInv /\ LbTypeOK
  BY DEF FaultInv, FaultTypeOK, LbInv
<1>2. /\ ip_to_key[s] = NoKey /\ server_cnt \in Key
      /\ ~Occupied(servers, server_cnt) /\ jobs' = jobs
      /\ ip_to_key'[u] = IF u = s THEN server_cnt ELSE ip_to_key[u]
      /\ \A k \in Key : servers'[k] =
           IF k = server_cnt THEN [saddr |-> s, free_threads |-> MAX_THREADS]
           ELSE servers[k]
  BY <1>1 DEF FirstPing, LbTypeOK
<1> DEFINE dp == IF u = s THEN -1 ELSE 0
<1>3. Booked(u)' = Booked(u) + 0 + dp
  <2>1. Cardinality(jobs[u]) \in Nat /\ pings[u] \in Nat
    BY <1>1, OutstandingParts
  <2>2. Cardinality(jobs'[u]) = Cardinality(jobs[u]) + 0
    BY <1>2, <2>1
  <2>3. pings'[u] = pings[u] + dp /\ dp \in Int
    BY <1>1 DEF TypeOK
  <2> HIDE DEF dp
  <2> QED
    BY <1>1, <2>2, <2>3, LbBooked
<1>4. /\ Recorded(u) \in Nat /\ Booked(u) \in Nat
  BY <1>1, BalanceType
<1>5. CASE u = s
  <2>1. Recorded(s) = MAX_THREADS - 1 /\ Recorded(s)' = MAX_THREADS
    BY <1>2, <1>5 DEF Recorded, Key, NoKey
  <2>2. Booked(u) >= 1
    BY <1>1, <1>5, OutstandingParts DEF Booked, Outstanding
  <2> QED
    BY <1>3, <1>4, <1>5, <2>1, <2>2, SizesAssumption DEF Balance
<1>6. CASE u # s
  <2>1. Recorded(u)' = Recorded(u)
    <3>1. ip_to_key[u] # NoKey =>
            ip_to_key[u] \in Key /\ Occupied(servers, ip_to_key[u])
      BY <1>1, SlotOwner
    <3> QED
      BY <1>2, <1>6, <3>1 DEF Recorded
  <2> QED
    BY <1>2, <1>3, <1>4, <1>6, <2>1 DEF Balance
<1> QED
  BY <1>5, <1>6

\* What an invocation leaves alone, whatever it does with the frame.
LEMMA LbBeside ==
  ASSUME FaultInv, [LbNext]_lbvars, UNCHANGED servervars, Faultless,
         \A u \in Server : jobs[u] \subseteq jobs'[u]
  PROVE  /\ LbInv' /\ LbTypeOK' /\ ThreadsSound'
         /\ lost' = lost /\ UNCHANGED counters
         /\ thread' = thread
         /\ \A u \in Server, x \in Request : Held(u, x)' = Held(u, x)
<1>1. /\ thread' = thread
      /\ \A u \in Server, x \in Request : Held(u, x)' = Held(u, x)
  BY BesideWorkers
<1>2. lost' = lost /\ UNCHANGED counters
  BY <1>1, NothingRefused DEF AtWorker
<1>3. LbInv' /\ LbTypeOK'
  BY LbStepInv DEF FaultInv, LbInv
<1> QED
  BY <1>1, <1>2, <1>3, ThreadsKept DEF FaultInv

\* The places of the jobs when the invocation moves none.
LEMMA LbMovesNone ==
  ASSUME PlacedOnce, UNCHANGED servervars, lost' = lost,
         UNCHANGED <<jobs, queue, unsent, reqs, dropped>>
  PROVE  PlacedOnce'
<1>1. \A u \in Server, x \in Request :
        AtWorker(u, x)' = AtWorker(u, x) /\ Held(u, x)' = Held(u, x)
  BY BesideWorkers DEF AtWorker
<1>2. OnceAtWorker'
  BY <1>1, BesideWorkers DEF PlacedOnce, OnceAtWorker
<1> QED
  BY <1>1, <1>2, PlacesKept

\* The places of the jobs when r is sent to d and leaves everything else.
LEMMA LbSends ==
  ASSUME PlacedOnce, UNCHANGED servervars, lost' = lost, dropped' = dropped,
         unsent' = unsent,
         NEW r \in Request, NEW d \in Server, \A u \in Server : ~AtWorker(u, r),
         \A u \in Server : jobs'[u] = IF d = u THEN jobs[u] \cup {r} ELSE jobs[u],
         WaitsOnce', r \in reqs \cup Queued,
         reqs' = reqs \ {r}, Queued' = Queued \ {r}
  PROVE  PlacedOnce'
<1>1. /\ thread' = thread
      /\ \A u \in Server, x \in Request : Held(u, x)' = Held(u, x)
  BY BesideWorkers
<1>2. \A u \in Server, x \in Request :
        AtWorker(u, x)' <=> (AtWorker(u, x) \/ (u = d /\ x = r))
  BY <1>1 DEF AtWorker
<1>3. OnceAtWorker'
  <2>1. \A u \in Server : ~Held(u, r) /\ thread[u][r] = "none"
    BY DEF AtWorker
  <2>2. \A u \in Server, x \in Request : x \in jobs'[u] => x \in jobs[u] \/ x = r
    OBVIOUS
  <2> QED
    BY <1>1, <2>1, <2>2 DEF PlacedOnce, OnceAtWorker
<1> SUFFICES ASSUME NEW x \in Request
    PROVE  /\ x \in unsent => x \notin reqs' \cup dropped \cup Queued' \cup lost
           /\ x \in reqs' => x \notin dropped \cup Queued' \cup lost
           /\ x \in dropped => x \notin Queued' \cup lost
           /\ x \in Queued' => x \notin lost
           /\ x \in unsent \cup reqs' \cup dropped \cup Queued' \cup lost
                <=> \A s \in Server : ~AtWorker(s, x)'
           /\ \A s, u \in Server : AtWorker(s, x)' /\ AtWorker(u, x)' => s = u
  BY <1>3 DEF PlacedOnce
<1>4. CASE x = r
  BY <1>2, <1>4 DEF PlacedOnce
<1>5. CASE x # r
  BY <1>2, <1>5 DEF PlacedOnce
<1> QED
  BY <1>4, <1>5

\* The places of the jobs when r moves between the queue, the wire to lb.c
\* and the jobs given up.
LEMMA LbKeeps ==
  ASSUME PlacedOnce, UNCHANGED servervars, lost' = lost, jobs' = jobs,
         unsent' = unsent, NEW r \in Request, r \in reqs \cup Queued, WaitsOnce',
         reqs' = reqs \ {r},
         \/ Queued' = Queued \cup {r} /\ dropped' = dropped
         \/ Queued' = Queued \ {r} /\ dropped' = dropped \cup {r}
  PROVE  PlacedOnce'
<1>1. \A u \in Server, x \in Request :
        AtWorker(u, x)' = AtWorker(u, x) /\ Held(u, x)' = Held(u, x)
  BY BesideWorkers DEF AtWorker
<1>2. OnceAtWorker'
  BY <1>1, BesideWorkers DEF PlacedOnce, OnceAtWorker
<1> SUFFICES ASSUME NEW x \in Request
    PROVE  /\ x \in unsent => x \notin reqs' \cup dropped' \cup Queued' \cup lost
           /\ x \in reqs' => x \notin dropped' \cup Queued' \cup lost
           /\ x \in dropped' => x \notin Queued' \cup lost
           /\ x \in Queued' => x \notin lost
           /\ x \in unsent \cup reqs' \cup dropped' \cup Queued' \cup lost
                <=> \A s \in Server : ~AtWorker(s, x)'
           /\ \A s, u \in Server : AtWorker(s, x)' /\ AtWorker(u, x)' => s = u
  BY <1>2 DEF PlacedOnce
<1>3. CASE x = r
  BY <1>1, <1>3 DEF PlacedOnce
<1>4. CASE x # r
  BY <1>1, <1>4 DEF PlacedOnce
<1> QED
  BY <1>3, <1>4

LEMMA PingFault ==
  ASSUME FaultInv, NEW s \in Server, LbPing(s), Faultless
  PROVE  FaultInv'
<1> USE DEF FaultInv
<1>1. /\ pings[s] > 0
      /\ pings' = [pings EXCEPT ![s] = @ - 1]
      /\ UNCHANGED servervars /\ UNCHANGED clientvars
      /\ UNCHANGED <<unsent, reqs>>
  BY DEF LbPing, clientvars
<1>2. [LbNext]_lbvars
  BY StepIsLbStep DEF Next
<1>3. TypeOK /\ jobs \in [Server -> SUBSET Request] /\ queue \in Seq(Request)
      /\ dropped \in SUBSET Request /\ WaitsOnce
  BY DEF FaultTypeOK, TypeOK, LbTypeOK, PlacedOnce
<1>4. pings' \in [Server -> Nat]
  BY <1>1, <1>3 DEF TypeOK
<1>5. ASSUME jobs' \in [Server -> SUBSET Request], dropped' \in SUBSET Request,
             \A u \in Server : jobs[u] \subseteq jobs'[u], PlacedOnce',
             \A u \in Server :
               /\ Balance(u)' <= Balance(u)
               /\ ip_to_key'[u] # NoKey => \/ Balance(u)' > 0
                                           \/ /\ Balance(u)' = Balance(u)
                                              /\ ip_to_key[u] # NoKey
      PROVE  FaultInv'
  <2>1. /\ LbInv' /\ LbTypeOK' /\ ThreadsSound'
        /\ lost' = lost /\ UNCHANGED counters
    BY <1>1, <1>2, <1>5, LbBeside
  <2>2. TypeOK'
    BY <1>1, <1>3, <1>4, <1>5, <2>1 DEF TypeOK, servervars, clientvars
  <2>3. FaultTypeOK'
    BY <2>1, <2>2, CountersKept DEF FaultTypeOK
  <2>4. Ledger'
    BY <1>5, <2>1, <2>2, LedgerKept
  <2> QED
    BY <1>5, <2>1, <2>3, <2>4
<1>6. ASSUME \A u \in Server : jobs[u] \subseteq jobs'[u] PROVE lost' = lost
  BY <1>1, <1>2, <1>6, LbBeside
<1>7. CASE FirstPing(s)
  <2>1. UNCHANGED <<queue, jobs, dropped>>
    BY <1>7 DEF FirstPing
  <2>2. PlacedOnce'
    BY <1>1, <1>6, <2>1, LbMovesNone
  <2> QED
    BY <1>1, <1>3, <1>5, <1>7, <2>1, <2>2, FirstPingBalance
<1>8. ASSUME jobs' = jobs PROVE JobFor(NoKey)
  BY <1>3, <1>8, OutstandingParts DEF JobFor
<1>9. CASE Credit(s)
  <2>1. UNCHANGED <<queue, jobs, dropped>> /\ ip_to_key[s] # NoKey
        /\ ip_to_key' = ip_to_key /\ SlotsMove(ip_to_key[s], NoKey)
    BY <1>9 DEF Credit
  <2>2. PlacedOnce'
    BY <1>1, <1>6, <2>1, LbMovesNone
  <2> QED
    BY <1>1, <1>3, <1>5, <1>8, <2>1, <2>2, PingBalance
<1>10. ASSUME queue # << >>, queue' = Tail(queue)
       PROVE  /\ Head(queue) \in Request /\ Head(queue) \in Queued
              /\ Queued' = Queued \ {Head(queue)}
              /\ WaitsOnce'
              /\ reqs' = reqs \ {Head(queue)}
              /\ \A u \in Server : ~AtWorker(u, Head(queue))
  <2>1. /\ Head(queue) \in Request /\ Head(queue) \in Queued
        /\ Queued' = Queued \ {Head(queue)} /\ WaitsOnce'
    BY <1>3, <1>10, TailElements DEF Queued, WaitsOnce
  <2> QED
    BY <1>1, <2>1 DEF PlacedOnce
<1>11. CASE HandOver(s)
  <2>1. /\ ip_to_key[s] # NoKey /\ ip_to_key' = ip_to_key /\ dropped' = dropped
        /\ queue # << >> /\ queue' = Tail(queue)
    BY <1>11 DEF HandOver
  <2>2. PICK b \in Key : /\ Occupied(servers, b)
                        /\ SlotsMove(ip_to_key[s], b)
                        /\ SendTo(b, Head(queue))
    BY <1>11 DEF HandOver
  <2>3. PICK r \in Request : r = Head(queue)
    BY <1>10, <2>1
  <2>4. PICK d \in Server : d = servers[b].saddr /\ ip_to_key[d] = b
    BY <2>2, SlotHost
  <2>5. SendTo(b, r) /\ \A u \in Server : ~AtWorker(u, r)
    BY <1>10, <2>1, <2>2, <2>3
  <2>6. /\ jobs' \in [Server -> SUBSET Request]
        /\ \A u \in Server : jobs'[u] = IF d = u THEN jobs[u] \cup {r} ELSE jobs[u]
        /\ \A u \in Server : Cardinality(jobs'[u]) = Cardinality(jobs[u])
                               + (IF d = u THEN 1 ELSE 0)
    BY <1>1, <1>3, <2>2, <2>4, <2>5, JobSent
  <2>7. JobFor(b)
    <3>1. \A u \in Server : ip_to_key[u] # NoKey /\ ip_to_key[u] = b <=> d = u
      BY <2>2, <2>4, SlotOwner DEF Key, NoKey
    <3> QED
      BY <2>6, <3>1 DEF JobFor
  <2>8. lost' = lost
    BY <1>6, <2>6
  <2>9. PlacedOnce'
    BY <1>1, <1>10, <2>1, <2>3, <2>5, <2>6, <2>8, LbSends
  <2> QED
    BY <1>1, <1>3, <1>5, <2>1, <2>2, <2>6, <2>7, <2>9, PingBalance
<1>12. CASE Waste(s)
  <2>1. /\ ip_to_key[s] # NoKey /\ ip_to_key' = ip_to_key /\ jobs' = jobs
        /\ queue # << >> /\ queue' = Tail(queue)
        /\ SlotsMove(ip_to_key[s], NoKey)
        /\ dropped' = dropped \cup {Head(queue)}
    BY <1>12 DEF Waste
  <2>2. lost' = lost
    BY <1>6, <2>1
  <2>3. PlacedOnce'
    BY <1>1, <1>10, <2>1, <2>2, LbKeeps
  <2> QED
    BY <1>1, <1>3, <1>5, <1>8, <1>10, <2>1, <2>3, PingBalance
<1> QED
  BY <1>3, <1>7, <1>9, <1>11, <1>12, PingOutcomes

LEMMA RequestFault ==
  ASSUME FaultInv, NEW r \in Request, LbRequest(r), Faultless
  PROVE  FaultInv'
<1> USE DEF FaultInv
<1>1. /\ r \in reqs /\ reqs' = reqs \ {r} /\ unsent' = unsent /\ pings' = pings
      /\ UNCHANGED servervars
  BY DEF LbRequest
<1>2. [LbNext]_lbvars
  BY StepIsLbStep DEF Next
<1>3. TypeOK /\ jobs \in [Server -> SUBSET Request] /\ queue \in Seq(Request)
      /\ dropped \in SUBSET Request /\ WaitsOnce
  BY DEF FaultTypeOK, TypeOK, LbTypeOK, PlacedOnce
<1>4. r \notin Queued /\ \A u \in Server : ~AtWorker(u, r)
  BY <1>1 DEF PlacedOnce
<1>5. ASSUME jobs' \in [Server -> SUBSET Request], dropped' \in SUBSET Request,
             \A u \in Server : jobs[u] \subseteq jobs'[u], PlacedOnce',
             \A u \in Server : Balance(u)' = Balance(u),
             ip_to_key' = ip_to_key
      PROVE  FaultInv'
  <2>1. /\ LbInv' /\ LbTypeOK' /\ ThreadsSound'
        /\ lost' = lost /\ UNCHANGED counters
    BY <1>1, <1>2, <1>5, LbBeside
  <2>2. TypeOK'
    BY <1>1, <1>3, <1>5, <2>1 DEF TypeOK, servervars
  <2>3. FaultTypeOK'
    BY <2>1, <2>2, CountersKept DEF FaultTypeOK
  <2>4. \A u \in Server : Balance(u)' <= Balance(u) /\ Balance(u)' = Balance(u)
    BY <1>3, <1>5, BalancesType
  <2>5. Ledger'
    BY <1>5, <2>1, <2>2, <2>4, LedgerKept
  <2> QED
    BY <1>5, <2>1, <2>3, <2>5
<1>6. ASSUME \A u \in Server : jobs[u] \subseteq jobs'[u] PROVE lost' = lost
  BY <1>1, <1>2, <1>6, LbBeside
<1>7. CASE Direct(r)
  <2>1. ip_to_key' = ip_to_key /\ dropped' = dropped /\ queue' = queue
    BY <1>7 DEF Direct
  <2>2. PICK b \in Key : /\ Occupied(servers, b)
                        /\ SlotsMove(NoKey, b)
                        /\ SendTo(b, r)
    BY <1>7 DEF Direct
  <2>3. PICK d \in Server : d = servers[b].saddr /\ ip_to_key[d] = b
    BY <2>2, SlotHost
  <2>4. /\ jobs' \in [Server -> SUBSET Request]
        /\ \A u \in Server : jobs'[u] = IF d = u THEN jobs[u] \cup {r} ELSE jobs[u]
        /\ \A u \in Server : Cardinality(jobs'[u]) = Cardinality(jobs[u])
                               + (IF d = u THEN 1 ELSE 0)
    BY <1>1, <1>3, <1>4, <2>2, <2>3, JobSent
  <2>5. lost' = lost
    BY <1>6, <2>4
  <2>6. PlacedOnce'
    <3>1. Queued' = Queued \ {r} /\ WaitsOnce'
      BY <1>3, <1>4, <2>1 DEF Queued, WaitsOnce
    <3> QED
      BY <1>1, <1>4, <2>1, <2>4, <2>5, <3>1, LbSends
  <2>7. ASSUME NEW u \in Server PROVE Balance(u)' = Balance(u)
    <3> DEFINE dj == IF d = u THEN 1 ELSE 0
               dp == 0
    <3>1. pings'[u] = pings[u] + dp /\ dp \in Int
      BY <1>1, <1>3, OutstandingParts
    <3>2. dj \in Int /\ Cardinality(jobs'[u]) = Cardinality(jobs[u]) + dj
      BY <2>4
    <3> HIDE DEF dj, dp
    <3>3. Booked(u)' = Booked(u) + dj + dp
      BY <1>1, <1>3, <3>1, <3>2, LbBooked
    <3>4. /\ ip_to_key[u] # NoKey /\ ip_to_key[u] = b <=> d = u
          /\ Gain(NoKey, ip_to_key[u]) = 0 \/ ip_to_key[u] = NoKey
      BY <2>2, <2>3, SlotOwner DEF Key, NoKey, Gain
    <3>5. Recorded(u)' = Recorded(u) +
           (IF ip_to_key[u] = NoKey THEN 0
            ELSE Gain(NoKey, ip_to_key[u]) - (IF ip_to_key[u] = b THEN 1 ELSE 0))
      BY <2>1, <2>2, SlotsRecorded
    <3>6. Recorded(u) \in Nat /\ Booked(u) \in Nat
      BY <1>3, BalanceType
    <3>7. Recorded(u)' = Recorded(u) - dj
      BY <3>4, <3>5, <3>6 DEF dj
    <3> QED
      BY <3>2, <3>3, <3>6, <3>7 DEF Balance, dp
  <2> QED
    BY <1>3, <1>5, <2>1, <2>4, <2>6, <2>7
<1>8. ASSUME Hold
      PROVE  /\ jobs' = jobs /\ ip_to_key' = ip_to_key /\ lost' = lost
             /\ \A u \in Server : Balance(u)' = Balance(u)
  <2>1. jobs' = jobs /\ ip_to_key' = ip_to_key /\ servers' = servers
    BY <1>8 DEF Hold
  <2>2. \A u \in Server : Booked(u)' = Booked(u) /\ Recorded(u)' = Recorded(u)
    BY <1>1, <2>1, BesideWorkers DEF Booked, Outstanding, Recorded
  <2> QED
    BY <1>6, <2>1, <2>2 DEF Balance
<1>9. CASE Wait(r)
  <2>1. Hold /\ dropped' = dropped /\ queue' = Append(queue, r)
    BY <1>9 DEF Wait
  <2>2. Queued' = Queued \cup {r} /\ WaitsOnce'
    BY <1>3, <1>4, <2>1, AppendElements, AppendInjective DEF Queued, WaitsOnce
  <2>3. PlacedOnce'
    BY <1>1, <1>8, <2>1, <2>2, LbKeeps
  <2> QED
    BY <1>3, <1>5, <1>8, <2>1, <2>3
<1>10. CASE Overflow(r)
  <2>1. Hold /\ dropped' = dropped \cup {r} /\ queue' = queue
    BY <1>10 DEF Overflow
  <2>2. Queued' = Queued \ {r} /\ WaitsOnce'
    BY <1>3, <1>4, <2>1 DEF Queued, WaitsOnce
  <2>3. PlacedOnce'
    BY <1>1, <1>8, <2>1, <2>2, LbKeeps
  <2> QED
    BY <1>3, <1>5, <1>8, <2>1, <2>3
<1> QED
  BY <1>4, <1>7, <1>9, <1>10, RequestOutcomes

-----------------------------------------------------------------------------
(* Faults keep the invariant. *)

LEMMA CrashFault ==
  ASSUME FaultInv, NEW s \in Server, Crash(s)
  PROVE  FaultInv'
<1> USE DEF FaultInv
<1>1. PICK buffered \in SUBSET jobs[s] :
        /\ jobs' = [jobs EXCEPT ![s] = @ \ buffered]
        /\ lost' = lost \cup Dying(s) \cup buffered
  BY DEF Crash
<1>2. /\ mainpc[s] # "start"
      /\ crashes[s] < MaxCrashes
      /\ crashes' = [crashes EXCEPT ![s] = @ + 1]
      /\ mainpc' = [mainpc EXCEPT ![s] = "start"]
      /\ data' = [data EXCEPT ![s] = NoRequest]
      /\ n_threads' = [n_threads EXCEPT ![s] = 0]
      /\ job' = [job EXCEPT ![s] = [t \in Request |-> NoRequest]]
      /\ total_sleep_time' = [total_sleep_time EXCEPT ![s] = [r \in Request |-> 0]]
      /\ UNCHANGED lbvars /\ pings' = pings /\ UNCHANGED <<unsent, reqs>>
      /\ UNCHANGED <<dropped, losses, reloads>>
  BY DEF Crash, clientvars
<1>3. TypeOK /\ OnceAtWorker /\ crashes \in [Server -> 0 .. MaxCrashes]
      /\ MaxCrashes \in Nat
  BY FaultsAssumption DEF FaultTypeOK, PlacedOnce
<1>4. /\ thread' \in [Server -> [Request -> ThreadPc]]
      /\ \A u \in Server, x \in Request :
           thread'[u][x] = IF u = s /\ thread[u][x] # "done" THEN "none"
                           ELSE thread[u][x]
  BY <1>3 DEF Crash, TypeOK, ThreadPc
<1>5. /\ \A u \in Server : mainpc'[u] = IF u = s THEN "start" ELSE mainpc[u]
      /\ \A u \in Server : u # s => data'[u] = data[u]
      /\ \A u \in Server : jobs'[u] = IF u = s THEN jobs[u] \ buffered ELSE jobs[u]
      /\ \A u \in Server : n_threads'[u] = IF u = s THEN 0 ELSE n_threads[u]
      /\ \A u \in Server : u # s => job'[u] = job[u]
      /\ \A u \in Server : crashes'[u] = IF u = s THEN crashes[u] + 1 ELSE crashes[u]
  BY <1>1, <1>2, <1>3 DEF TypeOK
<1>6. LbInv' /\ LbTypeOK'
  BY <1>2, LbUntouched
<1> DEFINE X == Dying(s) \cup buffered
<1>7. X \in SUBSET Request /\ lost' = lost \cup X
  <2>1. buffered \subseteq Request
    BY <1>3 DEF TypeOK
  <2>2. mainpc[s] = "check" => data[s] \in Request
    BY DEF ThreadsSound
  <2> QED
    BY <1>1, <2>1, <2>2, ThreadSets DEF Dying
<1>8. FaultTypeOK'
  <2>1. TypeOK'
    BY <1>1, <1>2, <1>3, <1>4, <1>6 DEF TypeOK, MainPc
  <2>2. crashes' \in [Server -> 0 .. MaxCrashes]
    BY <1>2, <1>3
  <2>3. lost' \in SUBSET Request
    BY <1>7 DEF FaultTypeOK
  <2>4. losses' \in 0 .. MaxLosses /\ reloads' \in 0 .. MaxReloads
    BY <1>2 DEF FaultTypeOK
  <2> QED
    BY <2>1, <2>2, <2>3, <2>4 DEF FaultTypeOK
<1>9. /\ ThreadsAt(s, Live)' = {} /\ ThreadsAt(s, Counted)' = {}
      /\ \A u \in Server : u # s => /\ ThreadsAt(u, Live)' = ThreadsAt(u, Live)
                                    /\ ThreadsAt(u, Counted)' = ThreadsAt(u, Counted)
  <2>1. \A x \in Request : thread'[s][x] \notin Live /\ thread'[s][x] \notin Counted
    BY <1>4 DEF Live, Counted
  <2> QED
    BY <1>4, <2>1 DEF ThreadsAt
<1>10. Cardinality({}) = 0
  BY FS_EmptySet
<1>11. ThreadsSound'
  <2>1. \A u \in Server : n_threads'[u] = Cardinality(ThreadsAt(u, Counted)')
    BY <1>5, <1>9, <1>10 DEF ThreadsSound
  <2>2. \A x \in Request : thread'[s][x] \in {"none", "done"}
    BY <1>4
  <2> QED
    BY <1>4, <1>5, <2>1, <2>2 DEF ThreadsSound
<1>12. \A u \in Server, x \in Request : Held(u, x)' <=> Held(u, x) /\ u # s
  BY <1>5 DEF Held
<1>13. OnceAtWorker'
  <2>1. \A u \in Server, x \in Request : x \in jobs'[u] => x \in jobs[u]
    BY <1>5
  <2>2. \A u \in Server, x \in Request : thread[u][x] = "none" => thread'[u][x] = "none"
    BY <1>4
  <2> QED
    BY <1>3, <1>12, <2>1, <2>2 DEF OnceAtWorker
<1>14. \A x \in Request :
         x \in X <=> \/ thread[s][x] \in Live
                     \/ Held(s, x)
                     \/ x \in buffered
  BY DEF Dying, ThreadsAt, Held
<1>15. \A x \in Request : AtWorker(s, x)' <=> AtWorker(s, x) /\ x \notin X
  <2>1. \A x \in Request : thread[s][x] \in Live <=> thread[s][x] \notin {"none", "done"}
    BY <1>3 DEF TypeOK, Live, ThreadPc
  <2>2. \A x \in Request : x \in jobs[s] => ~Held(s, x) /\ thread[s][x] = "none"
    BY <1>3 DEF OnceAtWorker
  <2>3. \A x \in Request : Held(s, x) => thread[s][x] = "none"
    BY <1>3 DEF OnceAtWorker
  <2>4. \A x \in Request :
          AtWorker(s, x)' <=> (x \in jobs[s] /\ x \notin buffered) \/ thread[s][x] = "done"
    BY <1>4, <1>5, <1>12 DEF AtWorker
  <2> HIDE DEF X
  <2> QED
    BY <1>1, <1>14, <2>1, <2>2, <2>3, <2>4 DEF AtWorker
<1>16. /\ \A x \in X : AtWorker(s, x)
       /\ \A u \in Server, x \in Request :
            AtWorker(u, x)' <=> AtWorker(u, x) /\ x \notin X
  <2>1. \A x \in X : AtWorker(s, x)
    <3>1. "none" \notin Live
      BY DEF Live
    <3> QED
      BY <1>1, <1>7, <1>14, <3>1 DEF AtWorker
  <2>2. \A u \in Server, x \in Request : u # s /\ AtWorker(u, x) => x \notin X
    BY <2>1 DEF PlacedOnce
  <2>3. \A u \in Server, x \in Request : u # s => AtWorker(u, x)' = AtWorker(u, x)
    BY <1>4, <1>5, <1>12 DEF AtWorker
  <2> HIDE DEF X
  <2> QED
    BY <1>15, <2>1, <2>2, <2>3
<1>17. PlacedOnce'
  <2>1. queue' = queue
    BY <1>2 DEF lbvars
  <2> HIDE DEF X
  <2> QED
    BY <1>2, <1>7, <1>13, <1>16, <2>1, PlacesAfterLoss
<1>18. ASSUME NEW u \in Server
       PROVE  /\ Balance(u)' + crashes[u] <= Balance(u) + crashes'[u]
              /\ Balance(u)' > 0 \/ Balance(u)' = Balance(u)
  <2>1. Recorded(u)' = Recorded(u) /\ Recorded(u) \in Nat /\ Booked(u) \in Nat
    BY <1>2, <1>3, BalanceType DEF Recorded, lbvars
  <2>2. CASE u # s
    <3>1. Booked(u)' = Booked(u)
      BY <1>2, <1>5, <1>9, <2>2 DEF Booked, Outstanding
    <3>2. crashes'[u] = crashes[u] /\ crashes[u] \in Nat
      BY <1>3, <1>5, <2>2
    <3> QED
      BY <2>1, <3>1, <3>2 DEF Balance
  <2>3. CASE u = s
    <3>1. /\ Cardinality(jobs[s]) \in Nat /\ pings[s] \in Nat
          /\ Cardinality(ThreadsAt(s, Live)) \in Nat
      BY <1>3, OutstandingParts
    <3>2. Cardinality(jobs'[s]) \in Nat /\ Cardinality(jobs'[s]) <= Cardinality(jobs[s])
      <4>1. jobs'[s] \subseteq jobs[s] /\ jobs[s] \in SUBSET Request
        BY <1>3, <1>5 DEF TypeOK
      <4> QED
        BY <4>1, JobSetFinite, FS_Subset
    <3>3. Booked(s)' = Cardinality(jobs'[s]) + pings[s] + 1
      BY <1>2, <1>5, <1>9, <1>10, <3>1, <3>2 DEF Booked, Outstanding
    <3>4. Booked(s)' <= Booked(s) + 1 /\ Booked(s)' \in Nat /\ Booked(s)' > 0
      BY <1>2, <3>1, <3>2, <3>3 DEF Booked, Outstanding
    <3>5. crashes'[s] = crashes[s] + 1 /\ crashes[s] \in Nat
      BY <1>3, <1>5
    <3> QED
      BY <2>1, <2>3, <3>4, <3>5 DEF Balance
  <2> QED
    BY <2>2, <2>3
<1>19. Ledger'
  <2>1. Forgotten' = Forgotten /\ Forgotten \in Nat
    BY <1>2, ForgottenType, FaultsAssumption DEF FaultTypeOK, Forgotten
  <2>2. \A u \in Server : Balance(u) \in Nat /\ crashes[u] \in Nat /\ crashes'[u] \in Nat
    BY <1>3, <1>5, BalanceType
  <2>3. TypeOK'
    BY <1>8 DEF FaultTypeOK
  <2>4. (\A w \in Server : Balance(w) \in Nat)'
    BY <1>6, <2>3, BalancesType, PTL
  <2> QED
    BY <1>2, <1>18, <2>1, <2>2, <2>4, SizesAssumption DEF Ledger, lbvars
<1> QED
  BY <1>6, <1>8, <1>11, <1>17, <1>19

\* A datagram to the worker s disappears.
LEMMA DatagramGone ==
  ASSUME FaultInv, NEW s \in Server, NEW r \in Request, r \in jobs[s],
         jobs' = [jobs EXCEPT ![s] = @ \ {r}], lost' = lost \cup {r}, pings' = pings,
         UNCHANGED <<lbvars, servervars>>, UNCHANGED <<unsent, reqs, dropped>>
  PROVE  /\ TypeOK' /\ ThreadsSound' /\ PlacedOnce'
         /\ \A u \in Server : Booked(u)' = Booked(u) - (IF u = s THEN 1 ELSE 0)
<1> USE DEF FaultInv
<1>1. TypeOK /\ OnceAtWorker /\ jobs \in [Server -> SUBSET Request]
  BY DEF FaultTypeOK, TypeOK, PlacedOnce
<1>2. \A u \in Server : jobs'[u] = IF u = s THEN jobs[u] \ {r} ELSE jobs[u]
  BY <1>1
<1>3. TypeOK'
  <2>1. LbTypeOK'
    BY LbUntouched
  <2> QED
    BY <1>1, <2>1 DEF TypeOK, servervars
<1>4. ThreadsSound'
  BY ThreadsKept
<1>5. /\ thread' = thread
      /\ \A u \in Server, x \in Request : Held(u, x)' = Held(u, x)
  BY BesideWorkers
<1>6. \A u \in Server, x \in Request : x \in jobs'[u] => x \in jobs[u]
  BY <1>2
<1>7. OnceAtWorker'
  BY <1>1, <1>5, <1>6 DEF OnceAtWorker
<1>8. AtWorker(s, r) /\ ~Held(s, r) /\ thread[s][r] = "none"
  BY <1>1 DEF AtWorker, OnceAtWorker
<1>9. PlacedOnce'
  <2>1. PICK X \in SUBSET Request : X = {r}
    OBVIOUS
  <2>2. \A u \in Server : AtWorker(u, r) => u = s
    BY <1>8 DEF PlacedOnce
  <2>3. \A u \in Server, x \in Request :
          AtWorker(u, x)' <=> AtWorker(u, x) /\ x \notin X
    BY <1>2, <1>5, <1>8, <2>1, <2>2 DEF AtWorker
  <2>4. /\ lost' = lost \cup X /\ queue' = queue
        /\ \A x \in X : \E u \in Server : AtWorker(u, x)
    BY <1>8, <2>1 DEF lbvars
  <2> QED
    BY <1>7, <2>3, <2>4, PlacesAfterLoss
<1>10. ASSUME NEW u \in Server
       PROVE  Booked(u)' = Booked(u) - (IF u = s THEN 1 ELSE 0)
  <2> DEFINE dj == IF u = s THEN -1 ELSE 0
             dp == 0
  <2>1. Cardinality(jobs'[u]) = Cardinality(jobs[u]) + dj /\ dj \in Int
    <3>1. Cardinality(jobs[u]) \in Nat
      BY <1>1, OutstandingParts
    <3>2. CASE u = s
      BY <1>1, <1>2, <3>1, <3>2, RemoveJob
    <3>3. CASE u # s
      BY <1>2, <3>1, <3>3
    <3> QED
      BY <3>2, <3>3
  <2>2. pings'[u] = pings[u] + dp /\ dp \in Int
    BY <1>1, OutstandingParts
  <2> HIDE DEF dj, dp
  <2>3. Booked(u)' = Booked(u) + dj + dp
    BY <1>1, <2>1, <2>2, LbBooked
  <2>4. Booked(u) \in Nat
    BY <1>1, BookedType
  <2> QED
    BY <2>3, <2>4 DEF dj, dp
<1> QED
  BY <1>3, <1>4, <1>9, <1>10

LEMMA UnreachableFault ==
  ASSUME FaultInv, NEW s \in Server, NEW r \in Request, Unreachable(s, r)
  PROVE  FaultInv'
<1> USE DEF FaultInv
<1>1. /\ mainpc[s] = "start" /\ r \in jobs[s]
      /\ jobs' = [jobs EXCEPT ![s] = @ \ {r}]
      /\ lost' = lost \cup {r} /\ pings' = pings
      /\ UNCHANGED <<lbvars, servervars>> /\ UNCHANGED <<unsent, reqs, dropped>>
      /\ UNCHANGED counters
  BY DEF Unreachable, clientvars
<1>2. /\ TypeOK' /\ ThreadsSound' /\ PlacedOnce'
      /\ \A u \in Server : Booked(u)' = Booked(u) - (IF u = s THEN 1 ELSE 0)
  BY <1>1, DatagramGone
<1>3. LbInv'
  BY <1>1, LbUntouched
<1>4. FaultTypeOK'
  BY <1>1, <1>2, CountersKept DEF FaultTypeOK
<1>5. ASSUME NEW u \in Server
      PROVE  \/ Booked(u)' = Booked(u)
             \/ Booked(u)' < Booked(u) /\ Booked(u)' > 0
  <2>1. Booked(u) \in Nat /\ TypeOK
    BY BookedType DEF FaultTypeOK
  <2>2. Booked(s) >= 2
    <3>1. Cardinality(jobs[s]) >= 1
      <4>1. Cardinality(jobs[s] \ {r}) = Cardinality(jobs[s]) - 1
            /\ Cardinality(jobs[s] \ {r}) \in Nat /\ Cardinality(jobs[s]) \in Nat
        BY <1>1, <2>1, RemoveJob, JobSetFinite DEF TypeOK
      <4> QED
        BY <4>1
    <3> QED
      BY <1>1, <2>1, <3>1, OutstandingParts DEF Booked, Outstanding
  <2>3. CASE u = s
    BY <1>2, <2>1, <2>2, <2>3
  <2>4. CASE u # s
    BY <1>2, <2>1, <2>4
  <2> QED
    BY <2>3, <2>4
<1>6. Ledger'
  BY <1>1, <1>2, <1>5, BesideLb
<1> QED
  BY <1>2, <1>3, <1>4, <1>6

LEMMA LoseFault ==
  ASSUME FaultInv, Lose
  PROVE  FaultInv'
<1> USE DEF FaultInv
<1>1. /\ losses < MaxLosses /\ losses' = losses + 1
      /\ UNCHANGED <<lbvars, servervars>> /\ UNCHANGED <<unsent, dropped>>
      /\ UNCHANGED <<crashes, reloads>>
  BY DEF Lose
<1>2. TypeOK /\ losses \in Nat /\ MaxLosses \in Nat
      /\ crashes \in [Server -> 0 .. MaxCrashes]
  BY FaultsAssumption DEF FaultTypeOK
<1>3. LbInv' /\ LbTypeOK' /\ Queued' = Queued /\ queue' = queue
  BY <1>1, LbUntouched DEF lbvars
<1>4. ASSUME TypeOK', ThreadsSound', PlacedOnce', lost' \in SUBSET Request,
             \A u \in Server : Booked(u)' <= Booked(u)
      PROVE  FaultInv'
  <2>1. FaultTypeOK'
    BY <1>1, <1>2, <1>4 DEF FaultTypeOK
  <2>2. \A u \in Server : Recorded(u)' = Recorded(u)
    BY <1>1 DEF Recorded, lbvars
  <2>3. \A u \in Server : Recorded(u) \in Nat /\ Booked(u) \in Nat
    BY <1>2, BalanceType
  <2>4. (\A w \in Server : Booked(w) \in Nat)'
    BY <1>4, BookedType, PTL
  <2>5. \A u \in Server : Balance(u)' <= Balance(u) /\ Balance(u)' \in Nat
                          /\ Balance(u) \in Nat
    BY <1>4, <2>2, <2>3, <2>4 DEF Balance
  <2>6. Forgotten' = Forgotten /\ Forgotten \in Nat
    BY <1>1, ForgottenType, FaultsAssumption DEF FaultTypeOK, Forgotten
  <2>7. \A u \in Server : crashes[u] \in Nat
    BY <1>2, FaultsAssumption
  <2>8. Ledger'
    BY <1>1, <1>2, <2>5, <2>6, <2>7, SizesAssumption DEF Ledger
  <2> QED
    BY <1>3, <1>4, <2>1, <2>8
<1>5. ASSUME NEW s \in Server, LosePing(s) PROVE FaultInv'
  <2>1. /\ pings[s] > 0 /\ pings' = [pings EXCEPT ![s] = @ - 1]
        /\ UNCHANGED <<jobs, reqs, lost>>
    BY <1>5 DEF LosePing
  <2>2. TypeOK'
    BY <1>1, <1>2, <1>3, <2>1 DEF TypeOK, servervars
  <2>3. PlacedOnce' /\ ThreadsSound'
    BY <1>1, <1>3, <2>1, LbMovesNone, ThreadsKept
  <2>4. ASSUME NEW u \in Server PROVE Booked(u)' <= Booked(u)
    <3>1. pings'[u] = pings[u] - (IF u = s THEN 1 ELSE 0)
      BY <1>2, <2>1 DEF TypeOK
    <3> QED
      BY <1>1, <1>2, <2>1, <3>1, BesideWorkers, OutstandingParts DEF Booked, Outstanding
  <2> QED
    BY <1>4, <2>1, <2>2, <2>3, <2>4 DEF FaultTypeOK
<1>6. ASSUME NEW s \in Server, NEW r \in Request, LoseJob(s, r) PROVE FaultInv'
  <2>1. /\ r \in jobs[s] /\ jobs' = [jobs EXCEPT ![s] = @ \ {r}]
        /\ lost' = lost \cup {r} /\ UNCHANGED <<pings, reqs>>
    BY <1>6 DEF LoseJob
  <2>2. /\ TypeOK' /\ ThreadsSound' /\ PlacedOnce'
        /\ \A u \in Server : Booked(u)' = Booked(u) - (IF u = s THEN 1 ELSE 0)
    BY <1>1, <2>1, DatagramGone
  <2>3. \A u \in Server : Booked(u)' <= Booked(u)
    BY <1>2, <2>2, BookedType
  <2> QED
    BY <1>4, <2>1, <2>2, <2>3 DEF FaultTypeOK
<1>7. ASSUME NEW r \in Request, LoseRequest(r) PROVE FaultInv'
  <2>1. /\ r \in reqs /\ reqs' = reqs \ {r} /\ lost' = lost \cup {r}
        /\ UNCHANGED <<pings, jobs>>
    BY <1>7 DEF LoseRequest
  <2>2. TypeOK'
    BY <1>1, <1>2, <1>3, <2>1 DEF TypeOK, servervars
  <2>3. \A u \in Server, x \in Request :
          AtWorker(u, x)' = AtWorker(u, x) /\ Held(u, x)' = Held(u, x)
    BY <1>1, <2>1, BesideWorkers DEF AtWorker
  <2>4. OnceAtWorker' /\ WaitsOnce'
    BY <1>1, <1>3, <2>1, <2>3, BesideWorkers DEF PlacedOnce, OnceAtWorker, WaitsOnce
  <2>5. PlacedOnce'
    BY <1>1, <1>3, <2>1, <2>3, <2>4 DEF PlacedOnce
  <2>6. \A u \in Server : Booked(u)' <= Booked(u)
    BY <1>1, <1>2, <2>1, BesideWorkers, BookedType DEF Booked, Outstanding
  <2> QED
    BY <1>1, <1>4, <2>1, <2>2, <2>5, <2>6, ThreadsKept DEF FaultTypeOK
<1> QED
  BY <1>5, <1>6, <1>7 DEF Lose

LEMMA ReloadFault ==
  ASSUME FaultInv, Reload
  PROVE  FaultInv'
<1> USE DEF FaultInv
<1>1. /\ reloads < MaxReloads /\ reloads' = reloads + 1
      /\ queue' = << >> /\ lost' = lost \cup Queued
      /\ ip_to_key' = [s \in Server |-> NoKey]
      /\ UNCHANGED wires /\ UNCHANGED servervars /\ UNCHANGED <<unsent, reqs>>
      /\ UNCHANGED <<dropped, crashes, losses>>
  BY DEF Reload, clientvars
<1>2. TypeOK /\ OnceAtWorker /\ reloads \in Nat /\ MaxReloads \in Nat
      /\ crashes \in [Server -> 0 .. MaxCrashes] /\ queue \in Seq(Request)
  BY FaultsAssumption DEF FaultTypeOK, PlacedOnce, TypeOK, LbTypeOK
<1>3. LbInv' /\ LbTypeOK'
  <2>1. LbInit'
    BY DEF Reload, LbInit
  <2>2. LbInv'
    BY <2>1, LbInitInv, PTL
  <2> QED
    BY <2>2 DEF LbInv
<1>4. Queued \subseteq Request /\ Queued' = {} /\ WaitsOnce'
  BY <1>1, <1>2 DEF Queued, Elements, WaitsOnce
<1>5. TypeOK'
  BY <1>1, <1>2, <1>3 DEF TypeOK, wires, servervars
<1>6. FaultTypeOK'
  BY <1>1, <1>2, <1>4, <1>5 DEF FaultTypeOK
<1>7. \A u \in Server, x \in Request :
        AtWorker(u, x)' = AtWorker(u, x) /\ Held(u, x)' = Held(u, x)
  BY <1>1, BesideWorkers DEF AtWorker, wires
<1>8. OnceAtWorker'
  BY <1>1, <1>2, <1>7, BesideWorkers DEF OnceAtWorker, wires
<1>9. PlacedOnce'
  BY <1>1, <1>4, <1>7, <1>8 DEF PlacedOnce
<1>10. ASSUME NEW u \in Server
       PROVE  /\ Balance(u)' <= Balance(u) + (MAX_THREADS - 1)
              /\ ip_to_key'[u] = NoKey /\ Balance(u) \in Nat /\ Balance(u)' \in Int
  <2>1. Booked(u)' = Booked(u)
    BY <1>1, BesideWorkers DEF Booked, Outstanding, wires
  <2>2. Recorded(u)' = MAX_THREADS - 1 /\ ip_to_key'[u] = NoKey
    BY <1>1 DEF Recorded
  <2>3. Recorded(u) \in Nat /\ Booked(u) \in Nat
    BY <1>2, BalanceType
  <2> QED
    BY <2>1, <2>2, <2>3, SizesAssumption DEF Balance
<1>11. Ledger'
  <2>1. Forgotten' = Forgotten + (MAX_THREADS - 1) /\ Forgotten \in Nat
    BY <1>1, <1>2, ForgottenType DEF Forgotten
  <2>2. \A u \in Server : crashes[u] \in Nat
    BY <1>2, FaultsAssumption
  <2> QED
    BY <1>1, <1>10, <2>1, <2>2, SizesAssumption DEF Ledger
<1> QED
  BY <1>1, <1>3, <1>6, <1>9, <1>11, ThreadsKept

-----------------------------------------------------------------------------
LEMMA FaultInitInv == FaultInit => FaultInv
<1> SUFFICES ASSUME FaultInit PROVE FaultInv
  OBVIOUS
<1>1. SysInv /\ Init
  BY InitInv DEF FaultInit
<1>2. TypeOK /\ LbInv /\ ThreadsSound /\ ExactlyOnePlace
  BY <1>1 DEF SysInv
<1>3. FaultTypeOK
  BY <1>2, FaultsAssumption DEF FaultInit, FaultTypeOK
<1>4. PlacedOnce
  BY <1>2 DEF FaultInit, PlacedOnce, WaitsOnce, OnceAtWorker, ExactlyOnePlace
<1>5. ASSUME NEW s \in Server
      PROVE  ip_to_key[s] = NoKey /\ Recorded(s) = MAX_THREADS - 1 /\ Booked(s) = 1
  <2>1. /\ ip_to_key[s] = NoKey /\ jobs[s] = {} /\ pings[s] = 0
        /\ mainpc[s] = "start" /\ ThreadsAt(s, Live) = {}
    BY <1>1 DEF Init, LbInit, ServerInit, ThreadsAt, Live
  <2>2. Cardinality({}) = 0
    BY FS_EmptySet
  <2> QED
    BY <2>1, <2>2 DEF Recorded, Booked, Outstanding
<1>6. Ledger
  <2>1. Forgotten \in Nat /\ \A s \in Server : crashes[s] = 0
    BY ForgottenType DEF FaultInit, Forgotten
  <2> QED
    BY <1>5, <2>1, SizesAssumption DEF Ledger, Balance
<1> QED
  BY <1>2, <1>3, <1>4, <1>6 DEF FaultInv

LEMMA FaultStutter ==
  ASSUME FaultInv, UNCHANGED vars, UNCHANGED counters, lost' = lost
  PROVE  FaultInv'
<1> USE DEF FaultInv
<1>1. /\ UNCHANGED lbvars /\ UNCHANGED wires /\ UNCHANGED servervars
      /\ UNCHANGED <<jobs, queue, unsent, reqs, dropped>>
  BY DEF vars, lbvars, wires, clientvars
<1>2. TypeOK'
  BY <1>1, LbUntouched DEF FaultTypeOK, TypeOK, wires, servervars
<1>3. \A u \in Server : Booked(u)' = Booked(u)
  BY <1>1, BesideWorkers DEF Booked, Outstanding, wires
<1> QED
  BY <1>1, <1>2, <1>3, LbUntouched, ThreadsKept, LbMovesNone, CountersKept, BesideLb
     DEF FaultTypeOK

LEMMA FaultStepInv == FaultInv /\ [FaultNext]_faultvars => FaultInv'
<1> SUFFICES ASSUME FaultInv, [FaultNext]_faultvars PROVE FaultInv'
  OBVIOUS
<1>1. CASE UNCHANGED faultvars
  BY <1>1, FaultStutter DEF faultvars
<1>2. CASE Idle /\ Faultless
  <2>1. UNCHANGED vars
    BY <1>2 DEF Idle
  <2>2. \A s \in Server, r \in Request : Held(s, r) => AtWorker(s, r)'
    BY <2>1 DEF vars, wires, servervars, Held, AtWorker
  <2>3. lost' = lost /\ UNCHANGED counters
    BY <1>2, <2>2, NothingRefused
  <2> QED
    BY <2>1, <2>3, FaultStutter
<1>3. CASE Next /\ Faultless
  BY <1>2, <1>3, ClientFault, PingFault, RequestFault, MainFault, ThreadFault DEF Next
<1> QED
  BY <1>1, <1>3, CrashFault, UnreachableFault, LoseFault, ReloadFault DEF FaultNext

(* The invariant of part B under faults: lb.c's maps stay sound, server.py *)
(* counts its threads, every job is in one place, and lb.c's free_threads  *)
(* are wrong by no more than the crashes and reloads account for.          *)
THEOREM FaultInvariant == FaultSpec => []FaultInv
BY FaultInitInv, FaultStepInv, PTL DEF FaultSpec

(* Whatever crashes, gets lost or is reloaded, the state of lb.c and of    *)
(* every server.py keeps its type; free_threads never wraps below zero and *)
(* never exceeds MAX_THREADS.                                              *)
THEOREM FaultTypeCorrect == FaultSpec => []FaultTypeOK
BY FaultInvariant, PTL DEF FaultInv

\* A slot that holds the address of s is the one s is known by.
LEMMA SlotOf ==
  ASSUME FaultInv, NEW k \in Key, NEW s \in Server, servers[k].saddr = s
  PROVE  /\ ip_to_key[s] = k /\ ip_to_key[s] # NoKey
         /\ Recorded(s) = servers[k].free_threads
<1>1. Occupied(servers, k)
  BY ServersAssumption DEF Occupied
<1>2. ip_to_key[s] = k
  BY <1>1 DEF FaultInv, LbInv, KeysSound
<1>3. k # NoKey
  BY SizesAssumption DEF Key, NoKey
<1> QED
  BY <1>2, <1>3 DEF Recorded

(* How generous lb.c can become: one thread too many per crash of the      *)
(* worker, whose second 'S' counts as a completion, and MAX_THREADS - 1    *)
(* per reload, after which a busy worker's 'D' registers it as idle.       *)
THEOREM OvercommitStaysBounded == FaultSpec => []OvercommitBounded
<1>1. FaultInv => OvercommitBounded
  <2> SUFFICES ASSUME FaultInv, NEW k \in Key, NEW s \in Server,
                      servers[k].saddr = s
               PROVE  servers[k].free_threads + Outstanding(s)
                        <= MAX_THREADS + crashes[s] + reloads * (MAX_THREADS - 1)
    BY DEF OvercommitBounded
  <2>1. Recorded(s) = servers[k].free_threads
    BY SlotOf
  <2>2. /\ Recorded(s) \in Nat /\ Outstanding(s) \in Nat
        /\ Balance(s) = Recorded(s) + Outstanding(s)
                          + (IF mainpc[s] = "start" THEN 1 ELSE 0)
    BY BalanceType DEF FaultInv, FaultTypeOK, Balance, Booked
  <2>3. Balance(s) <= MAX_THREADS + crashes[s] + Forgotten
    BY DEF FaultInv, Ledger
  <2>4. MAX_THREADS + crashes[s] + Forgotten \in Int
    BY ForgottenType, FaultsAssumption, SizesAssumption
       DEF FaultInv, FaultTypeOK, Forgotten
  <2>5. Recorded(s) + Outstanding(s) <= MAX_THREADS + crashes[s] + Forgotten
    BY <2>2, <2>3, <2>4
  <2> QED
    BY <2>1, <2>5 DEF Forgotten
<1> QED
  BY <1>1, FaultInvariant, PTL

(* Until the program is reloaded, the busy test of server.py:38 throws     *)
(* nothing away at a worker that has never crashed: other workers' crashes *)
(* and lost datagrams do not make lb.c send it too much.                   *)
THEOREM HealthyNeverRefuses == FaultSpec => []HealthyNeverRefuse
<1>1. FaultInv => HealthyNeverRefuse
  <2> SUFFICES ASSUME FaultInv, reloads = 0, NEW s \in Server,
                      crashes[s] = 0, mainpc[s] = "check"
               PROVE  n_threads[s] < ServerThreads
    BY DEF HealthyNeverRefuse
  <2>1. TypeOK /\ LbInv /\ ThreadsSound
    BY DEF FaultInv, FaultTypeOK
  <2>2. Balance(s) <= MAX_THREADS
    <3>1. Forgotten = 0
      BY SizesAssumption DEF Forgotten
    <3> QED
      BY <3>1, SizesAssumption DEF FaultInv, Ledger
  <2>3. Outstanding(s) <= MAX_THREADS
    BY <2>1, <2>2, BalanceType, SizesAssumption DEF Balance, Booked
  <2>4. /\ Cardinality(jobs[s]) \in Nat /\ pings[s] \in Nat
        /\ Cardinality(ThreadsAt(s, Live)) \in Nat
    BY <2>1, OutstandingParts
  <2>5. Cardinality(ThreadsAt(s, Live)) + 1 <= MAX_THREADS
    BY <2>3, <2>4, SizesAssumption DEF Outstanding
  <2>6. n_threads[s] <= Cardinality(ThreadsAt(s, Live)) /\ n_threads[s] \in Int
    BY <2>1, CountedLive DEF TypeOK
  <2> QED
    BY <2>4, <2>5, <2>6, ThreadsAssumption, SizesAssumption
<1> QED
  BY <1>1, FaultInvariant, PTL

(* Every job is in exactly one place or was lost once: no crash, loss or   *)
(* reload makes lb.c or server.py work on a job a second time.             *)
THEOREM JobsStayAccounted == FaultSpec => []JobsAccounted
<1>1. FaultInv => JobsAccounted
  <2> SUFFICES ASSUME FaultInv PROVE JobsAccounted
    OBVIOUS
  <2>1. PlacedOnce /\ TypeOK /\ lost \in SUBSET Request
    BY DEF FaultInv, FaultTypeOK
  <2>2. lost \cap (unsent \cup reqs \cup dropped \cup Queued) = {}
    BY <2>1 DEF PlacedOnce
  <2>3. \A i, j \in 1 .. Len(queue) : queue[i] = queue[j] => i = j
    BY <2>1 DEF PlacedOnce, WaitsOnce
  <2>4. ASSUME NEW r \in Request
        PROVE  LET holders == {s \in Server : AtWorker(s, r)} IN
               /\ Cardinality(holders) <= 1
               /\ holders = {} <=>
                    r \in unsent \cup reqs \cup dropped \cup Queued \cup lost
    <3> DEFINE holders == {s \in Server : AtWorker(s, r)}
    <3>1. holders = {} <=> r \in unsent \cup reqs \cup dropped \cup Queued \cup lost
      BY <2>1 DEF PlacedOnce
    <3>2. Cardinality(holders) <= 1
      <4>1. CASE holders = {}
        <5> HIDE DEF holders
        <5> QED
          BY <4>1, FS_EmptySet
      <4>2. CASE holders # {}
        <5>1. PICK s \in Server : holders = {s}
          BY <2>1, <4>2 DEF PlacedOnce
        <5>2. Cardinality({s}) = 1
          BY FS_Singleton
        <5> HIDE DEF holders
        <5> QED
          BY <5>1, <5>2
      <4> QED
        BY <4>1, <4>2
    <3> QED
      BY <3>1, <3>2
  <2> QED
    BY <2>2, <2>3, <2>4 DEF JobsAccounted
<1> QED
  BY <1>1, FaultInvariant, PTL

(* While no datagram is lost, every worker lb.c knows keeps a thread that  *)
(* is free, busy or about to be announced: the one 'S' of a restart is     *)
(* enough for lb.c to send the worker jobs again.                          *)
THEOREM WorkersNeverWrittenOff == FaultSpec => []NeverWrittenOff
<1>1. FaultInv => NeverWrittenOff
  <2> SUFFICES ASSUME FaultInv, losses = 0, NEW k \in Key, NEW s \in Server,
                      servers[k].saddr = s, mainpc[s] # "start"
               PROVE  servers[k].free_threads + Outstanding(s) > 0
    BY DEF NeverWrittenOff
  <2>1. ip_to_key[s] # NoKey /\ Recorded(s) = servers[k].free_threads
    BY SlotOf
  <2>2. Balance(s) > 0
    BY <2>1 DEF FaultInv, Ledger
  <2>3. Outstanding(s) \in Nat
    BY BalanceType DEF FaultInv, FaultTypeOK
  <2>4. Balance(s) = servers[k].free_threads + Outstanding(s)
    BY <2>1, <2>3, BalanceType DEF FaultInv, FaultTypeOK, Balance, Booked
  <2> QED
    BY <2>2, <2>4
<1> QED
  BY <1>1, FaultInvariant, PTL

-----------------------------------------------------------------------------
(* The queue under faults, in the documented deployment.                   *)

\* Until the program is loaded anew, no job waits beside a thread that lb.c
\* knows to be free, whatever crashes or gets lost.
ConservingYet == reloads = 0 => StartOrder /\ WorkConserving

LEMMA FaultWaiting == FaultInv => WaitingSound
BY DEF FaultInv, FaultTypeOK, TypeOK, PlacedOnce, WaitingSound

LEMMA ConservingYetStep ==
  ASSUME ServersFirst, FALSE \notin TailGrows,
         FaultInv, ConservingYet, [FaultNext]_faultvars
  PROVE  ConservingYet'
<1>1. ASSUME UNCHANGED <<lbvars, unsent, reloads>> PROVE ConservingYet'
  BY <1>1 DEF ConservingYet, StartOrder, WorkConserving, Occupied, lbvars
<1>2. CASE Next /\ Faultless
  BY <1>2, FaultWaiting, ConservingStep DEF ConservingYet, Faultless, counters
<1>3. ASSUME NEW s \in Server, Crash(s) PROVE ConservingYet'
  BY <1>1, <1>3 DEF Crash, clientvars
<1>4. ASSUME NEW s \in Server, NEW r \in Request, Unreachable(s, r)
      PROVE  ConservingYet'
  BY <1>1, <1>4 DEF Unreachable, clientvars, counters
<1>5. CASE Lose
  BY <1>1, <1>5 DEF Lose
<1>6. CASE Reload
  <2>1. reloads' # 0
    BY <1>6, FaultsAssumption DEF Reload, FaultInv, FaultTypeOK
  <2> QED
    BY <2>1 DEF ConservingYet
<1>7. CASE UNCHANGED faultvars
  BY <1>1, <1>7 DEF faultvars, vars, clientvars, counters
<1> QED
  BY <1>2, <1>3, <1>4, <1>5, <1>6, <1>7 DEF FaultNext

(* Crashes do not break the chain of completions that empties the queue:   *)
(* as long as nothing is lost or loaded anew, and frames can be grown,     *)
(* while jobs wait every worker is known and is down, so that its 'S' is   *)
(* still to come, or has work or a ping outstanding.                       *)
THEOREM CrashesLeaveQueueAwaited ==
  ASSUME ServersFirst, FALSE \notin TailGrows
  PROVE  FaultSpec => [](losses = 0 /\ reloads = 0 => QueueAwaited)
<1> DEFINE I == FaultInv /\ ConservingYet
           Awaited == losses = 0 /\ reloads = 0 => QueueAwaited
<1>1. FaultInit => I
  BY FaultInitInv, StartedInit DEF FaultInit, ConservingYet
<1>2. I /\ [FaultNext]_faultvars => I'
  BY FaultStepInv, ConservingYetStep
<1>3. I => Awaited
  <2> SUFFICES ASSUME I, losses = 0, reloads = 0, queue # << >>, NEW s \in Server
               PROVE  /\ ip_to_key[s] # NoKey
                      /\ mainpc[s] = "start" \/ Outstanding(s) > 0
    BY DEF QueueAwaited
  <2>1. WaitingSound /\ StartOrder /\ WorkConserving /\ TypeOK /\ LbInv
    BY FaultWaiting DEF ConservingYet, FaultInv, FaultTypeOK
  <2>2. ip_to_key[s] # NoKey
    BY <2>1, JoinsEarly
  <2>3. /\ ip_to_key[s] \in Key
        /\ Occupied(servers, ip_to_key[s])
    BY <2>1, <2>2, SlotOwner
  <2>4. Recorded(s) = 0
    BY <2>1, <2>2, <2>3 DEF WorkConserving, Recorded
  <2>5. Balance(s) > 0
    BY <2>2 DEF FaultInv, Ledger
  <2>6. mainpc[s] = "start" \/ Outstanding(s) > 0
    BY <2>1, <2>4, <2>5, BalanceType DEF Balance, Booked
  <2> QED
    BY <2>2, <2>6
<1> HIDE DEF I, Awaited
<1>4. FaultSpec => []Awaited
  BY <1>1, <1>2, <1>3, PTL DEF FaultSpec
<1> QED
  BY <1>4 DEF Awaited
=============================================================================
