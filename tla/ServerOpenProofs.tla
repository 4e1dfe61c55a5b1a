-------------------------- MODULE ServerOpenProofs --------------------------
(***************************************************************************)
(* Proofs about the workers in any surroundings, for every number of       *)
(* workers and datagrams and every limit of the busy test.                 *)
(***************************************************************************)
EXTENDS ServerOpen, ServerProofs

\* The types that the counters do not decide.
PlainTypes ==
  /\ jobs \in [Server -> SUBSET Request]
  /\ pings \in [Server -> Nat]
  /\ mainpc \in [Server -> MainPc]
  /\ data \in [Server -> Request \cup {NoRequest}]
  /\ n_threads \in [Server -> Int]
  /\ thread \in [Server -> [Request -> ThreadPc]]
  /\ job \in [Server -> [Request -> Request \cup {NoRequest}]]
  /\ total_sleep_time \in [Server -> [Request -> Nat]]
  /\ coming \in SUBSET Request

\* A datagram starts one thread: the one that is to come, under way or in
\* the hands of the main thread has none yet.
StartedOnce ==
  /\ \A r \in coming, s \in Server :
       /\ r \notin jobs[s]
       /\ mainpc[s] = "check" => data[s] # r
       /\ thread[s][r] = "none"
  /\ \A s \in Server :
       /\ \A r \in jobs[s] :
            /\ mainpc[s] = "check" => data[s] # r
            /\ thread[s][r] = "none"
       /\ mainpc[s] = "check" /\ data[s] # NoRequest =>
            thread[s][data[s]] = "none"

\* A worker that has not started has done nothing.
StartsFresh ==
  \A s \in Server : mainpc[s] = "start" =>
    \A t \in Request : thread[s][t] = "none"

OpenInv == PlainTypes /\ StartedOnce /\ StartsFresh /\ CounterExact

\* The two counts of CounterExact, after a thread has moved.
LEMMA MoveCounts ==
  ASSUME OpenInv, NEW s \in Server, NEW t \in Request, NEW from, NEW to,
         Goto(s, t, from, to), NEW u \in Server
  PROVE  /\ Cardinality(ThreadsAt(u, Counted)') = n_threads[u]
              + (IF u = s /\ to \in Counted THEN 1 ELSE 0)
              - (IF u = s /\ from \in Counted THEN 1 ELSE 0)
         /\ Cardinality(ThreadsAt(u, Finished)')
              = Cardinality(ThreadsAt(u, Finished))
              + (IF u = s /\ to = "done" THEN 1 ELSE 0)
              - (IF u = s /\ from = "done" THEN 1 ELSE 0)
<1>1. Cardinality(ThreadsAt(u, Counted)')
        = Cardinality(ThreadsAt(u, Counted))
            + (IF u = s /\ to \in Counted THEN 1 ELSE 0)
            - (IF u = s /\ from \in Counted THEN 1 ELSE 0)
  BY GotoCounts DEF OpenInv, PlainTypes
<1>2. Cardinality(ThreadsAt(u, Finished)')
        = Cardinality(ThreadsAt(u, Finished))
            + (IF u = s /\ to \in Finished THEN 1 ELSE 0)
            - (IF u = s /\ from \in Finished THEN 1 ELSE 0)
  BY GotoCounts DEF OpenInv, PlainTypes
<1> QED
  BY <1>1, <1>2 DEF OpenInv, CounterExact, Finished

\* A step that moves no thread keeps both sets of threads.
LEMMA SameThreads ==
  ASSUME thread' = thread
  PROVE  \A u \in Server : /\ ThreadsAt(u, Counted)' = ThreadsAt(u, Counted)
                           /\ ThreadsAt(u, Finished)' = ThreadsAt(u, Finished)
BY DEF ThreadsAt

LEMMA ArriveInv ==
  ASSUME OpenInv, NEW s \in Server, NEW r \in Request, Arrive(s, r)
  PROVE  OpenInv'
<1> USE DEF OpenInv, Arrive, servervars
<1>1. PlainTypes'
  BY DEF PlainTypes
<1>2. StartedOnce'
  BY DEF StartedOnce, PlainTypes
<1>3. StartsFresh'
  BY DEF StartsFresh
<1>4. CounterExact'
  BY SameThreads DEF CounterExact
<1> QED
  BY <1>1, <1>2, <1>3, <1>4

LEMMA RecvEmptyInv ==
  ASSUME OpenInv, NEW s \in Server, RecvEmpty(s)
  PROVE  OpenInv'
<1> USE DEF OpenInv, RecvEmpty, wires
<1>1. PlainTypes'
  BY DEF PlainTypes, MainPc
<1>2. StartedOnce'
  BY RequestsAssumption DEF StartedOnce, PlainTypes
<1>3. StartsFresh'
  BY DEF StartsFresh, PlainTypes
<1>4. CounterExact'
  BY SameThreads DEF CounterExact, PlainTypes
<1> QED
  BY <1>1, <1>2, <1>3, <1>4

LEMMA MainInv ==
  ASSUME OpenInv, NEW s \in Server, Main(s)
  PROVE  OpenInv'
<1> USE DEF OpenInv
<1>1. CASE SendStart(s)
  <2>1. PlainTypes'
    BY <1>1 DEF SendStart, Main, PlainTypes, MainPc
  <2>2. StartedOnce'
    BY <1>1 DEF SendStart, Main, PlainTypes, StartedOnce
  <2>3. StartsFresh'
    BY <1>1 DEF SendStart, PlainTypes, StartsFresh
  <2>4. CounterExact'
    BY <1>1, SameThreads, ThreadSets DEF SendStart, PlainTypes, CounterExact
  <2> QED
    BY <2>1, <2>2, <2>3, <2>4
<1>2. ASSUME NEW r \in Request, Recv(s, r) PROVE OpenInv'
  <2>1. PlainTypes'
    BY <1>2 DEF Recv, Main, PlainTypes, MainPc
  <2>2. StartedOnce'
    BY <1>2 DEF Recv, Main, PlainTypes, StartedOnce
  <2>3. StartsFresh'
    BY <1>2 DEF Recv, PlainTypes, StartsFresh
  <2>4. CounterExact'
    BY <1>2, SameThreads DEF Recv, PlainTypes, CounterExact
  <2> QED
    BY <2>1, <2>2, <2>3, <2>4
<1>3. CASE Busy(s)
  <2>1. PlainTypes'
    BY <1>3 DEF Busy, Main, PlainTypes, MainPc, wires
  <2>2. StartedOnce'
    BY <1>3 DEF Busy, Main, PlainTypes, StartedOnce, wires
  <2>3. StartsFresh'
    BY <1>3 DEF Busy, PlainTypes, StartsFresh
  <2>4. CounterExact'
    BY <1>3, SameThreads DEF Busy, PlainTypes, CounterExact, wires
  <2> QED
    BY <2>1, <2>2, <2>3, <2>4
<1>4. CASE Skip(s)
  <2>1. PlainTypes'
    BY <1>4 DEF Skip, Main, PlainTypes, MainPc, wires
  <2>2. StartedOnce'
    BY <1>4 DEF Skip, Main, PlainTypes, StartedOnce, wires
  <2>3. StartsFresh'
    BY <1>4 DEF Skip, PlainTypes, StartsFresh
  <2>4. CounterExact'
    BY <1>4, SameThreads DEF Skip, PlainTypes, CounterExact, wires
  <2> QED
    BY <2>1, <2>2, <2>3, <2>4
<1>5. CASE Spawn(s)
  <2>1. PICK t \in Request : t = data[s] /\ thread[s][t] = "none"
    BY <1>5 DEF Spawn, StartedOnce, PlainTypes
  <2>2. /\ Goto(s, t, "none", "started")
        /\ \A u \in Server, x \in Request :
             thread'[u][x] = IF u = s /\ x = t THEN "started" ELSE thread[u][x]
    BY <1>5, <2>1 DEF Spawn, Goto, PlainTypes
  <2>3. PlainTypes'
    BY <1>5, <2>1 DEF Spawn, Main, PlainTypes, MainPc, ThreadPc, wires
  <2>4. StartedOnce'
    BY <1>5, <2>1, <2>2 DEF Spawn, Main, PlainTypes, StartedOnce, wires
  <2>5. StartsFresh'
    BY <1>5, <2>1, <2>2 DEF Spawn, PlainTypes, StartsFresh
  <2>6. CounterExact'
    <3>1. "none" \notin Counted /\ "started" \notin Counted
      BY DEF Counted
    <3>2. ASSUME NEW u \in Server
          PROVE  /\ Cardinality(ThreadsAt(u, Counted)') = n_threads[u]
                      + (IF u = s /\ "started" \in Counted THEN 1 ELSE 0)
                      - (IF u = s /\ "none" \in Counted THEN 1 ELSE 0)
                 /\ Cardinality(ThreadsAt(u, Finished)')
                      = Cardinality(ThreadsAt(u, Finished))
                      + (IF u = s /\ "started" = "done" THEN 1 ELSE 0)
                      - (IF u = s /\ "none" = "done" THEN 1 ELSE 0)
      BY <2>2, MoveCounts
    <3>3. ASSUME NEW u \in Server
          PROVE  /\ Cardinality(ThreadsAt(u, Counted)') = n_threads[u]
                 /\ Cardinality(ThreadsAt(u, Finished)')
                      = Cardinality(ThreadsAt(u, Finished))
      <4>1. n_threads[u] \in Int /\ Cardinality(ThreadsAt(u, Finished)) \in Nat
        BY ThreadSets DEF PlainTypes
      <4> QED
        BY <3>1, <3>2, <4>1
    <3> QED
      BY <1>5, <3>3 DEF Spawn, PlainTypes, CounterExact, wires
  <2> QED
    BY <2>3, <2>4, <2>5, <2>6
<1> QED
  BY <1>1, <1>2, <1>3, <1>4, <1>5 DEF Main, MainStep

LEMMA HandlerInv ==
  ASSUME OpenInv, NEW s \in Server, NEW t \in Request, Handler(s, t)
  PROVE  OpenInv'
<1> USE DEF OpenInv
<1>1. PICK from \in Live, to \in ThreadPc \ {"none", "started"} :
        /\ Goto(s, t, from, to)
        /\ \/ ReadData(s, t) /\ from = "started" /\ to = "bound"
           \/ CountIn(s, t) /\ from = "bound" /\ to = "sleeping"
           \/ WakeUp(s, t) /\ from = "sleeping" /\ to = "slept"
           \/ CountOut(s, t) /\ from = "slept" /\ to = "left"
           \/ SendDone(s, t) /\ from = "left" /\ to = "done"
  BY DEF Handler, ThreadStep, ReadData, CountIn, WakeUp, CountOut, SendDone,
         Live, ThreadPc
<1>2. UNCHANGED <<coming, jobs, mainpc, data>>
  BY DEF Handler, ThreadStep, ReadData, CountIn, WakeUp, CountOut, SendDone, wires
<1>3. /\ thread[s][t] = from
      /\ \A u \in Server, x \in Request :
           thread'[u][x] = IF u = s /\ x = t THEN to ELSE thread[u][x]
  BY <1>1 DEF Goto, PlainTypes
<1>4. PlainTypes'
  <2>1. thread' \in [Server -> [Request -> ThreadPc]]
    BY <1>1 DEF Goto, PlainTypes
  <2>2. CASE ReadData(s, t)
    BY <1>2, <2>1, <2>2 DEF ReadData, PlainTypes, wires
  <2>3. CASE CountIn(s, t) \/ CountOut(s, t)
    BY <1>2, <2>1, <2>3 DEF CountIn, CountOut, PlainTypes, wires
  <2>4. CASE WakeUp(s, t)
    BY <1>2, <2>1, <2>4 DEF WakeUp, PlainTypes, wires
  <2>5. CASE SendDone(s, t)
    BY <1>2, <2>1, <2>5 DEF SendDone, PlainTypes
  <2> QED
    BY <1>1, <2>2, <2>3, <2>4, <2>5
<1>5. StartedOnce'
  <2>1. \A u \in Server, x \in Request :
          thread[u][x] = "none" => thread'[u][x] = "none"
    BY <1>3 DEF Live
  <2>2. \A u \in Server : data[u] # NoRequest => data[u] \in Request
    BY DEF PlainTypes
  <2>3. jobs \in [Server -> SUBSET Request] /\ coming \in SUBSET Request
    BY DEF PlainTypes
  <2> HIDE DEF OpenInv
  <2> QED
    BY <1>2, <2>1, <2>2, <2>3 DEF OpenInv, StartedOnce
<1>6. StartsFresh'
  BY <1>1, <1>2, <1>3 DEF StartsFresh, Live
<1>7. CounterExact'
  <2>1. \A u \in Server :
          /\ Cardinality(ThreadsAt(u, Counted)') = n_threads[u]
               + (IF u = s /\ to \in Counted THEN 1 ELSE 0)
               - (IF u = s /\ from \in Counted THEN 1 ELSE 0)
          /\ Cardinality(ThreadsAt(u, Finished)')
               = Cardinality(ThreadsAt(u, Finished))
               + (IF u = s /\ to = "done" THEN 1 ELSE 0)
               - (IF u = s /\ from = "done" THEN 1 ELSE 0)
    BY <1>1, MoveCounts
  <2>2. \A u \in Server :
          /\ n_threads[u] \in Int /\ pings[u] \in Nat
          /\ n_threads'[u] = n_threads[u] +
               (IF u = s /\ from = "bound" THEN 1
                ELSE IF u = s /\ from = "slept" THEN -1 ELSE 0)
          /\ pings'[u] = pings[u] + (IF u = s /\ from = "left" THEN 1 ELSE 0)
    BY <1>1 DEF ReadData, CountIn, WakeUp, CountOut, SendDone, PlainTypes, wires
  <2>3. \A u \in Server : Cardinality(ThreadsAt(u, Finished)) \in Nat
    BY ThreadSets
  <2> QED
    BY <1>1, <1>2, <2>1, <2>2, <2>3 DEF CounterExact, Counted
<1> QED
  BY <1>4, <1>5, <1>6, <1>7

LEMMA OpenInitInv == OpenInit => OpenInv
<1> SUFFICES ASSUME OpenInit PROVE OpenInv
  OBVIOUS
<1> USE DEF OpenInit, ServerInit
<1>1. PlainTypes
  BY DEF PlainTypes, MainPc, ThreadPc
<1>2. StartedOnce /\ StartsFresh
  BY DEF StartedOnce, StartsFresh
<1>3. \A s \in Server : ThreadsAt(s, Counted) = {} /\ ThreadsAt(s, Finished) = {}
  BY DEF ThreadsAt, Counted, Finished
<1>4. Cardinality({}) = 0
  BY FS_EmptySet
<1>5. ASSUME NEW s \in Server
      PROVE  /\ Cardinality(ThreadsAt(s, Counted)) = 0
             /\ Cardinality(ThreadsAt(s, Finished)) = 0
  BY <1>3, <1>4
<1>6. CounterExact
  BY <1>5 DEF CounterExact
<1> QED
  BY <1>1, <1>2, <1>6 DEF OpenInv

LEMMA OpenStepInv == OpenInv /\ [OpenNext]_openvars => OpenInv'
<1> SUFFICES ASSUME OpenInv, [OpenNext]_openvars PROVE OpenInv'
  OBVIOUS
<1>1. ASSUME UNCHANGED openvars PROVE OpenInv'
  <2>1. UNCHANGED <<jobs, pings, mainpc, data, n_threads, thread, job,
                    total_sleep_time, coming>>
    BY <1>1 DEF openvars, wires, servervars
  <2> QED
    BY <2>1, SameThreads
       DEF OpenInv, PlainTypes, StartedOnce, StartsFresh, CounterExact
<1>2. CASE Waiting
  BY <1>1, <1>2 DEF Waiting
<1> QED
  BY <1>1, <1>2, ArriveInv, RecvEmptyInv, MainInv, HandlerInv DEF OpenNext

(* However many datagrams a worker gets and refuses, n_threads is the      *)
(* number of threads between its two updates and one 'D' is sent per       *)
(* finished thread: the bursts cannot make the counter drift.              *)
THEOREM CounterStaysExact == OpenSpec => []CounterExact
<1>1. OpenInv => CounterExact
  BY DEF OpenInv
<1> QED
  BY <1>1, OpenInitInv, OpenStepInv, PTL DEF OpenSpec

\* The exact counters stay within the bounds that the number of datagrams sets.
LEMMA OpenInvTypes == OpenInv => OpenTypeOK
<1> SUFFICES ASSUME OpenInv PROVE OpenTypeOK
  OBVIOUS
<1> USE DEF OpenInv
<1>1. ASSUME NEW S \in SUBSET Request
      PROVE  /\ Cardinality(S) \in Nat
             /\ Cardinality(S) <= Cardinality(Request)
             /\ Cardinality(Request) \in Nat
  BY RequestsAssumption, FS_Subset, FS_CardinalityType
<1>2. ASSUME NEW s \in Server
      PROVE  /\ n_threads[s] \in 0 .. Cardinality(Request)
             /\ pings[s] \in 0 .. (Cardinality(Request) + 1)
  <2>1. /\ ThreadsAt(s, Counted) \in SUBSET Request
        /\ ThreadsAt(s, Finished) \in SUBSET Request
    BY ThreadSets
  <2> QED
    BY <1>1, <2>1 DEF CounterExact
<1> QED
  BY <1>2 DEF OpenTypeOK, PlainTypes

(* The state of a worker stays well formed under any burst: n_threads      *)
(* never becomes negative and no more pings are sent than jobs came.       *)
THEOREM OpenTypeCorrect == OpenSpec => []OpenTypeOK
BY OpenInvTypes, OpenInitInv, OpenStepInv, PTL DEF OpenSpec
=============================================================================
