------------------------------- MODULE Server -------------------------------
(***************************************************************************)
(* The workers, A2-B/server/server.py, one per element of Server: the      *)
(* receive loop of the main thread and the threads it starts.  A step is a *)
(* piece of Python between two accesses to state that another thread       *)
(* shares: the globals data and n_threads, total_sleep_time, the socket.   *)
(* Each "with lock" block holds one statement, so it is one step.          *)
(*                                                                         *)
(* A handler thread is named by the datagram that made the main thread     *)
(* start it.  What the thread works on is another matter: the lambda reads *)
(* the global data when the thread runs it, not when it is created.        *)
(***************************************************************************)
EXTENDS Deployment

VARIABLES
  jobs,              \* jobs[s]: datagrams under way to s or in its socket
  pings,             \* pings[s]: one-byte datagrams of s under way to the lb
  mainpc,            \* mainpc[s]: where the main thread of s is
  data,              \* data[s]: the global the receive loop assigns, NoRequest
                     \* before the first datagram and for an empty one
  n_threads,         \* n_threads[s]: the global counter of busy threads
  thread,            \* thread[s][t]: where the thread started for t is
  job,               \* job[s][t]: the argument handle_client got
  total_sleep_time   \* total_sleep_time[s][r]: how often r was added to it

wires == <<jobs, pings>>
servervars == <<mainpc, data, n_threads, thread, job, total_sleep_time>>

MainPc == {"start", "recv", "check"}
ThreadPc == {"none", "started", "bound", "sleeping", "slept", "left", "done"}

\* The threads that have been started and have not yet sent their ping.
Live == {"started", "bound", "sleeping", "slept", "left"}

\* The points between the two updates of n_threads.
Counted == {"sleeping", "slept"}

\* The threads of s that are at one of the points in P.
ThreadsAt(s, P) == {t \in Request : thread[s][t] \in P}

ServerInit ==
  /\ jobs = [s \in Server |-> {}]
  /\ pings = [s \in Server |-> 0]
  /\ mainpc = [s \in Server |-> "start"]
  /\ data = [s \in Server |-> NoRequest]
  /\ n_threads = [s \in Server |-> 0]
  /\ thread = [s \in Server |-> [t \in Request |-> "none"]]
  /\ job = [s \in Server |-> [t \in Request |-> NoRequest]]
  /\ total_sleep_time = [s \in Server |-> [r \in Request |-> 0]]

-----------------------------------------------------------------------------
(* The main thread. *)

\* sendto 'S': announce the worker.
SendStart(s) ==
  /\ mainpc[s] = "start"
  /\ mainpc' = [mainpc EXCEPT ![s] = "recv"]
  /\ pings' = [pings EXCEPT ![s] = @ + 1]
  /\ UNCHANGED <<jobs, data, n_threads, thread, job, total_sleep_time>>

\* recvfrom returns the datagram r.
Recv(s, r) ==
  /\ mainpc[s] = "recv"
  /\ r \in jobs[s]
  /\ mainpc' = [mainpc EXCEPT ![s] = "check"]
  /\ jobs' = [jobs EXCEPT ![s] = @ \ {r}]
  /\ data' = [data EXCEPT ![s] = r]
  /\ UNCHANGED <<pings, n_threads, thread, job, total_sleep_time>>

\* "Server is busy": the datagram is thrown away and nobody is told.
Busy(s) ==
  /\ mainpc[s] = "check"
  /\ n_threads[s] >= ServerThreads
  /\ mainpc' = [mainpc EXCEPT ![s] = "recv"]
  /\ UNCHANGED <<wires, data, n_threads, thread, job, total_sleep_time>>

\* "if data:" fails: a datagram without a payload starts no thread.
Skip(s) ==
  /\ mainpc[s] = "check"
  /\ n_threads[s] < ServerThreads
  /\ data[s] = NoRequest
  /\ mainpc' = [mainpc EXCEPT ![s] = "recv"]
  /\ UNCHANGED <<wires, data, n_threads, thread, job, total_sleep_time>>

\* Thread(target=lambda: ...).start(); n_threads is left to the new thread.
Spawn(s) ==
  /\ mainpc[s] = "check"
  /\ n_threads[s] < ServerThreads
  /\ data[s] # NoRequest
  /\ mainpc' = [mainpc EXCEPT ![s] = "recv"]
  /\ thread' = [thread EXCEPT ![s][data[s]] = "started"]
  /\ UNCHANGED <<wires, data, n_threads, job, total_sleep_time>>

MainStep(s) ==
  \/ SendStart(s)
  \/ \E r \in Request : Recv(s, r)
  \/ Busy(s)
  \/ Skip(s)
  \/ Spawn(s)

-----------------------------------------------------------------------------
(* A handler thread. *)

\* The thread moves on, and nothing else of the thread table changes.
Goto(s, t, from, to) ==
  /\ thread[s][t] = from
  /\ thread' = [thread EXCEPT ![s][t] = to]

\* The lambda reads the globals and calls handle_client.
ReadData(s, t) ==
  /\ Goto(s, t, "started", "bound")
  /\ job' = [job EXCEPT ![s][t] = data[s]]
  /\ UNCHANGED <<wires, mainpc, data, n_threads, total_sleep_time>>

\* Seeded fault: the handler starts without being counted.
CountInForgets(s, t) ==
  /\ Goto(s, t, "bound", "sleeping")
  /\ UNCHANGED <<wires, mainpc, data, n_threads, job, total_sleep_time>>

\* with lock: n_threads += 1
CountIn(s, t) ==
  /\ Goto(s, t, "bound", "sleeping")
  /\ n_threads' = [n_threads EXCEPT ![s] = @ + 1]
  /\ UNCHANGED <<wires, mainpc, data, job, total_sleep_time>>

\* time.sleep returns; with lock: total_sleep_time += sleep_time.  A thread
\* that read an empty datagram adds nothing.
WakeUp(s, t) ==
  /\ Goto(s, t, "sleeping", "slept")
  /\ total_sleep_time' =
       [total_sleep_time EXCEPT ![s] =
          [r \in Request |-> IF job[s][t] = r THEN @[r] + 1 ELSE @[r]]]
  /\ UNCHANGED <<wires, mainpc, data, n_threads, job>>

\* Seeded fault: a finished thread is never taken off the count.
CountOutForgets(s, t) ==
  /\ Goto(s, t, "slept", "left")
  /\ UNCHANGED <<wires, mainpc, data, n_threads, job, total_sleep_time>>

\* with lock: n_threads -= 1
CountOut(s, t) ==
  /\ Goto(s, t, "slept", "left")
  /\ n_threads' = [n_threads EXCEPT ![s] = @ - 1]
  /\ UNCHANGED <<wires, mainpc, data, job, total_sleep_time>>

\* Seeded fault: the worker keeps quiet about a finished job.
SendNothing(s, t) ==
  /\ Goto(s, t, "left", "done")
  /\ UNCHANGED <<wires, mainpc, data, n_threads, job, total_sleep_time>>

\* sendto 'D': the load balancer may reuse the thread.
SendDone(s, t) ==
  /\ Goto(s, t, "left", "done")
  /\ pings' = [pings EXCEPT ![s] = @ + 1]
  /\ UNCHANGED <<jobs, mainpc, data, n_threads, job, total_sleep_time>>

\* Seeded fault: 'D' is sent before n_threads is decremented.
ThreadStepEarlyPing(s, t) ==
  \/ ReadData(s, t)
  \/ CountIn(s, t)
  \/ WakeUp(s, t)
  \/ /\ Goto(s, t, "slept", "left")
     /\ pings' = [pings EXCEPT ![s] = @ + 1]
     /\ UNCHANGED <<jobs, mainpc, data, n_threads, job, total_sleep_time>>
  \/ /\ Goto(s, t, "left", "done")
     /\ n_threads' = [n_threads EXCEPT ![s] = @ - 1]
     /\ UNCHANGED <<wires, mainpc, data, job, total_sleep_time>>

ThreadStep(s, t) ==
  \/ ReadData(s, t)
  \/ CountIn(s, t)
  \/ WakeUp(s, t)
  \/ CountOut(s, t)
  \/ SendDone(s, t)

=============================================================================
