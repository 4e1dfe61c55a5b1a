---------------------------- MODULE SystemFaults ----------------------------
(***************************************************************************)
(* Part B with faults: a worker's process dies and is started again, the   *)
(* network loses datagrams, the XDP program is loaded anew.  The programs  *)
(* are those of System; lost collects the jobs that no program has any     *)
(* more.  A restarted worker announces itself with 'S' as on its first     *)
(* start; nothing in the code detects or repeats a lost datagram.          *)
(***************************************************************************)
EXTENDS System

CONSTANTS
  MaxCrashes,   \* bound: how often one worker crashes
  MaxLosses,    \* bound: how many datagrams the network loses
  MaxReloads    \* bound: how often the XDP program is loaded anew

ASSUME FaultsAssumption == {MaxCrashes, MaxLosses, MaxReloads} \subseteq Nat

VARIABLES
  crashes,   \* crashes[s]: how often the worker s has crashed
  losses,    \* how many datagrams were lost
  reloads,   \* how often the XDP program was reloaded
  lost       \* jobs that disappeared outside the load balancer's program

counters == <<crashes, losses, reloads>>
faultvars == <<vars, counters, lost>>

FaultInit ==
  /\ Init
  /\ crashes = [s \in Server |-> 0]
  /\ losses = 0
  /\ reloads = 0
  /\ lost = {}

\* A job that the busy test throws away is lost; no other step of the
\* programs loses one.
Faultless ==
  /\ lost' = lost \cup {r \in Request :
                          \E s \in Server : Held(s, r) /\ ~AtWorker(s, r)'}
  /\ UNCHANGED counters

-----------------------------------------------------------------------------
\* The threads of s that have not sent their ping die with the process.
Dying(s) == ThreadsAt(s, Live) \cup (IF mainpc[s] = "check" THEN {data[s]} ELSE {})

\* The process of s dies with its globals, its threads and the datagrams in
\* its socket's buffer; the ones still on the wire arrive later.
Crash(s) ==
  /\ mainpc[s] # "start"
  /\ crashes[s] < MaxCrashes
  /\ crashes' = [crashes EXCEPT ![s] = @ + 1]
  /\ \E buffered \in SUBSET jobs[s] :
       /\ jobs' = [jobs EXCEPT ![s] = @ \ buffered]
       /\ lost' = lost \cup Dying(s) \cup buffered
  /\ mainpc' = [mainpc EXCEPT ![s] = "start"]
  /\ data' = [data EXCEPT ![s] = NoRequest]
  /\ n_threads' = [n_threads EXCEPT ![s] = 0]
  /\ thread' = [thread EXCEPT ![s] =
                  [t \in Request |-> IF @[t] = "done" THEN "done" ELSE "none"]]
  /\ job' = [job EXCEPT ![s] = [t \in Request |-> NoRequest]]
  /\ total_sleep_time' = [total_sleep_time EXCEPT ![s] = [r \in Request |-> 0]]
  /\ UNCHANGED <<lbvars, pings, clientvars, dropped, losses, reloads>>

\* A job arrives where no process listens.
Unreachable(s, r) ==
  /\ mainpc[s] = "start"
  /\ r \in jobs[s]
  /\ jobs' = [jobs EXCEPT ![s] = @ \ {r}]
  /\ lost' = lost \cup {r}
  /\ UNCHANGED <<lbvars, pings, servervars, clientvars, dropped, counters>>

LosePing(s) ==
  /\ pings[s] > 0
  /\ pings' = [pings EXCEPT ![s] = @ - 1]
  /\ UNCHANGED <<jobs, reqs, lost>>

LoseJob(s, r) ==
  /\ r \in jobs[s]
  /\ jobs' = [jobs EXCEPT ![s] = @ \ {r}]
  /\ lost' = lost \cup {r}
  /\ UNCHANGED <<pings, reqs>>

LoseRequest(r) ==
  /\ r \in reqs
  /\ reqs' = reqs \ {r}
  /\ lost' = lost \cup {r}
  /\ UNCHANGED <<pings, jobs>>

Lose ==
  /\ losses < MaxLosses
  /\ losses' = losses + 1
  /\ \/ \E s \in Server : LosePing(s)
     \/ \E s \in Server, r \in Request : LoseJob(s, r)
     \/ \E r \in Request : LoseRequest(r)
  /\ UNCHANGED <<lbvars, servervars, unsent, dropped, crashes, reloads>>

\* The program is detached and loaded again: the maps are created afresh.
Reload ==
  /\ reloads < MaxReloads
  /\ reloads' = reloads + 1
  /\ ip_to_key' = [s \in Server |-> NoKey]
  /\ servers' = [k \in Key |-> [saddr |-> NoAddr, free_threads |-> 0]]
  /\ server_cnt' = 0
  /\ queue' = << >>
  /\ lost' = lost \cup Queued
  /\ UNCHANGED <<wires, servervars, clientvars, dropped, crashes, losses>>

FaultNext ==
  \/ Next /\ Faultless
  \/ \E s \in Server : Crash(s)
  \/ \E s \in Server, r \in Request : Unreachable(s, r)
  \/ Lose
  \/ Reload

FaultSpec == FaultInit /\ [][FaultNext]_faultvars

-----------------------------------------------------------------------------
\* The state of the programs keeps its type; free_threads stays within
\* 0..MAX_THREADS, also when a restarted worker's 'S' returns a thread that
\* nobody had taken.
FaultTypeOK ==
  /\ TypeOK
  /\ crashes \in [Server -> 0 .. MaxCrashes]
  /\ losses \in 0 .. MaxLosses
  /\ reloads \in 0 .. MaxReloads
  /\ lost \in SUBSET Request

(* How far lb.c's free_threads can be wrong: recorded free threads and     *)
(* outstanding work exceed what a worker has by at most one per crash (its *)
(* second 'S' counts as a completion) and by MAX_THREADS - 1 per reload (a *)
(* busy worker's 'D' registers it with all threads free).  Lost datagrams  *)
(* never make lb.c too generous.                                           *)
OvercommitBounded ==
  \A k \in Key, s \in Server : servers[k].saddr = s =>
    servers[k].free_threads + Outstanding(s)
      <= MAX_THREADS + crashes[s] + reloads * (MAX_THREADS - 1)

(* As long as the program is not reloaded, a worker that has never crashed *)
(* refuses no job, whatever crashes around it and whatever gets lost.      *)
HealthyNeverRefuse ==
  reloads = 0 =>
    \A s \in Server :
      crashes[s] = 0 /\ mainpc[s] = "check" => n_threads[s] < ServerThreads

(* Every job is in exactly one place, the lost ones included: a job that   *)
(* was lost does not turn up again, and nothing but a fault or a refusal   *)
(* loses one.                                                              *)
JobsAccounted ==
  /\ lost \cap (unsent \cup reqs \cup dropped \cup Queued) = {}
  /\ \A i, j \in 1 .. Len(queue) : queue[i] = queue[j] => i = j
  /\ \A r \in Request :
       LET holders == {s \in Server : AtWorker(s, r)} IN
       /\ Cardinality(holders) <= 1
       /\ holders = {} <=>
            r \in unsent \cup reqs \cup dropped \cup Queued \cup lost

(* While no datagram is lost, a worker that lb.c knows is never written    *)
(* off: a thread is recorded free, or work or a ping is outstanding whose  *)
(* end will bring one back.  One ping per restart is enough for that.      *)
NeverWrittenOff ==
  losses = 0 => \A k \in Key, s \in Server : servers[k].saddr = s =>
    mainpc[s] = "start" \/ servers[k].free_threads + Outstanding(s) > 0
=============================================================================
