----------------------------- MODULE JobService -----------------------------
(***************************************************************************)
(* What part B promises its client, without frames, pings, maps or         *)
(* threads: every worker has a pool of slots, a job takes a slot when one  *)
(* is free, waits its turn when none is, and is refused only when there is *)
(* no room to wait.  A slot comes back some time after its job has         *)
(* finished and goes to the oldest waiting job at once.                    *)
(***************************************************************************)
EXTENDS Integers, Sequences, FiniteSets

CONSTANTS
  Worker,
  Job,
  Slots,   \* jobs a worker runs at a time
  Room     \* jobs that may wait

VARIABLES
  members,    \* workers that take part
  free,       \* free[w]: slots of w that can be handed out
  running,    \* running[w]: jobs that have been given a slot of w
  waiting,    \* jobs that wait for a slot, oldest first
  offered,    \* jobs that have not arrived yet
  finished,   \* jobs that are done
  refused     \* jobs that were turned away

svars == <<members, free, running, waiting, offered, finished, refused>>

Init ==
  /\ members = {}
  /\ free = [w \in Worker |-> 0]
  /\ running = [w \in Worker |-> {}]
  /\ waiting = << >>
  /\ offered = Job
  /\ finished = {}
  /\ refused = {}

Exhausted == \A w \in Worker : free[w] = 0

\* A worker joins with all its slots; nobody waits at that time.
Join(w) ==
  /\ w \notin members
  /\ waiting = << >>
  /\ members' = members \cup {w}
  /\ free' = [free EXCEPT ![w] = Slots]
  /\ UNCHANGED <<running, waiting, offered, finished, refused>>

\* A job that finds free slots takes one of a worker with the most.
Start(j, w) ==
  /\ j \in offered
  /\ waiting = << >>
  /\ free[w] > 0
  /\ \A u \in Worker : free[u] <= free[w]
  /\ offered' = offered \ {j}
  /\ free' = [free EXCEPT ![w] = @ - 1]
  /\ running' = [running EXCEPT ![w] = @ \cup {j}]
  /\ UNCHANGED <<members, waiting, finished, refused>>

Wait(j) ==
  /\ j \in offered
  /\ Exhausted
  /\ Len(waiting) < Room
  /\ offered' = offered \ {j}
  /\ waiting' = Append(waiting, j)
  /\ UNCHANGED <<members, free, running, finished, refused>>

Refuse(j) ==
  /\ j \in offered
  /\ Exhausted
  /\ Len(waiting) = Room
  /\ offered' = offered \ {j}
  /\ refused' = refused \cup {j}
  /\ UNCHANGED <<members, free, running, waiting, finished>>

Finish(w, j) ==
  /\ j \in running[w]
  /\ running' = [running EXCEPT ![w] = @ \ {j}]
  /\ finished' = finished \cup {j}
  /\ UNCHANGED <<members, free, waiting, offered, refused>>

\* A slot of w that no job uses comes back: the oldest waiting job takes it,
\* or it is free.
Release(w) ==
  /\ w \in members
  /\ free[w] + Cardinality(running[w]) < Slots
  /\ \/ /\ waiting = << >>
        /\ free' = [free EXCEPT ![w] = @ + 1]
        /\ UNCHANGED <<running, waiting>>
     \/ /\ waiting # << >>
        /\ running' = [running EXCEPT ![w] = @ \cup {Head(waiting)}]
        /\ waiting' = Tail(waiting)
        /\ UNCHANGED free
  /\ UNCHANGED <<members, offered, finished, refused>>

Next ==
  \/ \E w \in Worker : Join(w) \/ Release(w)
  \/ \E j \in Job : Wait(j) \/ Refuse(j)
  \/ \E j \in Job, w \in Worker : Start(j, w) \/ Finish(w, j)

Spec == Init /\ [][Next]_svars
=============================================================================
