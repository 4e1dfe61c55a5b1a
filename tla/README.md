# A TLA+ verification of the eBPF load balancer

This directory models the repository's two programs, the XDP load balancer in front of
UDP workers (part B) and the XDP filter (part A), checks them with TLC and proves
with TLAPS what is safe about them. Of part B: its maps, workers and jobs, with and without
faults and races, its frames, and that it is the service its client expects. Of part A:
that three independent byte-order conversions agree and only odd numbers come through.
File and line references are to the repository.

## 1. The system

Part B is four programs on one docker network (`A2-B/docker-compose.yaml`):

| part | code | state it keeps | operations |
|---|---|---|---|
| client | `client/client.py` | the total it asked for (printed, never sent) | sends one 8-byte datagram per job to the load balancer, waits for no answer |
| load balancer | `load-balancer/lb.c` | four BPF maps: `ip_to_key` (address to key), `servers` (key to address and `free_threads`), `server_cnt` (next key), `queue` (at most 100 payloads) | runs once per frame: a 1-byte frame registers its sender or reports a finished job, an 8-byte frame is forwarded or queued, everything else is passed |
| worker (three of them) | `server/server.py` | globals `n_threads`, `data`, `total_sleep_time`; one thread per job | announces itself with `S`; receives a job, refuses it when busy, otherwise starts a thread that counts itself, sleeps, adds up the time, uncounts itself and sends `D` |
| start scripts | Makefiles, `startup_script.sh` | none | compile, load and attach the program |

Part A (`A2-A/`) is a stateless XDP filter between a client that sends the numbers
1 to 499 as 8-byte datagrams and a server that prints what it receives: a datagram
to port 8080 with an even number is dropped, everything else passed. It opens with the same
header parsing as `lb.c`. `libbpf/` is vendored twice; only its headers are used.

**Interaction.** Everything goes over UDP port 8080. The load balancer never
generates a packet: it rewrites the frame it was run on. A queued job can
therefore leave only in the frame of a worker's ping, which is grown by seven
bytes (`bpf_xdp_adjust_tail`) and sent to the selected worker. The load balancer
believes it knows how many threads a worker has free: it credits `MAX_THREADS` at
registration, takes one for each job it sends and returns one per ping. The
worker has its own limit and its own counter. Nothing synchronises the two but
the datagrams under way.

**What is hard here.**

* The two counts agree only if every send is charged once and every completion
  is credited once, over messages that are delayed and reordered.
* A worker's main thread tests `n_threads` without the lock and before the threads
  it started have counted themselves; the lambda it hands to a thread reads the
  global `data` late.
* The `D` of a finished thread may be answered with a new job before anything else
  happens at the worker, so the order "decrement, then send" matters.
* Only completions look at the queue. Whether waiting jobs ever leave depends
  on an unbroken chain of completions, each of which sends one job.
* The counters are 16-bit and are decremented, incremented and wrapped without tests; map
  updates and queue pushes may fail and nobody looks; a job is popped before the
  program knows whether it has room for it.
* The program may run on several CPUs at once on unlocked maps: an invocation is a
  dozen separate accesses, with a choice made in one and used in another.
* Workers may restart and announce themselves again, the program may be reloaded
  with empty maps, and datagrams may be lost; nothing detects or repeats anything.
* A ping's frame becomes a job's frame: lengths and both checksums must fit the
  new content. Three programs of part A convert the byte order of a number independently.

**What makes each part correct.** Load balancer: its maps stay inverse to each
other, no counter underflows, a job goes to a worker with the most free threads.
Worker: its counter is exact, it never stays busy for ever, it does the job it was
given. System: the accounts balance, no worker is overrun or refuses a job, no job is lost or
doubled, jobs do not wait beside free threads and are served in order, and the
completions that serve the queue do not cease; to its client it is a service with a pool of slots per worker and a
waiting line. With faults: how wrong the accounts can get is bounded, healthy workers are not
overrun, and no worker is written off. Part A: every odd number and no even one arrives.

## 2. Modules

| module | models | builds on |
|---|---|---|
| `Deployment` | constants of the code and their assumptions | |
| `LoadBalancer` | `lb.c`: the maps and `load_balancer()`; also its open specification `LbSpec` | `Deployment` |
| `Server` | `server.py`: main thread and handler threads of every worker | `Deployment` |
| `ServerOpen` | the workers alone, under arbitrary bursts | `Server` |
| `System` | client, network, load balancer and workers together | `LoadBalancer`, `Server` |
| `JobService` | abstract: what part B promises its client | |
| `SystemService` | the refinement mapping from `System` to `JobService` | `System` |
| `SystemFaults` | `System` with crashes, losses and reloads | `System` |
| `LoadBalancerSmp` | `lb.c` on several CPUs, one step per map access | `LoadBalancer` |
| `SmpAtomic` | the mapping from its invocations to the actions of `LoadBalancer` | `LoadBalancerSmp` |
| `XdpParse` | the header parsing of `lb.c` and `xdp_dropper.c` (operators) | |
| `Checksum` | `ip_checksum` and `udp_checksum`, word by word | |
| `LbFrames` | the frame side of `lb.c`: verdicts, lengths, checksums | `XdpParse`, `Checksum` |
| `UdpDropper` | part A: client, filter, server | `XdpParse` |
| `LoadBalancerProofs` | theorems about `LoadBalancer` | `LoadBalancer` |
| `ServerProofs` | lemmas that count a worker's threads, used by all that follow | `Server` |
| `ServerOpenProofs` | theorems about the workers alone | `ServerOpen`, `ServerProofs` |
| `SystemProofs` | theorems about part B, and that it implements `JobService` | `SystemService`, `LoadBalancerProofs`, `ServerProofs` |
| `FaultProofs` | theorems about part B with faults | `SystemFaults`, `SystemProofs` |
| `SmpProofs` | theorems about `lb.c` on several CPUs | `SmpAtomic`, `LoadBalancerProofs` |
| `FrameProofs` | theorems about frames and checksums | `LbFrames` |
| `DropperProofs` | theorems about part A and its byte conversions | `UdpDropper` |
| `MCLoadBalancer`, `MCSystem`, `MCServerOpen`, `MCSystemFaults`, `MCSmp`, `MCLbFrames`, `MCUdpDropper` | entry points for TLC, symmetry sets | |

### LoadBalancer

The four maps are the four variables. An action is one whole invocation of
`load_balancer()`, and its verdict (`XDP_DROP`, `XDP_ABORTED`, or `XDP_TX` with
the rewritten destination and payload) is a parameter that the composing module
acts on.

| action | code | when |
|---|---|---|
| `Register` | lb.c:258-306 | the sender's slot is unused or its key lies outside the array |
| `Complete` | lb.c:307-318, 359-366 | the slot is in use, the queue empty |
| `CompleteAndDispatch` | lb.c:307-358 | the slot is in use and jobs wait |
| `Forward`, `Enqueue` | lb.c:372-400 | an 8-byte frame, with and without a free thread |

The error paths are kept: an update of the full hash, an update outside the array, and a push on
the full queue do nothing and are not noticed; a frame that could not be grown
(`TailGrows`, external) loses the job that was already popped.
`free_threads` and `server_cnt` are computed modulo `U16`. A lookup of key 0 in a
one-element array map cannot fail, so the branches for that case (lb.c:265-271,
297-300) are not separate. MAC addresses, the load balancer's own address and the
checksums do not influence any map and are left out. Frames that are passed change
nothing.

`LbSpec` puts the program into arbitrary surroundings: every host may send any
ping at any time, requests come as they like. What holds of it holds
under loss, duplication and restarts of everything but the load balancer.

### Server

A step is the code between two accesses to shared state. The main thread is at
`start` (before `S`), `recv` or `check` (a datagram is in `data`). A handler
thread goes `started` (lambda not yet run), `bound` (argument read), `sleeping`
(counted), `slept` (time added), `left` (uncounted), `done` (`D` sent). A thread
is named by the datagram it was started for; `job[s][t]` is what it really read.
`total_sleep_time` is abstracted to how often each job was added to it.
`Busy`, `Skip` and `Spawn` are the three outcomes of the tests in server.py:38 and 41. A datagram
without a payload (`data[s] = NoRequest`) is skipped; in `System` every datagram is a job and `Skip` is never
enabled (lemma `NeverSkips`), in `ServerOpen` other hosts send such datagrams (`RecvEmpty`), and a handler
thread that reads one late sleeps for no time.

### System

The network is `reqs` (client to load balancer), `jobs[s]` (to worker s, up to its
`recvfrom`) and `pings[s]`; it reorders and neither loses nor doubles. `dropped` is a
history variable: the jobs the load balancer took out of a frame or of the
queue and neither kept nor sent. `ServersFirst` selects the start order of
`A2-B/README.md:11-25` (all workers registered before the client sends) or any
order. `Idle` is the state in which all work is done and everybody waits for
datagrams.

### JobService and SystemService

`JobService` knows workers, slots and jobs only. A worker joins with its slots; an arriving
job starts on a worker with the most free slots, or waits, or is refused when the
waiting room is full; a job finishes; a slot that no job uses comes back and at
once takes the oldest waiting job, if there is one. The mapping: a slot is free
when `free_threads` says so; a job runs from the moment lb.c charges it until its
thread sends `D` (a datagram under way, held by the main thread, or a thread); between
`D` and its handling by lb.c the slot belongs to nobody. `Finish` is then the worker's
`sendto`, and `Release` the load balancer's handling of the ping.

### SystemFaults

| action | what happens |
|---|---|
| `Crash(s)` | the process dies with its globals, its threads and any part of the datagrams sent to it (the ones already in its socket); it starts again at `start` and will send `S` |
| `Unreachable(s, r)` | a job arrives while no process listens |
| `Lose` | the network loses a ping, a job or a request |
| `Reload` | the XDP program is loaded anew: all four maps are fresh, queued jobs are gone |

`lost` collects the jobs that disappear, those included that a worker refuses as busy. lb.c
has no special case for any of this: a second `S` finds the slot in use and counts as
a completion, and the first ping after a reload, whatever it means, registers its sender.

### LoadBalancerSmp and SmpAtomic

Every CPU has a program counter `pc[c]` and local variables `reg[c]`. One step is one
access to a map: a helper call on the hash or the queue, one read of a slot by
`get_available_backend`, or the load and the store of a counter, followed by the
load and the store with which `bpf_map_update_elem` copies the element onto itself (`lb.ll` has plain
loads and stores, and the clamp of lb.c:313 in the stored value). The address
and the counter of a slot are read in one step: an address is never cleared, so
this loses no outcome. The lookup of a host in `ip_to_key` (lb.c:259) and the later read through the pointer it
returned (lb.c:278) are one step as well: an entry that exists never changes (theorem `EntriesNeverChange`). A pop of an empty queue leaves a zero, which is not a job. Workers are
reduced to the pings lb.c sees. A frame is named by its sender or by its job, and the two are
different things (`FrameAssumption`): lb.c tells them apart by the length of the payload.

`SmpAtomic` adds two history variables: the maps when all CPUs were last idle, and
whether two have been at work since.

### Frames, checksums, part A

A frame is its length, three header fields and the length of its IP options;
`parse` is the chain of early returns that both programs share. `LbFrames` runs
`load_balancer` on one frame after the other, with arbitrary answers of the maps, and
when the frame leaves again both checksum loops run over arbitrary words, next to the sum the
receiver computes. Word and byte sizes are constants. Frames are taken to have
no padding: on a veth pair of a docker network a one-byte datagram is a frame of 43
bytes, not padded to 60, which lb.c:252 relies on.

`UdpDropper` models `to_bytes`, `memcpy`, `__builtin_bswap64` and `from_bytes` by what
they do to the bytes of a number: `Digits` and `Number` go from a number to its bytes, the
highest first, and back, `Swapped` turns the bytes round. A byte has `BYTE` values and a number
`BYTES` bytes. Other hosts send frames of their own.

### Seeded faults

Operators whose comment begins with "Seeded fault" are not part of the model. Each
is a variant of the definition below it with a plausible bug; substituting it
must break the property it is paired with in `PROJECT.json`, which shows that
the property constrains the code.

## 3. What TLC checks

| run | instance | shows |
|---|---|---|
| `load_balancer` | `LbSpec`, 4 hosts for 3 slots, 2 threads, queue of 2, 6-valued `__u16` | `LbTypeOK`: no counter underflows. `KeysSound`: `ip_to_key` and `servers` stay inverse. `KeysStable`: no slot changes hands. `ChargesTheBest`: the worker whose address a job leaves with had the most free threads |
| `system_started` | 2 workers with 1 thread, 6 jobs, queue of 2, README start order | `ImplementsService`: the whole is the service of `JobService`. `WorkConserving`: no job waits beside a free thread. `QueueAwaited`: while jobs wait, every worker has something outstanding whose end makes lb.c look at the queue. `OldestFirst`: of two waiting jobs the older one is sent. `NoNeedlessDrop`: a job is lost only to a full queue. `NeverBusy`: workers refuse nothing. `TypeOK` |
| `system_any_order` | 2 workers with 2 threads, 4 jobs, any start order, growing a frame may fail | `Conservation`: recorded free threads and outstanding work add up. `ThreadsBounded`. `ExactlyOnePlace`: no job disappears or is doubled |
| `server_open` | 1 worker with 2 threads, a burst of 3 and empty datagrams | `CounterExact`: refused datagrams leave no trace. `AcceptsAgain`: a busy worker accepts again |
| `faults` | 2 workers with 2 threads, 3 jobs, queue of 2, growing a frame may fail; one crash per worker, one loss, one reload | `OvercommitBounded`: lb.c overestimates a worker by at most 1 per crash and `MAX_THREADS - 1` per reload. `HealthyNeverRefuse`: a worker that has not crashed refuses nothing while the other one crashes. `JobsAccounted`: nothing but a fault or a refusal loses a job and none comes back. `NeverWrittenOff`: without losses a known worker always has a thread free or a ping to come. `FaultTypeOK`: here the clamp of lb.c:313 is needed |
| `smp` | 2 CPUs, 2 workers, 3 jobs, queue of 1, any start order | `JobsSafe`: however CPUs interleave, no job is lost or doubled. `KeysUsable`: a known worker's key names a slot in use. `ImplementsLoadBalancer`: an invocation that is not disturbed is one action of `LoadBalancer` |
| `frames` | frames of 11 lengths around the header boundaries, up to ten 4-bit words | `PortDecides`, `SentIsAJob`: what is sent is a whole job with fitting length fields. `IpAccepted`: its header checksum passes the receiver. `SumTypeOK` |
| `dropper` | numbers up to 5 in two 4-valued bytes, four frames of other hosts | `PrintsOdd`, `OddArrives`, `TypeOK` |
| `stranded_queue` | any start order | **violated**: `EveryJobServed` |
| `late_bound_data` | 2 jobs, 1 worker | **violated**: `SleepsEachJobOnce` |
| `smp_at_rest` | 2 CPUs, 2 workers, 3 jobs | **violated**: `AtRest` |
| `udp_checksum` | two words | **violated**: `UdpAccepted` |

**Bounds.** The fixed numbers are scaled down: 5 threads to 1 or 2, 100 queue entries to
1 to 3, 65536 counter values to 6 or 8 where wrapping matters. Each instance is chosen
so that its interesting cases occur: with two one-thread workers, two queue places and six jobs,
two jobs run, two wait, so that the oldest and the newest of them are different jobs, one overflows, and the
queue is filled again after a dispatch. With one thread per worker "the most free slots" means a free one; what
it means with more threads is what `load_balancer` checks and the theorems prove. Two
threads per worker let handler threads of one worker interleave; with four hosts the one
without a slot drives `server_cnt` past the array and, with six counter values, around to
keys that are taken. In `faults` the bound of `OvercommitBounded` is reached: one crash and
one reload make lb.c count four threads where there are two; two workers are needed for one to crash beside
a healthy one. Two CPUs are enough for every
pairwise race, and three jobs for one that is forwarded, one that is queued and one
that overflows. Four-bit words produce every combination of carries, twice folded, and
ten of them are an IP header. Two bytes show whether the right one decides the parity.
Datagrams, hosts and CPUs are interchangeable, so most safety
runs use symmetry; runs with a liveness property do not. No state constraint is used;
`MaxCrashes`, `MaxLosses` and `MaxReloads` bound the faults. `faults` does not check for deadlock: a
worker whose only `S` is lost leaves the operator waiting and the client unstarted.

**Fairness.** Weak fairness for the client's loop, for the load balancer's
invocation on each frame that has arrived, for each worker's main thread and for each
handler thread. The kernel runs an XDP program on every frame; CPython's
scheduler and the lock let every thread go on; sleeps are finite; the client does
not wait for anyone. No strong fairness is needed: each of these steps, once
enabled, stays enabled until it is taken. `ServerOpen` does not assume that datagrams come.
`SystemFaults` assumes none: no liveness is claimed under faults (section 4). In `UdpDropper` the client's loop, the filter
and the server are weakly fair, other hosts are not.

## 4. Findings

1. **Stranded queue** (lb.c:282-305). Registering a worker does not look at the
   queue. A job queued before the first worker registered leaves only when some
   later job completes, and never if none does. The start order in the
   README avoids it; `WorkConserving` and `OldestFirst` also need that order,
   because a job that arrives after the registration overtakes the queue.
2. **Late binding of `data`** (server.py:42). Two jobs received in quick succession
   may both be handled as the second one: one is slept twice, one never, and two
   `D` are sent. The count of threads is right all the same, which is why
   the other properties do not see it.
3. **Races on the maps** (`smp_at_rest`). Each of the four conjuncts of `AtRest` fails when lb.c runs on two
   CPUs, as TLC shows when it is given each alone. *Lost wakeup* (lb.c:389): a request finds no free
   thread; before it is pushed, the last completion finds the queue empty and
   credits its thread; the job stays queued beside free threads. *Lost update* (lb.c:199, 312-316): two
   changes of `free_threads`, or a change and the copy of the element, overwrite each other; the
   same thread may be given twice, and the counter wraps below zero. *One
   key for two workers* (lb.c:273): both read `server_cnt` before either stores it. *Phantom
   job* (lb.c:348): the pop's result is ignored, and a job of zero seconds that nobody
   sent is dispatched. Real jobs survive all of this (`JobsSafe`), and without overlapping
   invocations none of it happens (`RestWithoutOverlap`).
4. **UDP checksum** (lb.c:81). `udp_checksum` drops the carries that have to be added back in. The addresses
   172.20.x.x and the two ports already produce one, so that the checksum of every dispatched
   frame is wrong, for a receiver that verifies it. `ip_checksum` keeps and folds them.

Limits that the passing runs state in their assumptions:

* A second `S` of a restarted worker counts as a completion (lb.c:307): the other threads that died
  with it stay charged, and a restart of an idle worker may credit one too many.
  `NeverWrittenOff` and `OvercommitBounded` say how far this goes.
* A queued job is safe only as long as the chain of completions holds. It breaks when a ping's frame cannot be
  grown: the oldest job is popped and dropped (lb.c:348-350), and the jobs behind it stay queued beside the
  thread just credited until some other ping comes, which may be never. It breaks as well when a `D` is lost or
  the program is reloaded. `QueueAwaited` and `WorkConserving` are therefore claimed only where frames can be grown.
  Crashes alone do not break it (`CrashesLeaveQueueAwaited`).
* The busy test of server.py:38 does not limit threads by itself: datagrams received before the new
  threads have counted themselves all pass. In the composed system this never
  shows, because the load balancer sends no more than `MAX_THREADS` jobs at a
  time (`ThreadsBounded`).
* Both XDP programs take the UDP header 20 bytes after the start of the IP header (lb.c:242). `PortDecides`
  holds for frames without IP options (`Options = {0}`) and fails with them; no sender of the network sets any.
* The assignment (`AOS_2023_Assignment_2.pdf`, page 3) asks part A to filter TCP segments by their
  sequence number; the code filters UDP datagrams by their payload, and that is what `UdpDropper` models.

## 5. What is proved

Every theorem holds for all values of the constants that satisfy the
assumptions: any finite set of hosts and jobs, any positive thread and queue
sizes, a counter wide enough for `MAX_THREADS + 1` and `MAX_SERVERS`
(`SizesAssumption`), and for the system at most as many workers as slots
(`FleetAssumption`, the three of docker-compose.yaml) and a worker limit of at least
`MAX_THREADS` (`ThreadsAssumption`, both are five).

**`LoadBalancerProofs`** (`LbSpec`, arbitrary surroundings): `LbTypeCorrect`,
`LbKeysSound`, `LbChargesTheBest`, `LbKeysStable`. The inductive invariant is
`LbInv = LbTypeOK /\ KeysSound /\ CntSound`. `KeysSound` alone is not inductive:
that a new key is an unused slot follows only from `CntSound`, which ties
`server_cnt` to the number of known hosts until the hash is full and then says that
all slots are in use; from then on no value of the wrapped counter can name
an unused slot. The lemma `BackendSelection` says what the three written-out lookups of
`get_available_backend` return, and `ChosenSlot` that the address in the verdict is that of the slot they chose:
`LbChargesTheBest` speaks of the worker that gets the job, whoever's ping carries it.

**`SystemProofs`** (`Spec`):

* `SystemImplementsLb`: the system implements `LbSpec`, so what is proved
  about the load balancer in arbitrary surroundings is used here.
* `SystemInvariant`: `SysInv` holds, the conjunction of `TypeOK`, `LbInv`,
  `RegistrationSound`, `ThreadsSound`, `Conservation` and `ExactlyOnePlace`.
  `Conservation` needs the others. The thread a ping returns must belong to
  the slot of its sender (`LbInv`). The first ping of a worker must be its
  registration and come before any work (`RegistrationSound`). Counting outstanding work needs that
  a datagram is not at once under way, held and in a thread
  (`ExactlyOnePlace`), or moving it on would not keep the sum. The clamp of lb.c:313 is then
  never reached by a completion, and a dispatch always finds a worker.
* From it: `SystemTypeCorrect`, `ThreadsConserved`, `WorkersNeverBusy`, `WorkersBounded`, `JobsConserved`.
  `NeverBusy` is the step from lb.c's books to server.py's counter: a held datagram is
  one outstanding item and `n_threads` counts others (`ThreadsSound`).
* `QueueOnlyWhenFull`, `QueueStaysAwaited`, `ServedInOrder` assume `ServersFirst` and that frames can grow
  (`FALSE \notin TailGrows`) and use the further invariants `StartOrder` and `WorkConserving`. `QueueStaysAwaited`
  adds `Conservation`: a worker without a free thread has something outstanding.
  `LostOnlyWhenFull` assumes only that frames can grow. Without the assumptions they are false
  (finding 1; a job is lost when the frame does not grow).

`SystemImplementsService`, last in that module, says that part B started as the README says is the
service of `JobService` (assumptions as for `QueueOnlyWhenFull`). The invariant `Ordered` is
`SysInv`, `StartOrder` and `WorkConserving` together. Each action of `System` is mapped to a step of the
service or to a stutter: the charge of a job to `Start`, its `D` to `Finish`, lb.c's handling of
that `D` to `Release`. Two points need the invariant: the worker that gets a job has the most
free slots also after the credit of the ping that carries it, and the slot released by a
ping is one that no job uses (`Conservation`).

**`ServerOpenProofs`** (a worker under any bursts): `CounterStaysExact` and `OpenTypeCorrect`. The
invariant `OpenInv` adds to `CounterExact` that a datagram still to come, under way or held has no thread
yet (`StartedOnce`), or a second start would reset a thread that `n_threads` counts, and that a worker that has not sent `S`
has no thread (`StartsFresh`). Empty datagrams (`RecvEmpty`, `Skip`) disturb none of it. How many threads there are is not bounded here, and no theorem
says so: the busy test alone does not limit them.

**`FaultProofs`** (any number of crashes, losses and reloads): `FaultInvariant` and from it
`FaultTypeCorrect`, `OvercommitStaysBounded`, `HealthyNeverRefuses`, `JobsStayAccounted`,
`WorkersNeverWrittenOff` and `CrashesLeaveQueueAwaited`. The invariant `FaultInv` is `FaultTypeOK`, `LbInv`, `ThreadsSound`,
`PlacedOnce` and `Ledger`. `Ledger` replaces `Conservation`, which faults destroy: the balance of a
worker is what lb.c records as free plus what is booked on it (jobs under way, held or in
threads, pings, and the `S` a dead worker will send). A worker that lb.c does not know counts as if `MAX_THREADS - 1`
were recorded, because its next ping, whatever it means, will record `MAX_THREADS`. A crash
then adds at most one to the balance (its `S` will be credited), a reload at
most `MAX_THREADS - 1`, a loss only reduces it, and every other step keeps it or, at the clamp
of lb.c:313, reduces it. `OvercommitBounded` follows, and with no crash and no reload
`HealthyNeverRefuse`. The other bound, that the balance of a known worker does not reach zero,
is `NeverWrittenOff`. `CrashesLeaveQueueAwaited` adds to it that until a reload no job waits beside a recorded
free thread (`ConservingYet`, under `ServersFirst` and `FALSE \notin TailGrows`): with nothing lost, every worker then has
something outstanding or is about to send `S`.

**`SmpProofs`** (any number of CPUs, any interleaving of their accesses):

* `JobsStaySafe`. The invariant is `SmpTypeOK`, `Locals` and `JobsPlaced`. `Locals` says for each
  program point what the local variables of an invocation can be relied on for, and that the slots it has chosen are in
  use, which no other CPU can undo since addresses are never cleared. `JobsPlaced` says that the
  places of a job exclude each other, pairwise for CPUs and queue positions.
* `KeysStayUsable`. The key of a worker must be below 3 although `server_cnt` is read and
  stored without a lock. The invariant (`KeysLearned`, `Early`) says why: while the hash has room,
  every worker not yet in it is `Clean`, that is, it has one ping, handled by one CPU; so
  a CPU that registers is the only one to do so for its worker, and `server_cnt`, as well as every copy of it
  that a CPU holds, is at most the number of workers that have been counted. Lost
  updates make the counter smaller, never larger.
* `SmpImplementsLoadBalancer`: an invocation that no other CPU disturbs is one action of
  `LoadBalancer`, whatever state earlier races have left. The invariant `Undisturbed` says, for
  each program point (`Stage`), what the invocation has made of the maps it found.
* `EntriesNeverChange`: an entry of `ip_to_key` is written once, which justifies that `LookupKey` is one step.
* `RestWithoutOverlap`: overlaps are all that can break `AtRest` (finding 3). The workers fit into
  the maps, start before the client, and frames can grow (`Deployed`); then in every behaviour in which no two
  CPUs are ever at work at once (`[]~overlapped`), the books are right when nothing is under way. `OneCpuAtRest`
  is the case of one CPU. The invariant `Account` is told from the maps between invocations
  (`shown`): keys and slots are inverse and were given out one by one (`Registry`); a known
  worker's free threads, its jobs, its pings under way and the ping being handled add up to
  `MAX_THREADS`, and an unknown one has exactly its `S` to send (`Books`); jobs wait only when all
  threads of all workers are taken (`Waits`). `Undisturbed` says at each program point how the maps
  differ from `shown`, so only the step that ends an invocation has to balance the books.

The invariants were checked with TLC before they were proved (that of `KeysStayUsable` also with
more workers than slots and with three CPUs, `Account` with two and three workers).

**`FrameProofs`** (words of any width, headers of any length below it): `SumTypeCorrect`, `IpAlwaysAccepted`,
`SentIsAlwaysAJob`, and `PortAlwaysDecides` for frames without IP options. The checksum argument: the
receiver's one's-complement sum of the words read so far is the `long` sum of `ip_checksum` with
its carries added back in, and two folds are enough because there are fewer words than a
word has values.

**`DropperProofs`** (bytes with any number of values, numbers of any length, any frames of other
hosts): `ConversionsAgree`, that what `udp_dropper` reads with `memcpy` and `__builtin_bswap64` is what
the server's `from_bytes` reads, and the number the client gave to `to_bytes`; from it
`DropperTypeCorrect` and `PrintsOddOnly`. The conversions are recursive functions over the bytes.
The library's induction theorems have an operator parameter and cannot be used, so
induction is stated for a set of numbers (`SetInduction`) and derived from the well-foundedness of
the natural numbers; that the recursive definitions have values (`ChainExists`) and that `Digits` and
`Number` are inverse to each other (`DigitsOfNumber`, `NumberOfDigits`) follow from it. The
invariant `DropperInv` adds to the two properties what links a printed number to the filter: a frame that
was let through and goes to the server's socket carries an odd number, and the
frames of the client carry numbers below `i`.

**Only model-checked:** liveness (`AcceptsAgain`, `OddArrives`), which needs fairness
and is out of the prover's reach.

## 6. Not modelled

* Time: how long a sleep lasts and the pauses of the client.
* Duplicated datagrams in the composed system (`LbSpec` covers them for the load balancer alone); a
  worker that comes back under another address.
* MAC addresses and the load balancer's own address: they are copied and decide nothing.
* Memory ordering between CPUs: accesses of `LoadBalancerSmp` take effect one after the other.
* Start scripts and build files (no state of their own; what a reload does is in `SystemFaults`), `lb.ll` (generated from lb.c).
* `libbpf`, vendored twice, and with it nearly all lines of the repository: third-party code of which
  the programs include helper headers only. Everything the repository's authors wrote that keeps
  state or decides something is modelled: `lb.c`, `xdp_dropper.c`, and the two servers and two clients.

## 7. State and plan

The models are complete up to section 6, and every safety property of a passing run is proved. What remains:
how far the counters of lb.c can be off after races, which `smp_at_rest` shows to happen and no
property bounds; `RestWithoutOverlap` says that nothing else makes them wrong.
