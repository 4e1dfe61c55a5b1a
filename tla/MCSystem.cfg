\* The README's start order, frames can be grown, two workers with one thread
\* each and room for two waiting jobs.  Of six jobs two run, two wait, so that
\* the oldest and the newest one are different jobs, and the queue overflows
\* and is drained again.
SPECIFICATION Spec
CONSTANTS
  Server = {s1, s2}
  Request = {r1, r2, r3, r4, r5, r6}
  MAX_THREADS = 1
  ServerThreads = 1
  QUEUE_MAX = 2
  U16 = 65536
  TailGrows = {TRUE}
  ServersFirst = TRUE
  NoAddr = NoAddr
  NoRequest = NoRequest
SYMMETRY Symmetry
INVARIANTS
  TypeOK
  NeverBusy
  WorkConserving
  QueueAwaited
PROPERTIES
  OldestFirst
  NoNeedlessDrop
  ImplementsService
