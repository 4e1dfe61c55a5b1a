\* Two CPUs, the README's start order, room for every job.
SPECIFICATION AtomicSpec
CONSTANTS
  CPU = {c1, c2}
  Server = {s1, s2}
  Request = {r1, r2, r3}
  MAX_THREADS = 1
  ServerThreads = 1
  QUEUE_MAX = 3
  U16 = 8
  TailGrows = {TRUE}
  WorkersFirst = TRUE
  NoAddr = NoAddr
  NoRequest = NoRequest
SYMMETRY Symmetry
INVARIANT AtRest
