\* Two CPUs, any start order, frames that cannot be grown.
SPECIFICATION AtomicSpec
CONSTANTS
  CPU = {c1, c2}
  Server = {s1, s2}
  Request = {r1, r2, r3}
  MAX_THREADS = 1
  ServerThreads = 1
  QUEUE_MAX = 1
  U16 = 8
  TailGrows = {TRUE, FALSE}
  WorkersFirst = FALSE
  NoAddr = NoAddr
  NoRequest = NoRequest
SYMMETRY Symmetry
INVARIANTS
  JobsSafe
  KeysUsable
PROPERTY ImplementsLoadBalancer
