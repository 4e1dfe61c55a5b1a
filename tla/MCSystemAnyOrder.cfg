\* Workers and client start in any order and bpf_xdp_adjust_tail may fail.
\* Two threads per worker, so that threads of one worker interleave.
SPECIFICATION Spec
CONSTANTS
  Server = {s1, s2}
  Request = {r1, r2, r3, r4}
  MAX_THREADS = 2
  ServerThreads = 2
  QUEUE_MAX = 1
  U16 = 65536
  TailGrows = {TRUE, FALSE}
  ServersFirst = FALSE
  NoAddr = NoAddr
  NoRequest = NoRequest
SYMMETRY Symmetry
INVARIANTS
  Conservation
  ThreadsBounded
  ExactlyOnePlace
