\* One worker with two threads and two jobs.
SPECIFICATION Spec
CONSTANTS
  Server = {s1}
  Request = {r1, r2}
  MAX_THREADS = 2
  ServerThreads = 2
  QUEUE_MAX = 2
  U16 = 65536
  TailGrows = {TRUE}
  ServersFirst = TRUE
  NoAddr = NoAddr
  NoRequest = NoRequest
INVARIANT SleepsEachJobOnce
