\* The client starts before the workers have registered.
SPECIFICATION FairSpec
CONSTANTS
  Server = {s1}
  Request = {r1, r2}
  MAX_THREADS = 1
  ServerThreads = 1
  QUEUE_MAX = 2
  U16 = 65536
  TailGrows = {TRUE}
  ServersFirst = FALSE
  NoAddr = NoAddr
  NoRequest = NoRequest
PROPERTY EveryJobServed
