\* One worker with two threads and a burst of three datagrams.
SPECIFICATION OpenSpec
CONSTANTS
  Server = {s1}
  Request = {r1, r2, r3}
  MAX_THREADS = 2
  ServerThreads = 2
  QUEUE_MAX = 1
  U16 = 65536
  TailGrows = {TRUE}
  NoAddr = NoAddr
  NoRequest = NoRequest
INVARIANTS
  OpenTypeOK
  CounterExact
PROPERTY AcceptsAgain
