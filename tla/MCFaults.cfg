\* Two workers with two threads each in the README's start order; every kind
\* of fault, and frames that cannot be grown.  One worker crashes beside a
\* healthy one, both crash, and jobs wait while a fresh program knows nobody.
\* When a worker's first ping is lost and it does not restart, the client is
\* never started: the system may stop.
SPECIFICATION FaultSpec
CONSTANTS
  Server = {s1, s2}
  Request = {r1, r2, r3}
  MAX_THREADS = 2
  ServerThreads = 2
  QUEUE_MAX = 2
  U16 = 65536
  TailGrows = {TRUE, FALSE}
  ServersFirst = TRUE
  MaxCrashes = 1
  MaxLosses = 1
  MaxReloads = 1
  NoAddr = NoAddr
  NoRequest = NoRequest
SYMMETRY Symmetry
CHECK_DEADLOCK FALSE
INVARIANTS
  FaultTypeOK
  OvercommitBounded
  HealthyNeverRefuse
  JobsAccounted
  NeverWrittenOff
