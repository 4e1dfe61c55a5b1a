\* Four hosts for three slots; a __u16 of six values, so that the pings of the
\* host without a slot make server_cnt wrap around.
SPECIFICATION LbSpec
CONSTANTS
  Server = {h1, h2, h3, h4}
  Request = {r1, r2}
  MAX_THREADS = 2
  ServerThreads = 2
  QUEUE_MAX = 2
  U16 = 6
  TailGrows = {TRUE, FALSE}
  NoAddr = NoAddr
  NoRequest = NoRequest
SYMMETRY Symmetry
INVARIANTS
  LbTypeOK
  KeysSound
PROPERTIES
  ChargesTheBest
  KeysStable
