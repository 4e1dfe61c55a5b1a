\* Pings and jobs, and a checksum over two four-bit words.
SPECIFICATION Spec
CONSTANTS
  Length = {43, 50}
  Options = {0}
  Grows = {TRUE}
  BYTE = 4
  WORD = 16
  LEN = 2
INVARIANT UdpAccepted
