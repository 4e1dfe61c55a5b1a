\* Frames cut before, at and after the end of each header, payloads of 0, 1,
\* 2, 7, 8 and 9 bytes, and the checksums over up to ten four-bit words.
SPECIFICATION Spec
CONSTANTS
  Length = {13, 14, 33, 34, 41, 42, 43, 44, 49, 50, 51}
  Options = {0}
  Grows = {TRUE, FALSE}
  BYTE = 4
  WORD = 16
  LEN = 10
INVARIANTS
  SumTypeOK
  PortDecides
  SentIsAJob
  IpAccepted
