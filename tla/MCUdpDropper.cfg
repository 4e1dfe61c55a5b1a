\* Two-byte numbers of four-valued bytes; the client counts to 5, past a carry.
SPECIFICATION Spec
CONSTANTS
  BYTE = 4
  BYTES = 2
  LIMIT = 6
  Foreign <- SomeForeign
INVARIANTS
  TypeOK
  PrintsOdd
PROPERTY OddArrives
