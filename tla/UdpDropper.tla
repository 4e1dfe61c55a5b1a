----------------------------- MODULE UdpDropper -----------------------------
(***************************************************************************)
(* Part A: a client that counts, the XDP filter xdp_dropper.c in front of  *)
(* the server, and the server that prints what comes through.  The network *)
(* reorders, and other hosts may send frames of their own.                 *)
(***************************************************************************)
EXTENDS XdpParse

CONSTANTS
  BYTE,      \* number of values of a byte (256)
  BYTES,     \* sizeof(__u64)
  LIMIT,     \* client.py:16, the end of the client's range (500)
  Foreign    \* frames and numbers of other hosts, each sent once

Byte == 0 .. (BYTE - 1)
Offset == 0 .. (BYTES - 1)

\* How many numbers have BYTES digits.
VALUES ==
  LET power[n \in 0 .. BYTES] == IF n = 0 THEN 1 ELSE power[n - 1] * BYTE
  IN  power[BYTES]

ASSUME NumbersAssumption ==
  /\ BYTE \in Nat \ {0, 1}
  /\ BYTES \in Nat \ {0}
  /\ LIMIT \in 1 .. VALUES

\* The payload is where the filter expects it.
ASSUME ForeignAssumption ==
  \A m \in Foreign : m.frame.options = 0 /\ m.data \in [Offset -> Byte]

VARIABLES
  i,         \* the client's loop variable
  strange,   \* frames of other hosts that are still to be sent
  wire,      \* frames under way to the server's interface
  passed,    \* frames the filter let through, on their way to a socket
  printed    \* numbers the server has printed

vars == <<i, strange, wire, passed, printed>>

\* The number with the digits d, and the digits of the number v; the digit at
\* offset 0 is the highest one.
Number(d) ==
  LET high[n \in 0 .. BYTES] ==
        IF n = 0 THEN 0 ELSE high[n - 1] * BYTE + d[n - 1]
  IN  high[BYTES]

Digits(v) ==
  LET rest[n \in 0 .. BYTES] == IF n = 0 THEN v ELSE rest[n - 1] \div BYTE
  IN  [k \in Offset |-> rest[BYTES - 1 - k] % BYTE]

\* The same bytes from the other end.
Swapped(b) == [k \in Offset |-> b[BYTES - 1 - k]]

\* Seeded fault: the client sends the low byte first.
to_bytesLittle(v) == Swapped(Digits(v))

\* to_bytes(8, byteorder='big') and its inverse: the high byte comes first.
to_bytes(v) == Digits(v)
from_bytes(b) == Number(b)

\* memcpy into a __u64 of a little-endian machine; __builtin_bswap64.
load(b) == Number(Swapped(b))
bswap64(v) == Number(Swapped(Digits(v)))

Init ==
  /\ i = 1
  /\ strange = Foreign
  /\ wire = {}
  /\ passed = {}
  /\ printed = {}

\* Seeded fault: the range includes its end.
ClientSendInclusive ==
  /\ i <= LIMIT
  /\ wire' = wire \cup {[frame |-> Datagram(BYTES), data |-> to_bytes(i)]}
  /\ i' = i + 1
  /\ UNCHANGED <<strange, passed, printed>>

ClientSend ==
  /\ i < LIMIT
  /\ wire' = wire \cup {[frame |-> Datagram(BYTES), data |-> to_bytes(i)]}
  /\ i' = i + 1
  /\ UNCHANGED <<strange, passed, printed>>

OthersSend(m) ==
  /\ m \in strange
  /\ strange' = strange \ {m}
  /\ wire' = wire \cup {m}
  /\ UNCHANGED <<i, passed, printed>>

\* Seeded fault: the number is tested as it lies in memory.
udp_dropperNoSwap(m) ==
  IF parse(m.frame) # "payload" THEN parse(m.frame)
  ELSE IF payload_size(m.frame) < BYTES THEN "XDP_ABORTED"
  ELSE IF load(m.data) % 2 = 1 THEN "XDP_PASS" ELSE "XDP_DROP"

udp_dropper(m) ==
  IF parse(m.frame) # "payload" THEN parse(m.frame)
  ELSE IF payload_size(m.frame) < BYTES THEN "XDP_ABORTED"
  ELSE IF bswap64(load(m.data)) % 2 = 1 THEN "XDP_PASS" ELSE "XDP_DROP"

Filter(m) ==
  /\ m \in wire
  /\ wire' = wire \ {m}
  /\ passed' = IF udp_dropper(m) = "XDP_PASS" THEN passed \cup {m} ELSE passed
  /\ UNCHANGED <<i, strange, printed>>

\* The stack hands the frame to the server's recvfrom, or to somebody else.
ServerRecv(m) ==
  /\ m \in passed
  /\ passed' = passed \ {m}
  /\ printed' = IF ForSocket(m.frame)
                THEN printed \cup {from_bytes(m.data)} ELSE printed
  /\ UNCHANGED <<i, strange, wire>>

\* The client has finished and the server waits in recvfrom.
Idle == i = LIMIT /\ strange = {} /\ wire \cup passed = {} /\ UNCHANGED vars

Next ==
  \/ ClientSend
  \/ \E m \in strange : OthersSend(m)
  \/ \E m \in wire : Filter(m)
  \/ \E m \in passed : ServerRecv(m)
  \/ Idle

\* Every frame is filtered and delivered; other hosts send when they like.
Message == Foreign \cup
  {[frame |-> Datagram(BYTES), data |-> to_bytes(v)] : v \in 1 .. (LIMIT - 1)}

Spec ==
  /\ Init
  /\ [][Next]_vars
  /\ WF_vars(ClientSend)
  /\ \A m \in Message : WF_vars(Filter(m)) /\ WF_vars(ServerRecv(m))

-----------------------------------------------------------------------------
Odd(v) == v % 2 = 1

\* Counters and messages stay well formed.
TypeOK ==
  /\ i \in 1 .. LIMIT
  /\ strange \subseteq Foreign
  /\ wire \subseteq Message
  /\ passed \subseteq Message
  /\ printed \subseteq 0 .. (VALUES - 1)

(* The server prints odd numbers only, and of the client's numbers only    *)
(* such as the client has sent: client, filter and server agree on the     *)
(* byte order, which each of them converts on its own.                     *)
PrintsOdd ==
  \A v \in printed : /\ Odd(v)
                     /\ \/ v < i
                        \/ \E m \in Foreign : v = from_bytes(m.data)

(* Every odd number of the client is printed in the end.                   *)
OddArrives == \A v \in 1 .. (LIMIT - 1) : Odd(v) => <>(v \in printed)
=============================================================================
