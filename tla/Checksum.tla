------------------------------ MODULE Checksum ------------------------------
(***************************************************************************)
(* The two checksums lb.c writes into a frame it sends on.  Both loops run *)
(* over the same words, one per step, beside the sum the receiver of the   *)
(* frame computes: addition with end-around carry (RFC 1071, external).    *)
(*                                                                         *)
(* A word has WORD values (65536) and is two bytes.  In the IP header the  *)
(* words are the header with a zero check field; in the UDP datagram they  *)
(* are the pseudo header, the UDP header with a zero check field and the   *)
(* payload, which udp_checksum adds one after the other in the same way.   *)
(***************************************************************************)
EXTENDS Integers

CONSTANTS
  WORD,   \* number of values of a __u16
  BYTE,   \* number of values of a byte
  LEN     \* the most words a buffer has; 10 in an IP header

\* A longer buffer could leave a carry after the two folds of ip_checksum.
ASSUME WordAssumption ==
  /\ BYTE \in Nat \ {0, 1}
  /\ WORD = BYTE * BYTE
  /\ LEN \in 1 .. (WORD - 1)

VARIABLES
  left,    \* words still to come
  sum,     \* ip_checksum: an unsigned long, wide enough for every carry
  csum,    \* udp_checksum: a __u16
  ones     \* the receiver's sum of the words so far

sumvars == <<left, sum, csum, ones>>

\* Seeded fault: the sums go on from those of the frame before.
StartSumGoesOn ==
  /\ left' = LEN
  /\ UNCHANGED <<sum, csum, ones>>

\* A frame is about to be sent; its buffer is at most LEN words long.
StartSum ==
  /\ left' = LEN
  /\ sum' = 0
  /\ csum' = 0
  /\ ones' = 0

\* Ones' complement addition: a carry out of the word is added at its end.
OnesAdd(x, y) == IF x + y >= WORD THEN x + y - WORD + 1 ELSE x + y

\* The additions of the two loops.
AddWord(w) ==
  /\ sum' = sum + w
  /\ csum' = (csum + w) % WORD

NextWord(w) ==
  /\ left > 0
  /\ AddWord(w)
  /\ ones' = OnesAdd(ones, w)
  /\ left' = left - 1

\* A single byte at the end of the buffer is the low byte of a last word.
LastByte(b) ==
  /\ left > 0
  /\ AddWord(b)
  /\ ones' = OnesAdd(ones, b)
  /\ left' = 0

\* The buffer ends after any number of words.
End == left > 0 /\ left' = 0 /\ UNCHANGED <<sum, csum, ones>>

SumNext ==
  \/ \E w \in 0 .. (WORD - 1) : NextWord(w)
  \/ \E b \in 0 .. (BYTE - 1) : LastByte(b)
  \/ End

-----------------------------------------------------------------------------
Not(x) == WORD - 1 - x

Fold(x) == (x % WORD) + (x \div WORD)

\* Seeded fault: the carry of the first fold is forgotten.
ip_checksumOneFold(s) == Not(Fold(s) % WORD)

ip_checksum(s) == Not(Fold(Fold(s)) % WORD)

\* The sum is complemented as it stands.
udp_checksum(c) == Not(c)

-----------------------------------------------------------------------------
\* Words stay words; the long sum holds every carry.
SumTypeOK ==
  /\ left \in 0 .. LEN
  /\ sum \in 0 .. (LEN * (WORD - 1))
  /\ csum \in 0 .. (WORD - 1)
  /\ ones \in 0 .. (WORD - 1)

\* The receiver adds the check field to its sum and wants all ones.
Accepted(check) == OnesAdd(ones, check) = WORD - 1

(* An IP header with the check field of ip_checksum (lb.c:57-74) passes    *)
(* the receiver's test, whatever carries its words produce.                *)
IpAccepted == left = 0 => Accepted(ip_checksum(sum))

(* A datagram with the check field of udp_checksum (lb.c:76-102) passes    *)
(* the receiver's test; a field of 0 says that there is no checksum.       *)
UdpAccepted ==
  left = 0 => udp_checksum(csum) = 0 \/ Accepted(udp_checksum(csum))
=============================================================================
