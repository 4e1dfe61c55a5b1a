---------------------------- MODULE MCUdpDropper ----------------------------
EXTENDS UdpDropper

LOCAL Twelve == [frame |-> Datagram(BYTES), data |-> to_bytes(12)]

\* An even number to another port and in a TCP segment, a datagram with one
\* byte too few, and an odd number.
SomeForeign ==
  {[Twelve EXCEPT !.frame.protocol = "IPPROTO_TCP"],
   [Twelve EXCEPT !.frame.dest = 53],
   [Twelve EXCEPT !.frame.len = @ - 1],
   [Twelve EXCEPT !.data = to_bytes(13)]}
=============================================================================
