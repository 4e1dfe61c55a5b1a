------------------------------ MODULE XdpParse ------------------------------
(***************************************************************************)
(* The header parsing that opens both XDP programs.  A frame is what they  *)
(* look at: its length and three header fields; and the length of its IP   *)
(* options, which they do not look at.  With options in the way, the bytes *)
(* where they expect the destination port are others: those in shifted.    *)
(***************************************************************************)
EXTENDS Integers

ETH == 14     \* sizeof(struct ethhdr)
IP == 20      \* sizeof(struct iphdr)
UDP == 8      \* sizeof(struct udphdr)
HEADERS == ETH + IP + UDP

PORT == 8080  \* the port both programs and both servers use
Port == {PORT, 53}

\* The frames of the given lengths (len) and lengths of options.
Frame(len, options) ==
  [len : len, h_proto : {"ETH_P_IP", "ETH_P_ARP"}, options : options,
   protocol : {"IPPROTO_UDP", "IPPROTO_TCP"}, dest : Port, shifted : Port]

\* The frame a UDP socket sends for a payload of n bytes.
Datagram(n) ==
  [len |-> HEADERS + n, h_proto |-> "ETH_P_IP", options |-> 0,
   protocol |-> "IPPROTO_UDP", dest |-> PORT, shifted |-> PORT]

\* What the programs read as udph->dest.
dest(f) == IF f.options = 0 THEN f.dest ELSE f.shifted

payload_size(f) == f.len - HEADERS

\* Seeded fault: the protocol is not tested.
parseAnyProtocol(f) ==
  IF f.len < ETH THEN "XDP_ABORTED"
  ELSE IF f.h_proto # "ETH_P_IP" THEN "XDP_PASS"
  ELSE IF f.len < HEADERS THEN "XDP_ABORTED"
  ELSE IF dest(f) # PORT THEN "XDP_PASS"
  ELSE "payload"

\* The chain of early returns: the length is tested before each header.
parse(f) ==
  IF f.len < ETH THEN "XDP_ABORTED"
  ELSE IF f.h_proto # "ETH_P_IP" THEN "XDP_PASS"
  ELSE IF f.len < ETH + IP THEN "XDP_ABORTED"
  ELSE IF f.protocol # "IPPROTO_UDP" THEN "XDP_PASS"
  ELSE IF f.len < HEADERS THEN "XDP_ABORTED"
  ELSE IF dest(f) # PORT THEN "XDP_PASS"
  ELSE "payload"

\* Where the network stack delivers a complete frame (external).
ForSocket(f) ==
  /\ f.len >= HEADERS + f.options
  /\ f.h_proto = "ETH_P_IP"
  /\ f.protocol = "IPPROTO_UDP"
  /\ f.dest = PORT
=============================================================================
