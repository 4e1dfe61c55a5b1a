------------------------------ MODULE LbFrames ------------------------------
(***************************************************************************)
(* The frame side of lb.c: which frames the program acts on and what the   *)
(* frames look like that it sends on, their lengths and checksums.  The    *)
(* maps are left out: whether a job waits and whether a backend is free is *)
(* arbitrary here.                                                         *)
(***************************************************************************)
EXTENDS XdpParse, Checksum

CONSTANTS
  Length,     \* lengths of the frames that arrive
  Options,    \* lengths of their IP options
  Grows       \* outcomes of bpf_xdp_adjust_tail

ASSUME FramesAssumption ==
  Length \subseteq Nat /\ Options \subseteq Nat /\ Grows \subseteq BOOLEAN

VARIABLES
  in,     \* the frame the program is run on
  out     \* its verdict, and the frame's lengths if it is sent

vars == <<in, out, sumvars>>

Verdict(v) == [action |-> v, len |-> 0, tot_len |-> 0, udp_len |-> 0]

\* send_to_backend() sets both length fields from the length of the frame.
Sent(len) ==
  [action |-> "XDP_TX", len |-> len, tot_len |-> len - ETH,
   udp_len |-> len - ETH - IP]

\* Seeded fault: the room for the job is not tested.
OnPingUntested(f) ==
  {Verdict("XDP_DROP"), Verdict("XDP_ABORTED")} \cup
  {Sent(IF g THEN f.len + 7 ELSE f.len) : g \in Grows}

\* A frame of one byte registers or completes.  If jobs wait and a backend is
\* free, it is grown by 7 bytes and sent if it then has room for a job.
OnPing(f) ==
  {Verdict("XDP_DROP"), Verdict("XDP_ABORTED")} \cup
  {LET len == IF g THEN f.len + 7 ELSE f.len
   IN  IF len < HEADERS + 8 THEN Verdict("XDP_ABORTED") ELSE Sent(len) :
     g \in Grows}

\* A frame of eight bytes is queued or sent as it is.
OnRequest(f) == {Verdict("XDP_ABORTED"), Sent(f.len)}

load_balancer(f) ==
  IF parse(f) # "payload" THEN {Verdict(parse(f))}
  ELSE IF payload_size(f) = 1 THEN OnPing(f)
  ELSE IF payload_size(f) = 8 THEN OnRequest(f)
  ELSE {Verdict("XDP_PASS")}

Init ==
  /\ in = Datagram(1)
  /\ out = Verdict("XDP_DROP")
  /\ left = 0 /\ sum = 0 /\ csum = 0 /\ ones = 0

\* The program runs on a frame that is not sent on.
Keep(f) ==
  /\ left = 0
  /\ in' = f
  /\ out' \in {v \in load_balancer(f) : v.action # "XDP_TX"}
  /\ UNCHANGED sumvars

\* The program runs on a frame that leaves again: its lengths are set and the
\* checksums begin.
SendOn(f) ==
  /\ left = 0
  /\ in' = f
  /\ out' \in {v \in load_balancer(f) : v.action = "XDP_TX"}
  /\ StartSum

\* The two loops go on.
Sum == SumNext /\ UNCHANGED <<in, out>>

Next ==
  \/ \E f \in Frame(Length, Options) : Keep(f) \/ SendOn(f)
  \/ Sum

Spec == Init /\ [][Next]_vars

-----------------------------------------------------------------------------
(* The destination port decides: a complete frame that is not a datagram   *)
(* to port 8080 is passed on untouched, and a ping or a job to that port   *)
(* is always taken.                                                        *)
PortDecides ==
  in.len >= HEADERS + in.options =>
    /\ ~ForSocket(in) => out.action = "XDP_PASS"
    /\ ForSocket(in) /\ in.len - HEADERS - in.options \in {1, 8}
         => out.action # "XDP_PASS"

(* Every frame that is sent, a grown ping as well as a forwarded request,  *)
(* is a job of eight bytes with length fields that fit it.                 *)
SentIsAJob ==
  out.action = "XDP_TX" =>
    /\ out.len = HEADERS + 8
    /\ out.tot_len = IP + UDP + 8
    /\ out.udp_len = UDP + 8
=============================================================================
