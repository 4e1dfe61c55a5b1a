---------------------------- MODULE FrameProofs -----------------------------
(***************************************************************************)
(* Proofs about the frames lb.c acts on and sends on: for words of every   *)
(* width, buffers of every length the code can meet, and frames of every   *)
(* length, with or without IP options.                                     *)
(***************************************************************************)
EXTENDS LbFrames, TLAPS

-----------------------------------------------------------------------------
(* Arithmetic. *)

Word == 0 .. (WORD - 1)

LEMMA WordFacts ==
  /\ WORD \in Nat /\ WORD > 1
  /\ BYTE \in Nat /\ BYTE <= WORD
  /\ LEN \in Nat /\ LEN >= 1 /\ LEN <= WORD - 1
<1>1. BYTE \in Nat /\ BYTE >= 2 /\ WORD = BYTE * BYTE
  BY WordAssumption
<1>2. BYTE * BYTE \in Nat /\ BYTE <= BYTE * BYTE
  BY <1>1
<1>3. WORD \in Nat /\ WORD > 1 /\ BYTE <= WORD
  BY <1>1, <1>2
<1> QED
  BY <1>1, <1>3, WordAssumption

\* A product grows with its factors.
LEMMA ProductGrows ==
  ASSUME NEW x \in Nat, NEW y \in Nat, NEW z \in Nat, x <= y
  PROVE  z * x \in Nat /\ z * y \in Nat /\ z * x <= z * y
<1>1. z * y = z * x + z * (y - x)
  OBVIOUS
<1>2. z * (y - x) \in Nat /\ z * x \in Nat /\ z * y \in Nat
  OBVIOUS
<1> QED
  BY <1>1, <1>2

LEMMA OneLess ==
  ASSUME NEW m \in Nat, NEW n \in Nat, m < n, NEW z \in Nat
  PROVE  m * z \in Nat /\ n * z \in Nat /\ m * z + z <= n * z
<1>1. z * (m + 1) <= z * n
  BY ProductGrows
<1>2. z * (m + 1) = m * z + z /\ z * n = n * z /\ m * z \in Nat /\ n * z \in Nat
  OBVIOUS
<1> QED
  BY <1>1, <1>2

\* Quotient and remainder by WORD are what they should be, and unique.
LEMMA DivMod ==
  ASSUME NEW s \in Nat
  PROVE  /\ s \div WORD \in Nat /\ s % WORD \in Word
         /\ s = WORD * (s \div WORD) + (s % WORD)
BY WordFacts DEF Word

LEMMA DivModUnique ==
  ASSUME NEW q \in Nat, NEW r \in Word, NEW s \in Nat, s = WORD * q + r
  PROVE  s \div WORD = q /\ s % WORD = r
<1> DEFINE d == s \div WORD
           m == s % WORD
<1>1. d \in Nat /\ m \in Word /\ s = WORD * d + m
  BY DivMod
<1> HIDE DEF d, m
<1>2. ASSUME NEW x \in Nat, NEW y \in Nat, x < y, NEW v \in Word, NEW w \in Word
      PROVE  WORD * x + v # WORD * y + w
  <2>1. WORD * (x + 1) <= WORD * y /\ WORD * (x + 1) \in Nat /\ WORD * y \in Nat
    BY <1>2, ProductGrows, WordFacts
  <2>2. WORD * (x + 1) = WORD * x + WORD /\ WORD * x \in Nat
    BY WordFacts
  <2> QED
    BY <2>1, <2>2, WordFacts DEF Word
<1>3. d = q
  BY <1>1, <1>2
<1>4. WORD * q \in Nat
  BY WordFacts
<1> QED
  BY <1>1, <1>3, <1>4, WordFacts DEF Word, d, m

-----------------------------------------------------------------------------
(* The checksums. *)

\* The sum of a whole buffer leaves a quotient with room for one more carry.
LEMMA CarryBound ==
  ASSUME NEW s \in Nat, s <= LEN * (WORD - 1)
  PROVE  s \div WORD <= WORD - 2
<1> DEFINE a == s \div WORD
<1>1. a \in Nat /\ s % WORD \in Word /\ s = WORD * a + (s % WORD)
  BY DivMod
<1> HIDE DEF a
<1>2. SUFFICES ASSUME a >= WORD - 1 PROVE FALSE
  BY <1>1, WordFacts DEF a
<1>3. WORD * (WORD - 1) <= WORD * a /\ WORD * (WORD - 1) \in Nat /\ WORD * a \in Nat
  BY <1>1, <1>2, ProductGrows, WordFacts
<1>4. (WORD - 1) * LEN <= (WORD - 1) * (WORD - 1)
  BY ProductGrows, WordFacts
<1>5. (WORD - 1) * LEN = LEN * (WORD - 1)
      /\ WORD * (WORD - 1) = (WORD - 1) * (WORD - 1) + (WORD - 1)
      /\ (WORD - 1) * (WORD - 1) \in Nat /\ LEN * (WORD - 1) \in Nat
  BY WordFacts
<1> QED
  BY <1>1, <1>3, <1>4, <1>5, WordFacts DEF Word

\* The sum of words with end-around carry, from their plain sum.
EndAround(s) == OnesAdd(s \div WORD, s % WORD)

LEMMA OnesAddType ==
  ASSUME NEW x \in Word, NEW y \in Word
  PROVE  OnesAdd(x, y) \in Word
BY WordFacts DEF OnesAdd, Word

\* Adding a word before or after the carries are folded is the same.
LEMMA EndAroundStep ==
  ASSUME NEW s \in Nat, NEW w \in Word, s + w <= LEN * (WORD - 1)
  PROVE  EndAround(s + w) = OnesAdd(EndAround(s), w)
<1> DEFINE a == s \div WORD
           b == s % WORD
<1>1. a \in Nat /\ b \in Word /\ s = WORD * a + b /\ w \in Nat /\ s + w \in Nat
  BY DivMod, WordFacts DEF Word
<1>2. (s + w) \div WORD <= WORD - 2
  BY <1>1, CarryBound
<1> HIDE DEF a, b
<1>3. CASE b + w < WORD
  <2>1. b + w \in Word /\ s + w = WORD * a + (b + w)
    BY <1>1, <1>3, WordFacts DEF Word
  <2>2. (s + w) \div WORD = a /\ (s + w) % WORD = b + w
    BY <1>1, <2>1, DivModUnique
  <2>3. OnesAdd(a, b + w) = OnesAdd(OnesAdd(a, b), w)
    BY <1>1, <1>2, <1>3, <2>2, WordFacts DEF OnesAdd, Word
  <2> QED
    BY <2>2, <2>3 DEF EndAround, a, b
<1>4. CASE b + w >= WORD
  <2>1. b + w - WORD \in Word /\ s + w = WORD * (a + 1) + (b + w - WORD)
    <3>1. WORD * (a + 1) = WORD * a + WORD /\ WORD * a \in Nat
      BY <1>1, WordFacts
    <3> QED
      BY <1>1, <1>4, <3>1, WordFacts DEF Word
  <2>2. (s + w) \div WORD = a + 1 /\ (s + w) % WORD = b + w - WORD
    <3>1. a + 1 \in Nat
      BY <1>1
    <3> QED
      BY <1>1, <2>1, <3>1, DivModUnique
  <2>3. OnesAdd(a + 1, b + w - WORD) = OnesAdd(OnesAdd(a, b), w)
    BY <1>1, <1>2, <1>4, <2>2, WordFacts DEF OnesAdd, Word
  <2> QED
    BY <2>2, <2>3 DEF EndAround, a, b
<1> QED
  BY <1>1, <1>3, <1>4, WordFacts DEF Word

\* The two folds of ip_checksum are enough for every carry.
LEMMA TwoFolds ==
  ASSUME NEW s \in Nat, s <= LEN * (WORD - 1)
  PROVE  Fold(Fold(s)) = EndAround(s) /\ EndAround(s) \in Word
<1> DEFINE a == s \div WORD
           b == s % WORD
<1>1. a \in Nat /\ b \in Word /\ a <= WORD - 2
  BY DivMod, CarryBound
<1>2. Fold(s) = a + b
  <2>1. a + b = b + a
    BY <1>1 DEF Word
  <2> QED
    BY <2>1 DEF Fold
<1> HIDE DEF a, b
<1>3. EndAround(s) = OnesAdd(a, b) /\ EndAround(s) \in Word
  <2>1. EndAround(s) = OnesAdd(a, b)
    BY DEF EndAround, a, b
  <2>2. a \in Word
    BY <1>1, WordFacts DEF Word
  <2> QED
    BY <1>1, <2>1, <2>2, OnesAddType
<1>4. CASE a + b < WORD
  <2>1. a + b \in Word /\ a + b = WORD * 0 + (a + b) /\ a + b \in Nat
    BY <1>1, <1>4, WordFacts DEF Word
  <2>2. (a + b) \div WORD = 0 /\ (a + b) % WORD = a + b
    BY <2>1, DivModUnique
  <2>3. Fold(a + b) = a + b
    BY <2>1, <2>2 DEF Fold
  <2>4. OnesAdd(a, b) = a + b
    BY <1>1, <1>4, WordFacts DEF OnesAdd, Word
  <2> QED
    BY <1>2, <1>3, <2>3, <2>4
<1>5. CASE a + b >= WORD
  <2>1. a + b - WORD \in Word /\ a + b = WORD * 1 + (a + b - WORD) /\ a + b \in Nat
    BY <1>1, <1>5, WordFacts DEF Word
  <2>2. (a + b) \div WORD = 1 /\ (a + b) % WORD = a + b - WORD
    BY <2>1, DivModUnique
  <2>3. Fold(a + b) = a + b - WORD + 1
    BY <2>2 DEF Fold
  <2> QED
    BY <1>2, <1>3, <1>5, <2>3 DEF OnesAdd
<1> QED
  BY <1>1, <1>3, <1>4, <1>5, WordFacts DEF Word

\* There is room in the long sum for the words still to come, and the
\* receiver's sum is the long sum with its carries folded in.
SumInv ==
  /\ SumTypeOK
  /\ sum + left * (WORD - 1) <= LEN * (WORD - 1)
  /\ ones = EndAround(sum)

\* One more word, after which more or no words are to come.
LEMMA WordAdded ==
  ASSUME SumInv, left > 0, NEW w \in Word, AddWord(w), ones' = OnesAdd(ones, w),
         left' = left - 1 \/ left' = 0
  PROVE  SumInv'
<1> DEFINE z == WORD - 1
<1>1. /\ left \in Nat /\ left <= LEN /\ sum \in Nat /\ csum \in Nat /\ w \in Nat
      /\ z \in Nat /\ w <= z /\ sum + left * z <= LEN * z /\ LEN \in Nat
  BY WordFacts DEF SumInv, SumTypeOK, Word
<1>2. left' \in Nat /\ left' < left /\ sum' = sum + w /\ csum' = (csum + w) % WORD
  BY <1>1 DEF AddWord
<1> HIDE DEF z
<1>3. left' * z \in Nat /\ left * z \in Nat /\ left' * z + z <= left * z
  BY <1>1, <1>2, OneLess
<1>4. LEN * z \in Nat
  BY <1>1
<1>5. sum' + left' * z <= LEN * z /\ sum + w <= LEN * z
  <2>1. ASSUME NEW x \in Nat, NEW y \in Nat, NEW v \in Nat, y + z <= x, sum + x <= v
        PROVE  sum' + y <= v /\ sum + w <= v
    BY <1>1, <1>2, <2>1
  <2> QED
    BY <1>1, <1>3, <1>4, <2>1
<1>6. ones' = EndAround(sum')
  BY <1>1, <1>2, <1>5, EndAroundStep DEF SumInv, z
<1>7. csum' \in Word
  BY <1>1, <1>2, WordFacts DEF Word
<1>8. ones' \in Word
  <2>1. sum' \in Nat /\ sum' <= LEN * (WORD - 1)
    BY <1>1, <1>2, <1>5 DEF z
  <2> QED
    BY <1>6, <2>1, TwoFolds
<1>9. left' \in 0 .. LEN /\ sum' \in 0 .. (LEN * z)
  BY <1>1, <1>2, <1>4, <1>5
<1> QED
  BY <1>5, <1>6, <1>7, <1>8, <1>9 DEF SumInv, SumTypeOK, Word, z

LEMMA EmptySum ==
  ASSUME NEW n \in 0 .. LEN
  PROVE  /\ 0 + n * (WORD - 1) <= LEN * (WORD - 1)
         /\ 0 = EndAround(0) /\ 0 \in Word /\ 0 \in 0 .. (LEN * (WORD - 1))
<1>1. n \in Nat /\ n <= LEN
  BY WordFacts
<1>2. (WORD - 1) * n <= (WORD - 1) * LEN /\ (WORD - 1) * n = n * (WORD - 1)
      /\ (WORD - 1) * LEN = LEN * (WORD - 1) /\ LEN * (WORD - 1) \in Nat
      /\ n * (WORD - 1) \in Nat
  BY <1>1, ProductGrows, WordFacts
<1>3. 0 = WORD * 0 + 0 /\ 0 \in Word
  BY WordFacts DEF Word
<1>4. 0 \div WORD = 0 /\ 0 % WORD = 0
  BY <1>3, DivModUnique
<1>5. EndAround(0) = 0
  BY <1>4, WordFacts DEF EndAround, OnesAdd
<1> QED
  BY <1>2, <1>3, <1>5

LEMMA SumStep ==
  ASSUME SumInv, [Next]_vars
  PROVE  SumInv'
<1>1. CASE UNCHANGED sumvars
  BY <1>1 DEF sumvars, SumInv, SumTypeOK, EndAround
<1>2. CASE StartSum
  <2>1. LEN \in 0 .. LEN
    BY WordFacts
  <2> QED
    BY <1>2, <2>1, EmptySum DEF StartSum, SumInv, SumTypeOK, Word
<1>3. ASSUME NEW w \in Word, NextWord(w) PROVE SumInv'
  BY <1>3, WordAdded DEF NextWord
<1>4. ASSUME NEW b \in 0 .. (BYTE - 1), LastByte(b) PROVE SumInv'
  <2>1. b \in Word
    BY WordFacts DEF Word
  <2> QED
    BY <1>4, <2>1, WordAdded DEF LastByte
<1>5. CASE End
  <2>1. left * (WORD - 1) \in Nat /\ 0 * (WORD - 1) = 0 /\ sum \in Nat
        /\ LEN * (WORD - 1) \in Nat
    BY WordFacts DEF SumInv, SumTypeOK
  <2>2. left' = 0 /\ sum' = sum /\ csum' = csum /\ ones' = ones
    BY <1>5 DEF End
  <2> QED
    BY <2>1, <2>2, WordFacts DEF SumInv, SumTypeOK
<1> QED
  BY <1>1, <1>2, <1>3, <1>4, <1>5
     DEF Next, Keep, SendOn, Sum, SumNext, vars, sumvars, Word

LEMMA SumStart ==
  ASSUME Init
  PROVE  SumInv
<1>1. 0 \in 0 .. LEN
  BY WordFacts
<1> QED
  BY <1>1, EmptySum DEF Init, SumInv, SumTypeOK, Word

(* The words of both loops stay words, and the long sum of ip_checksum     *)
(* stays below the limit from which two folds would not be enough.         *)
THEOREM SumTypeCorrect == Spec => []SumTypeOK
<1>1. SumInv => SumTypeOK
  BY DEF SumInv
<1> QED
  BY <1>1, SumStart, SumStep, PTL DEF Spec

(* For words of every width and every header of at most LEN words, the     *)
(* check field of ip_checksum passes the receiver's test: folding the      *)
(* carries twice at the end is the same as adding each at once.            *)
THEOREM IpAlwaysAccepted == Spec => []IpAccepted
<1>1. ASSUME SumInv PROVE IpAccepted
  <2>1. sum \in Nat /\ sum <= LEN * (WORD - 1) /\ ones = EndAround(sum)
    BY <1>1, WordFacts DEF SumInv, SumTypeOK
  <2>2. Fold(Fold(sum)) = ones /\ ones \in Word
    BY <2>1, TwoFolds
  <2>3. ones \in Nat /\ ones = WORD * 0 + ones
    BY <2>2, WordFacts DEF Word
  <2>4. ones % WORD = ones
    BY <2>2, <2>3, DivModUnique
  <2>5. ip_checksum(sum) = WORD - 1 - ones
    BY <2>2, <2>4 DEF ip_checksum, Not
  <2> QED
    BY <2>2, <2>5, WordFacts DEF IpAccepted, Accepted, OnesAdd, Word
<1> QED
  BY <1>1, SumStart, SumStep, PTL DEF Spec

-----------------------------------------------------------------------------
(* The frames. *)

\* The frame that was looked at last got a verdict of load_balancer().
Judged ==
  /\ in.len \in Nat /\ in.options \in Nat
  /\ out \in load_balancer(in) \/ (in = Datagram(1) /\ out = Verdict("XDP_DROP"))

LEMMA JudgedStart == ASSUME Init PROVE Judged
BY DEF Init, Judged, Datagram, HEADERS, ETH, IP, UDP

LEMMA JudgedStep == ASSUME Judged, [Next]_vars PROVE Judged'
<1>1. CASE UNCHANGED <<in, out>>
  BY <1>1 DEF Judged
<1>2. ASSUME NEW f \in Frame(Length, Options), Keep(f) \/ SendOn(f) PROVE Judged'
  <2>1. f.len \in Nat /\ f.options \in Nat
    BY FramesAssumption DEF Frame
  <2>2. in' = f /\ out' \in load_balancer(f)
    BY <1>2 DEF Keep, SendOn
  <2> QED
    BY <2>1, <2>2 DEF Judged
<1> QED
  BY <1>1, <1>2 DEF Next, Sum, vars

\* What each kind of frame can come to.
LEMMA VerdictFacts ==
  ASSUME NEW f, f.len \in Nat, NEW v \in load_balancer(f)
  PROVE  /\ v.action = "XDP_TX" =>
              /\ parse(f) = "payload"
              /\ \/ payload_size(f) = 1 /\ v = Sent(f.len + 7)
                 \/ payload_size(f) = 8 /\ v = Sent(f.len)
         /\ parse(f) # "payload" => v.action = parse(f)
         /\ parse(f) = "payload" /\ payload_size(f) \in {1, 8} => v.action # "XDP_PASS"
<1>1. \A x : Verdict(x).action = x
  BY DEF Verdict
<1>2. \A x : Sent(x).action = "XDP_TX"
  BY DEF Sent
<1>3. parse(f) # "XDP_TX"
  BY DEF parse
<1>4. CASE parse(f) # "payload"
  BY <1>1, <1>3, <1>4 DEF load_balancer
<1>5. CASE parse(f) = "payload" /\ payload_size(f) = 1
  <2>1. v \in OnPing(f) /\ f.len = HEADERS + 1
    BY <1>5 DEF load_balancer, payload_size, HEADERS, ETH, IP, UDP
  <2>2. \/ v \in {Verdict("XDP_DROP"), Verdict("XDP_ABORTED")}
        \/ v = Sent(f.len + 7)
    <3>1. f.len < HEADERS + 8
      BY <2>1 DEF HEADERS, ETH, IP, UDP
    <3> QED
      BY <2>1, <3>1 DEF OnPing
  <2> QED
    BY <1>1, <1>2, <1>5, <2>2
<1>6. CASE parse(f) = "payload" /\ payload_size(f) = 8
  BY <1>1, <1>2, <1>6 DEF load_balancer, OnRequest
<1>7. CASE parse(f) = "payload" /\ payload_size(f) \notin {1, 8}
  BY <1>1, <1>7 DEF load_balancer
<1> QED
  BY <1>4, <1>5, <1>6, <1>7

(* Whatever frames arrive and whether or not a ping's frame can be grown,  *)
(* lb.c sends nothing but complete jobs of eight bytes whose IP and UDP    *)
(* length fields fit them.                                                 *)
THEOREM SentIsAlwaysAJob == Spec => []SentIsAJob
<1>1. ASSUME Judged PROVE SentIsAJob
  <2>1. SUFFICES ASSUME out.action = "XDP_TX"
                 PROVE  /\ out.len = HEADERS + 8
                        /\ out.tot_len = IP + UDP + 8
                        /\ out.udp_len = UDP + 8
    BY DEF SentIsAJob
  <2>2. out \in load_balancer(in)
    BY <1>1, <2>1 DEF Judged, Verdict
  <2>3. \/ payload_size(in) = 1 /\ out = Sent(in.len + 7)
        \/ payload_size(in) = 8 /\ out = Sent(in.len)
    BY <1>1, <2>1, <2>2, VerdictFacts DEF Judged
  <2>4. out = Sent(HEADERS + 8)
    BY <1>1, <2>3 DEF Judged, payload_size, HEADERS, ETH, IP, UDP
  <2> QED
    BY <2>4 DEF Sent, HEADERS, ETH, IP, UDP
<1> QED
  BY <1>1, JudgedStart, JudgedStep, PTL DEF Spec

(* For frames of every length without IP options, which are all that the   *)
(* hosts of the deployment send: the destination port alone decides        *)
(* whether a complete frame is passed on or taken.                         *)
THEOREM PortAlwaysDecides == Spec => [](in.options = 0 => PortDecides)
<1>1. ASSUME Judged PROVE in.options = 0 => PortDecides
  <2>1. SUFFICES ASSUME in.options = 0, in.len >= HEADERS
                 PROVE  /\ ~ForSocket(in) => out.action = "XDP_PASS"
                        /\ ForSocket(in) /\ payload_size(in) \in {1, 8} =>
                             out.action # "XDP_PASS"
    BY <1>1 DEF PortDecides, payload_size, Judged, HEADERS, ETH, IP, UDP
  <2>2. /\ ForSocket(in) => parse(in) = "payload"
        /\ ~ForSocket(in) => parse(in) = "XDP_PASS"
    BY <1>1, <2>1 DEF Judged, ForSocket, parse, dest, HEADERS, ETH, IP, UDP
  <2>3. CASE out \in load_balancer(in)
    BY <1>1, <2>2, <2>3, VerdictFacts DEF Judged
  <2>4. CASE in = Datagram(1) /\ out = Verdict("XDP_DROP")
    <3>1. ForSocket(in) /\ out.action = "XDP_DROP"
      BY <2>4 DEF Datagram, ForSocket, Verdict, HEADERS, ETH, IP, UDP
    <3> QED
      BY <3>1
  <2> QED
    BY <1>1, <2>3, <2>4 DEF Judged
<1> QED
  BY <1>1, JudgedStart, JudgedStep, PTL DEF Spec
=============================================================================
