--------------------------- MODULE DropperProofs ---------------------------
(***************************************************************************)
(* Proofs about part A, for bytes of any width and numbers of any length:  *)
(* the conversions of client, filter and server fit together, so that the  *)
(* server prints odd numbers only.                                         *)
(*                                                                         *)
(* What a conversion computes is shown by induction over the bytes.  The   *)
(* induction is over a set of numbers (SetInduction), which follows from   *)
(* the fact that the natural numbers are well founded.                     *)
(***************************************************************************)
EXTENDS UdpDropper, WellFoundedInduction, TLAPS

(* Induction and recursion over the natural numbers. *)

LEMMA LeastNumber ==
  ASSUME NEW T \in SUBSET Nat, T # {}
  PROVE  \E n \in T : \A m \in T : n <= m
<1> DEFINE R == OpToRel(<, Nat)
<1>1. IsWellFoundedOn(R, Nat)
  BY NatLessThanWellFounded
<1>2. \A m, n \in Nat : m < n => <<m, n>> \in R
  BY DEF OpToRel
<1> HIDE DEF R
<1>3. PICK n \in T : \A m \in T : ~(<<m, n>> \in R)
  BY <1>1, WFMin
<1>4. \A m \in T : m \in Nat /\ n \in Nat /\ ~(m < n)
  BY <1>2, <1>3
<1> QED
  BY <1>4

LEMMA SetInduction ==
  ASSUME NEW S, 0 \in S, \A n \in Nat : n \in S => n + 1 \in S
  PROVE  Nat \subseteq S
<1> SUFFICES ASSUME Nat \ S # {} PROVE FALSE
  OBVIOUS
<1>1. PICK n \in Nat \ S : \A m \in Nat \ S : n <= m
  BY LeastNumber
<1>2. n # 0 /\ n - 1 \in Nat
  BY <1>1
<1>3. n - 1 \in S
  BY <1>1, <1>2
<1> QED
  BY <1>1, <1>2, <1>3

\* The values that F produces one from the other, the first of them x.
Chain(h, N, x, F) ==
  /\ h \in [0 .. N -> Nat]
  /\ h[0] = x
  /\ \A n \in 0 .. (N - 1) : h[n + 1] = F[n][h[n]]

LEMMA ChainExists ==
  ASSUME NEW x \in Nat, NEW F \in [Nat -> [Nat -> Nat]], NEW N \in Nat
  PROVE  \E h : Chain(h, N, x, F)
<1> DEFINE S == {M \in Nat : \E h : Chain(h, M, x, F)}
<1>1. 0 \in S
  <2>1. Chain([n \in 0 .. 0 |-> x], 0, x, F)
    BY DEF Chain
  <2> QED
    BY <2>1
<1>2. ASSUME NEW M \in Nat, M \in S PROVE M + 1 \in S
  <2>1. PICK h : Chain(h, M, x, F)
    BY <1>2
  <2> DEFINE g == [n \in 0 .. (M + 1) |-> IF n = M + 1 THEN F[M][h[M]] ELSE h[n]]
  <2>2. \A n \in 0 .. (M + 1) : g[n] = IF n = M + 1 THEN F[M][h[M]] ELSE h[n]
    OBVIOUS
  <2>3. g \in [0 .. (M + 1) -> Nat]
    <3>0. M \in 0 .. M
      OBVIOUS
    <3>1. h \in [0 .. M -> Nat]
      BY <2>1 DEF Chain
    <3>2. F[M][h[M]] \in Nat
      BY <3>0, <3>1
    <3>3. \A n \in 0 .. (M + 1) : n = M + 1 \/ n \in 0 .. M
      OBVIOUS
    <3> QED
      BY <3>1, <3>2, <3>3
  <2>4. g[0] = x
    BY <2>1, <2>2 DEF Chain
  <2> HIDE DEF g
  <2>5. ASSUME NEW n \in 0 .. M PROVE g[n + 1] = F[n][g[n]]
    <3>1. CASE n = M
      <4>1. g[M + 1] = F[M][h[M]] /\ g[M] = h[M]
        BY <2>2
      <4> QED
        BY <3>1, <4>1
    <3>2. CASE n # M
      <4>1. g[n + 1] = h[n + 1] /\ g[n] = h[n] /\ n \in 0 .. (M - 1)
        BY <2>2, <3>2
      <4> QED
        BY <2>1, <4>1 DEF Chain
    <3> QED
      BY <3>1, <3>2
  <2>6. Chain(g, M + 1, x, F)
    <3>1. (M + 1) - 1 = M
      OBVIOUS
    <3> QED
      BY <2>3, <2>4, <2>5, <3>1 DEF Chain
  <2> QED
    BY <2>6
<1> HIDE DEF S
<1>3. Nat \subseteq S
  BY <1>1, <1>2, SetInduction
<1> QED
  BY <1>3 DEF S

-----------------------------------------------------------------------------
(* The recursive functions of the model satisfy their equations. *)

LEMMA Sizes == BYTE \in Nat /\ BYTE > 1 /\ BYTES \in Nat /\ BYTES > 0
BY NumbersAssumption

\* A chain, seen from the later of two neighbours.
LEMMA ChainBack ==
  ASSUME NEW N \in Nat, NEW x, NEW F, NEW h, Chain(h, N, x, F),
         NEW n \in 0 .. N, n # 0
  PROVE  /\ n - 1 \in 0 .. (N - 1) /\ n - 1 \in Nat /\ h[n - 1] \in Nat
         /\ h[n] = F[n - 1][h[n - 1]]
<1>1. PICK j \in 0 .. (N - 1) : n = j + 1
  <2>1. n - 1 \in 0 .. (N - 1) /\ n = (n - 1) + 1
    OBVIOUS
  <2> QED
    BY <2>1
<1>2. h[j + 1] = F[j][h[j]]
  BY DEF Chain
<1>3. j \in 0 .. N /\ j \in Nat /\ n - 1 = j
  BY <1>1
<1>4. h[j] \in Nat
  BY <1>3 DEF Chain
<1> QED
  BY <1>1, <1>2, <1>3, <1>4

\* What a function over 0 .. N satisfies at 0 and from each n to n + 1.
LEMMA Everywhere ==
  ASSUME NEW N \in Nat, NEW S, 0 \in S,
         \A n \in 0 .. (N - 1) : n \in S => n + 1 \in S
  PROVE  \A n \in 0 .. N : n \in S
<1> DEFINE T == {n \in Nat : n \in 0 .. N => n \in S}
<1>1. 0 \in T
  OBVIOUS
<1>2. ASSUME NEW n \in Nat, n \in T PROVE n + 1 \in T
  <2> SUFFICES ASSUME n + 1 \in 0 .. N PROVE n + 1 \in S
    OBVIOUS
  <2>1. n \in 0 .. (N - 1) /\ n \in 0 .. N
    OBVIOUS
  <2> QED
    BY <1>2, <2>1
<1> HIDE DEF T
<1>3. Nat \subseteq T
  BY <1>1, <1>2, SetInduction
<1> QED
  BY <1>3 DEF T

LEMMA ValuesChain ==
  \E p \in [0 .. BYTES -> Nat] :
    /\ p[0] = 1 /\ VALUES = p[BYTES]
    /\ \A n \in 0 .. (BYTES - 1) : p[n + 1] = p[n] * BYTE
<1> DEFINE F == [n \in Nat |-> [x \in Nat |-> x * BYTE]]
           Eq(g) == g = [n \in 0 .. BYTES |-> IF n = 0 THEN 1 ELSE g[n - 1] * BYTE]
<1>1. F \in [Nat -> [Nat -> Nat]] /\ \A n, x \in Nat : F[n][x] = x * BYTE
  BY Sizes
<1> HIDE DEF F
<1>2. PICK h : Chain(h, BYTES, 1, F)
  BY <1>1, Sizes, ChainExists
<1>3. Eq(h)
  <2>1. ASSUME NEW n \in 0 .. BYTES, n # 0 PROVE h[n] = h[n - 1] * BYTE
    <3>1. /\ n - 1 \in Nat /\ h[n - 1] \in Nat
          /\ h[n] = F[n - 1][h[n - 1]]
      BY <1>2, <2>1, ChainBack, Sizes
    <3> QED
      BY <1>1, <3>1
  <2> QED
    BY <1>2, <2>1, Sizes DEF Chain
<1> DEFINE p == CHOOSE g : Eq(g)
<1>4. Eq(p)
  BY <1>3
<1>5. VALUES = p[BYTES]
  BY DEF VALUES
<1> HIDE DEF p
<1>6. p[0] = 1 /\ \A n \in 0 .. (BYTES - 1) : p[n + 1] = p[n] * BYTE
  BY <1>4, Sizes
<1>7. \A n \in 0 .. BYTES : p[n] \in Nat
  <2> DEFINE S == {n \in 0 .. BYTES : p[n] \in Nat}
  <2>1. 0 \in S
    BY <1>6, Sizes
  <2>2. \A n \in 0 .. (BYTES - 1) : n \in S => n + 1 \in S
    BY <1>6, Sizes
  <2> HIDE DEF S
  <2>3. \A n \in 0 .. BYTES : n \in S
    BY <2>1, <2>2, Everywhere, Sizes
  <2> QED
    BY <2>3 DEF S
<1>8. p \in [0 .. BYTES -> Nat]
  <2>1. p = [n \in 0 .. BYTES |-> p[n]]
    BY <1>4
  <2> QED
    BY <1>7, <2>1
<1> QED
  BY <1>5, <1>6, <1>8

\* high in Number: what the digits up to one offset amount to.
High(h, d) ==
  /\ h \in [0 .. BYTES -> Nat]
  /\ h[0] = 0
  /\ \A n \in 0 .. (BYTES - 1) : h[n + 1] = h[n] * BYTE + d[n]

LEMMA NumberChain ==
  ASSUME NEW d \in [Offset -> Byte]
  PROVE  \E h : High(h, d) /\ Number(d) = h[BYTES]
<1> DEFINE F == [n \in Nat |-> [x \in Nat |->
                   x * BYTE + (IF n \in Offset THEN d[n] ELSE 0)]]
           Eq(g) == g = [n \in 0 .. BYTES |->
                           IF n = 0 THEN 0 ELSE g[n - 1] * BYTE + d[n - 1]]
<1>0. \A n \in 0 .. (BYTES - 1) : n \in Nat /\ n \in Offset /\ d[n] \in Nat
  BY Sizes DEF Offset, Byte
<1>1. /\ F \in [Nat -> [Nat -> Nat]]
      /\ \A n \in Offset, x \in Nat : F[n][x] = x * BYTE + d[n]
  BY Sizes, <1>0 DEF Offset
<1> HIDE DEF F
<1>2. PICK h : Chain(h, BYTES, 0, F)
  BY <1>1, Sizes, ChainExists
<1>3. Eq(h)
  <2>1. ASSUME NEW n \in 0 .. BYTES, n # 0 PROVE h[n] = h[n - 1] * BYTE + d[n - 1]
    <3>1. /\ n - 1 \in 0 .. (BYTES - 1) /\ h[n - 1] \in Nat
          /\ h[n] = F[n - 1][h[n - 1]]
      BY <1>2, <2>1, ChainBack, Sizes
    <3> QED
      BY <1>0, <1>1, <3>1
  <2> QED
    BY <1>2, <2>1, Sizes DEF Chain
<1> DEFINE p == CHOOSE g : Eq(g)
<1>4. Eq(p)
  BY <1>3
<1>5. Number(d) = p[BYTES]
  BY DEF Number
<1> HIDE DEF p
<1>6. p[0] = 0 /\ \A n \in 0 .. (BYTES - 1) : p[n + 1] = p[n] * BYTE + d[n]
  BY <1>4, Sizes
<1>7. \A n \in 0 .. BYTES : p[n] \in Nat
  <2> DEFINE S == {n \in 0 .. BYTES : p[n] \in Nat}
  <2>1. 0 \in S
    BY <1>6, Sizes
  <2>2. \A n \in 0 .. (BYTES - 1) : n \in S => n + 1 \in S
    BY <1>0, <1>6, Sizes
  <2> HIDE DEF S
  <2>3. \A n \in 0 .. BYTES : n \in S
    BY <2>1, <2>2, Everywhere, Sizes
  <2> QED
    BY <2>3 DEF S
<1>8. p \in [0 .. BYTES -> Nat]
  <2>1. p = [n \in 0 .. BYTES |-> p[n]]
    BY <1>4
  <2> QED
    BY <1>7, <2>1
<1> QED
  BY <1>5, <1>6, <1>8 DEF High

\* rest in Digits: what is left of v after some of its digits are taken off.
Rest(r, v) ==
  /\ r \in [0 .. BYTES -> Nat]
  /\ r[0] = v
  /\ \A n \in 0 .. (BYTES - 1) : r[n + 1] = r[n] \div BYTE

LEMMA DigitsChain ==
  ASSUME NEW v \in Nat
  PROVE  \E r : /\ Rest(r, v)
                /\ Digits(v) = [k \in Offset |-> r[BYTES - 1 - k] % BYTE]
<1> DEFINE F == [n \in Nat |-> [x \in Nat |-> x \div BYTE]]
           Eq(g) == g = [n \in 0 .. BYTES |-> IF n = 0 THEN v ELSE g[n - 1] \div BYTE]
<1>0. \A x \in Nat : x \div BYTE \in Nat
  BY Sizes
<1>1. F \in [Nat -> [Nat -> Nat]] /\ \A n, x \in Nat : F[n][x] = x \div BYTE
  BY <1>0
<1> HIDE DEF F
<1>2. PICK h : Chain(h, BYTES, v, F)
  BY <1>1, Sizes, ChainExists
<1>3. Eq(h)
  <2>1. ASSUME NEW n \in 0 .. BYTES, n # 0 PROVE h[n] = h[n - 1] \div BYTE
    <3>1. /\ n - 1 \in Nat /\ h[n - 1] \in Nat
          /\ h[n] = F[n - 1][h[n - 1]]
      BY <1>2, <2>1, ChainBack, Sizes
    <3> QED
      BY <1>1, <3>1
  <2> QED
    BY <1>2, <2>1, Sizes DEF Chain
<1> DEFINE p == CHOOSE g : Eq(g)
<1>4. Eq(p)
  BY <1>3
<1>5. Digits(v) = [k \in Offset |-> p[BYTES - 1 - k] % BYTE]
  BY DEF Digits
<1> HIDE DEF p
<1>6. p[0] = v /\ \A n \in 0 .. (BYTES - 1) : p[n + 1] = p[n] \div BYTE
  BY <1>4, Sizes
<1>7. \A n \in 0 .. BYTES : p[n] \in Nat
  <2> DEFINE S == {n \in 0 .. BYTES : p[n] \in Nat}
  <2>1. 0 \in S
    BY <1>6, Sizes
  <2>2. \A n \in 0 .. (BYTES - 1) : n \in S => n + 1 \in S
    BY <1>0, <1>6, Sizes
  <2> HIDE DEF S
  <2>3. \A n \in 0 .. BYTES : n \in S
    BY <2>1, <2>2, Everywhere, Sizes
  <2> QED
    BY <2>3 DEF S
<1>8. p \in [0 .. BYTES -> Nat]
  <2>1. p = [n \in 0 .. BYTES |-> p[n]]
    BY <1>4
  <2> QED
    BY <1>7, <2>1
<1> QED
  BY <1>5, <1>6, <1>8 DEF Rest

-----------------------------------------------------------------------------
(* Numbers and their digits. *)

LEMMA TakeOff ==
  ASSUME NEW a \in Nat, NEW b \in Byte
  PROVE  (a * BYTE + b) \div BYTE = a /\ (a * BYTE + b) % BYTE = b
BY Sizes DEF Byte

LEMMA PutBack ==
  ASSUME NEW x \in Nat
  PROVE  /\ x \div BYTE \in Nat /\ x % BYTE \in Byte
         /\ (x \div BYTE) * BYTE + (x % BYTE) = x
BY Sizes DEF Byte

LEMMA Below ==
  ASSUME NEW a \in Nat, NEW b \in Byte, NEW p \in Nat
  PROVE  a < p <=> a * BYTE + b < p * BYTE
<1>1. \A x, y \in Nat : x <= y => x * BYTE <= y * BYTE
  BY Sizes
<1>2. CASE a < p
  <2>1. (a + 1) * BYTE <= p * BYTE
    BY <1>1, <1>2
  <2>2. (a + 1) * BYTE = a * BYTE + BYTE
    BY Sizes
  <2>3. a * BYTE \in Nat /\ p * BYTE \in Nat
    BY Sizes
  <2> QED
    BY <1>2, <2>1, <2>2, <2>3, Sizes DEF Byte
<1>3. CASE ~(a < p)
  <2>1. p * BYTE <= a * BYTE
    BY <1>1, <1>3
  <2>3. a * BYTE \in Nat /\ p * BYTE \in Nat
    BY Sizes
  <2> QED
    BY <1>3, <2>1, <2>3, Sizes DEF Byte
<1> QED
  BY <1>2, <1>3

\* BYTES bytes make a number that fits into BYTES bytes.
LEMMA NumberInRange ==
  ASSUME NEW d \in [Offset -> Byte]
  PROVE  Number(d) \in 0 .. (VALUES - 1) /\ Number(d) \in Nat
<1>1. PICK p \in [0 .. BYTES -> Nat] :
        /\ p[0] = 1 /\ VALUES = p[BYTES]
        /\ \A n \in 0 .. (BYTES - 1) : p[n + 1] = p[n] * BYTE
  BY ValuesChain
<1>2. PICK h : High(h, d) /\ Number(d) = h[BYTES]
  BY NumberChain
<1> DEFINE S == {n \in 0 .. BYTES : h[n] < p[n]}
<1>3. 0 \in S
  BY <1>1, <1>2, Sizes DEF High
<1>4. ASSUME NEW n \in 0 .. (BYTES - 1), n \in S PROVE n + 1 \in S
  <2>1. n + 1 \in 0 .. BYTES /\ n \in 0 .. BYTES /\ n \in Offset
    BY Sizes DEF Offset
  <2>2. h[n] \in Nat /\ p[n] \in Nat /\ d[n] \in Byte /\ h[n] < p[n]
    BY <1>1, <1>2, <1>4, <2>1 DEF High
  <2>3. h[n] * BYTE + d[n] < p[n] * BYTE
    BY <2>2, Below
  <2> QED
    BY <1>1, <1>2, <2>1, <2>3 DEF High
<1> HIDE DEF S
<1>5. \A n \in 0 .. BYTES : n \in S
  BY <1>3, <1>4, Everywhere, Sizes
<1>6. BYTES \in 0 .. BYTES
  BY Sizes
<1>7. h[BYTES] < p[BYTES] /\ h[BYTES] \in Nat /\ p[BYTES] \in Nat
  BY <1>1, <1>2, <1>5, <1>6 DEF S, High
<1> QED
  BY <1>1, <1>2, <1>7

LEMMA DigitsAreBytes ==
  ASSUME NEW v \in Nat
  PROVE  Digits(v) \in [Offset -> Byte]
<1>1. PICK r : Rest(r, v) /\ Digits(v) = [k \in Offset |-> r[BYTES - 1 - k] % BYTE]
  BY DigitsChain
<1>2. ASSUME NEW k \in Offset PROVE r[BYTES - 1 - k] % BYTE \in Byte
  <2>1. BYTES - 1 - k \in 0 .. BYTES
    BY Sizes DEF Offset
  <2>2. r[BYTES - 1 - k] \in Nat
    BY <1>1, <2>1 DEF Rest
  <2> QED
    BY <2>2, PutBack
<1> QED
  BY <1>1, <1>2

\* The digits of a number are those it was made of.
LEMMA DigitsOfNumber ==
  ASSUME NEW d \in [Offset -> Byte]
  PROVE  Digits(Number(d)) = d
<1>1. PICK h : High(h, d) /\ Number(d) = h[BYTES]
  BY NumberChain
<1>2. PICK r : /\ Rest(r, Number(d))
               /\ Digits(Number(d)) = [k \in Offset |-> r[BYTES - 1 - k] % BYTE]
  BY DigitsChain, NumberInRange
<1>3. ASSUME NEW n \in 0 .. (BYTES - 1), NEW j \in 0 .. (BYTES - 1), j = BYTES - 1 - n
      PROVE  /\ h[BYTES - n] = h[j] * BYTE + d[j]
             /\ h[BYTES - n] \div BYTE = h[j] /\ h[BYTES - n] % BYTE = d[j]
  <2>1. BYTES - n = j + 1 /\ j \in 0 .. BYTES /\ j \in Offset
    BY <1>3, Sizes DEF Offset
  <2>2. h[j] \in Nat /\ d[j] \in Byte /\ h[j + 1] = h[j] * BYTE + d[j]
    BY <1>1, <2>1 DEF High
  <2> QED
    BY <2>1, <2>2, TakeOff
<1> DEFINE S == {n \in 0 .. BYTES : r[n] = h[BYTES - n]}
<1>4. 0 \in S
  BY <1>1, <1>2, Sizes DEF Rest
<1>5. ASSUME NEW n \in 0 .. (BYTES - 1), n \in S PROVE n + 1 \in S
  <2>1. BYTES - 1 - n \in 0 .. (BYTES - 1) /\ n + 1 \in 0 .. BYTES
        /\ BYTES - (n + 1) = BYTES - 1 - n
    BY Sizes
  <2>2. h[BYTES - n] \div BYTE = h[BYTES - 1 - n]
    BY <1>3, <2>1
  <2>3. r[n + 1] = r[n] \div BYTE
    BY <1>2 DEF Rest
  <2> QED
    BY <1>5, <2>1, <2>2, <2>3
<1> HIDE DEF S
<1>6. \A n \in 0 .. BYTES : n \in S
  BY <1>4, <1>5, Everywhere, Sizes
<1>7. ASSUME NEW k \in Offset PROVE r[BYTES - 1 - k] % BYTE = d[k]
  <2>1. PICK n \in 0 .. (BYTES - 1) : n = BYTES - 1 - k
    BY Sizes DEF Offset
  <2>2. k \in 0 .. (BYTES - 1) /\ k = BYTES - 1 - n /\ n \in 0 .. BYTES
    BY <2>1, Sizes DEF Offset
  <2>3. r[n] = h[BYTES - n]
    BY <1>6, <2>2 DEF S
  <2>4. h[BYTES - n] % BYTE = d[k]
    BY <1>3, <2>2
  <2> QED
    BY <2>1, <2>3, <2>4
<1> QED
  BY <1>2, <1>7

\* The digits of a number that fits into BYTES bytes make that number.
LEMMA NumberOfDigits ==
  ASSUME NEW v \in 0 .. (VALUES - 1)
  PROVE  Number(Digits(v)) = v
<1>0. v \in Nat
  OBVIOUS
<1>1. PICK p \in [0 .. BYTES -> Nat] :
        /\ p[0] = 1 /\ VALUES = p[BYTES]
        /\ \A n \in 0 .. (BYTES - 1) : p[n + 1] = p[n] * BYTE
  BY ValuesChain
<1>2. PICK r : Rest(r, v) /\ Digits(v) = [k \in Offset |-> r[BYTES - 1 - k] % BYTE]
  BY <1>0, DigitsChain
<1>3. PICK h : High(h, Digits(v)) /\ Number(Digits(v)) = h[BYTES]
  BY <1>0, DigitsAreBytes, NumberChain
<1>4. r[BYTES] = 0
  <2> DEFINE S == {n \in 0 .. BYTES : r[n] < p[BYTES - n]}
  <2>1. 0 \in S
    <3>1. BYTES \in 0 .. BYTES /\ 0 \in 0 .. BYTES /\ BYTES - 0 = BYTES
      BY Sizes
    <3>2. r[0] < p[BYTES]
      BY <1>1, <1>2, <3>1 DEF Rest
    <3> QED
      BY <3>1, <3>2
  <2>2. ASSUME NEW n \in 0 .. (BYTES - 1), n \in S PROVE n + 1 \in S
    <3>1. PICK j \in 0 .. (BYTES - 1) : j = BYTES - 1 - n
      BY Sizes
    <3>2. /\ j \in 0 .. BYTES /\ n \in 0 .. BYTES /\ n + 1 \in 0 .. BYTES
          /\ BYTES - (n + 1) = j /\ BYTES - n = j + 1
      BY <3>1, Sizes
    <3>3. r[n] \in Nat /\ p[j] \in Nat /\ r[n] < p[j] * BYTE
      BY <1>1, <1>2, <2>2, <3>2 DEF Rest
    <3>4. /\ r[n] \div BYTE \in Nat /\ r[n] % BYTE \in Byte
          /\ (r[n] \div BYTE) * BYTE + (r[n] % BYTE) = r[n]
      BY <3>3, PutBack
    <3>5. r[n] \div BYTE < p[j]
      BY <3>3, <3>4, Below
    <3>6. r[n + 1] = r[n] \div BYTE
      BY <1>2 DEF Rest
    <3> QED
      BY <3>2, <3>5, <3>6
  <2> HIDE DEF S
  <2>3. \A n \in 0 .. BYTES : n \in S
    BY <2>1, <2>2, Everywhere, Sizes
  <2>4. BYTES \in 0 .. BYTES /\ BYTES - BYTES = 0
    BY Sizes
  <2>5. r[BYTES] < 1 /\ r[BYTES] \in Nat
    BY <1>1, <1>2, <2>3, <2>4 DEF S, Rest
  <2> QED
    BY <2>5
<1> DEFINE S == {n \in 0 .. BYTES : h[n] = r[BYTES - n]}
<1>5. 0 \in S
  <2>1. 0 \in 0 .. BYTES /\ BYTES - 0 = BYTES
    BY Sizes
  <2> QED
    BY <1>3, <1>4, <2>1 DEF High
<1>6. ASSUME NEW n \in 0 .. (BYTES - 1), n \in S PROVE n + 1 \in S
  <2>1. PICK j \in 0 .. (BYTES - 1) : j = BYTES - 1 - n
    BY Sizes
  <2>2. /\ j \in 0 .. BYTES /\ n \in Offset /\ n + 1 \in 0 .. BYTES
        /\ BYTES - (n + 1) = j /\ BYTES - n = j + 1
    BY <2>1, Sizes DEF Offset
  <2>3. r[j] \in Nat /\ r[j + 1] = r[j] \div BYTE
    BY <1>2, <2>2 DEF Rest
  <2>4. h[n + 1] = h[n] * BYTE + Digits(v)[n]
    BY <1>3 DEF High
  <2>5. Digits(v)[n] = r[j] % BYTE
    BY <1>2, <2>1, <2>2
  <2>6. h[n] = r[j] \div BYTE
    BY <1>6, <2>2, <2>3
  <2>7. h[n + 1] = r[j]
    BY <2>3, <2>4, <2>5, <2>6, PutBack
  <2> QED
    BY <2>2, <2>7
<1> HIDE DEF S
<1>7. \A n \in 0 .. BYTES : n \in S
  BY <1>5, <1>6, Everywhere, Sizes
<1>8. BYTES \in 0 .. BYTES /\ BYTES - BYTES = 0
  BY Sizes
<1> QED
  BY <1>2, <1>3, <1>7, <1>8 DEF S, Rest

-----------------------------------------------------------------------------
(* The three programs' conversions fit together. *)

LEMMA SwappedBytes ==
  ASSUME NEW b \in [Offset -> Byte]
  PROVE  Swapped(b) \in [Offset -> Byte] /\ Swapped(Swapped(b)) = b
<1>1. ASSUME NEW k \in Offset
      PROVE  BYTES - 1 - k \in Offset /\ BYTES - 1 - (BYTES - 1 - k) = k
  BY Sizes DEF Offset
<1>2. \A k \in Offset : Swapped(b)[k] = b[BYTES - 1 - k]
  BY DEF Swapped
<1>3. Swapped(b) \in [Offset -> Byte]
  BY <1>1 DEF Swapped
<1>4. ASSUME NEW k \in Offset PROVE Swapped(b)[BYTES - 1 - k] = b[k]
  BY <1>1, <1>2
<1>5. Swapped(Swapped(b)) = [k \in Offset |-> Swapped(b)[BYTES - 1 - k]]
  BY DEF Swapped
<1> QED
  BY <1>3, <1>4, <1>5

(* What udp_dropper reads with memcpy and __builtin_bswap64 is the number  *)
(* that the server's int.from_bytes reads, and what the client encodes     *)
(* with to_bytes is read as the same number: for bytes with any number of  *)
(* values, numbers of any length and every payload.                        *)
THEOREM ConversionsAgree ==
  /\ \A b \in [Offset -> Byte] : bswap64(load(b)) = from_bytes(b)
  /\ \A v \in 0 .. (VALUES - 1) : from_bytes(to_bytes(v)) = v
<1>1. ASSUME NEW b \in [Offset -> Byte] PROVE bswap64(load(b)) = from_bytes(b)
  <2>1. Swapped(b) \in [Offset -> Byte] /\ Swapped(Swapped(b)) = b
    BY SwappedBytes
  <2>2. Digits(Number(Swapped(b))) = Swapped(b)
    BY <2>1, DigitsOfNumber
  <2> QED
    BY <2>1, <2>2 DEF bswap64, load, from_bytes
<1>2. ASSUME NEW v \in 0 .. (VALUES - 1) PROVE from_bytes(to_bytes(v)) = v
  BY NumberOfDigits DEF from_bytes, to_bytes
<1> QED
  BY <1>1, <1>2

-----------------------------------------------------------------------------
(* The invariant of part A. *)

\* A message is another host's, or the client has sent its number.
SentBefore(m) == m \in Foreign \/ from_bytes(m.data) < i

DropperInv ==
  /\ TypeOK
  /\ \A m \in wire \cup passed : SentBefore(m)
  /\ \A m \in passed : ForSocket(m.frame) => Odd(from_bytes(m.data))
  /\ PrintsOdd

LEMMA LimitFits == VALUES \in Nat /\ LIMIT \in Nat /\ 1 <= LIMIT /\ LIMIT <= VALUES
<1>1. VALUES \in Nat
  BY ValuesChain, Sizes
<1> QED
  BY <1>1, NumbersAssumption

LEMMA ClientNumber ==
  ASSUME NEW v \in 1 .. (LIMIT - 1)
  PROVE  to_bytes(v) \in [Offset -> Byte] /\ from_bytes(to_bytes(v)) = v
<1>1. v \in Nat /\ v \in 0 .. (VALUES - 1)
  BY LimitFits
<1> QED
  BY <1>1, DigitsAreBytes, ConversionsAgree DEF to_bytes

LEMMA MessageFits ==
  ASSUME NEW m \in Message
  PROVE  /\ m.frame.options = 0
         /\ m.data \in [Offset -> Byte]
         /\ from_bytes(m.data) \in 0 .. (VALUES - 1)
<1>1. m.frame.options = 0 /\ m.data \in [Offset -> Byte]
  <2>1. CASE m \in Foreign
    BY <2>1, ForeignAssumption
  <2>2. CASE \E v \in 1 .. (LIMIT - 1) :
               m = [frame |-> Datagram(BYTES), data |-> to_bytes(v)]
    BY <2>2, ClientNumber DEF Datagram
  <2> QED
    BY <2>1, <2>2 DEF Message
<1> QED
  BY <1>1, NumberInRange DEF from_bytes

\* A frame for the server's socket that the filter lets through is odd.
LEMMA FilterPassesOdd ==
  ASSUME NEW m \in Message, udp_dropper(m) = "XDP_PASS", ForSocket(m.frame)
  PROVE  Odd(from_bytes(m.data))
<1>1. m.frame.options = 0 /\ m.data \in [Offset -> Byte]
  BY MessageFits
<1>2. parse(m.frame) \in {"XDP_ABORTED", "payload"}
  BY <1>1 DEF parse, ForSocket, dest
<1>3. bswap64(load(m.data)) % 2 = 1
  BY <1>2 DEF udp_dropper
<1>4. bswap64(load(m.data)) = from_bytes(m.data)
  BY <1>1, ConversionsAgree
<1> QED
  BY <1>3, <1>4 DEF Odd

LEMMA DropperInit == Init => DropperInv
BY LimitFits DEF Init, DropperInv, TypeOK, PrintsOdd, Message, SentBefore

LEMMA DropperNext == DropperInv /\ [Next]_vars => DropperInv'
<1> SUFFICES ASSUME DropperInv, [Next]_vars PROVE DropperInv'
  OBVIOUS
<1> USE DEF DropperInv
<1>1. CASE ClientSend
  <2> DEFINE new == [frame |-> Datagram(BYTES), data |-> to_bytes(i)]
  <2>1. i \in 1 .. (LIMIT - 1) /\ i' = i + 1 /\ i' \in 1 .. LIMIT
    BY <1>1, LimitFits DEF ClientSend, TypeOK
  <2>2. new \in Message /\ from_bytes(new.data) = i
    BY <2>1, ClientNumber DEF Message
  <2>3. wire' = wire \cup {new} /\ UNCHANGED <<strange, passed, printed>>
    BY <1>1 DEF ClientSend
  <2> HIDE DEF new
  <2>4. TypeOK'
    BY <2>1, <2>2, <2>3 DEF TypeOK, Message
  <2>5. \A m \in Message : from_bytes(m.data) \in Nat
    BY MessageFits, LimitFits
  <2>6. \A m \in (wire \cup passed)' : SentBefore(m)'
    <3>1. ASSUME NEW m \in wire \cup passed PROVE m \in Foreign \/ from_bytes(m.data) < i'
      BY <2>1, <2>5 DEF TypeOK, SentBefore
    <3>2. from_bytes(new.data) < i'
      BY <2>1, <2>2
    <3> QED
      BY <2>3, <3>1, <3>2 DEF SentBefore
  <2>7. PrintsOdd'
    <3>1. \A v \in printed : v \in Nat
      BY LimitFits DEF TypeOK
    <3>2. \A v \in printed : v < i => v < i'
      BY <2>1, <3>1
    <3> QED
      BY <2>3, <3>2 DEF PrintsOdd
  <2> QED
    BY <2>3, <2>4, <2>6, <2>7
<1>2. ASSUME NEW m \in strange, OthersSend(m) PROVE DropperInv'
  <2>1. /\ wire' = wire \cup {m} /\ strange' \subseteq strange /\ m \in Foreign
        /\ UNCHANGED <<i, passed, printed>>
    BY <1>2 DEF OthersSend, TypeOK
  <2>2. m \in Message
    BY <2>1 DEF Message
  <2>3. TypeOK'
    BY <2>1, <2>2 DEF TypeOK, Message
  <2>4. \A n \in (wire \cup passed)' : SentBefore(n)'
    BY <2>1 DEF SentBefore
  <2> QED
    BY <2>1, <2>3, <2>4 DEF PrintsOdd
<1>3. ASSUME NEW m \in wire, Filter(m) PROVE DropperInv'
  <2>1. /\ wire' \subseteq wire
        /\ passed' = IF udp_dropper(m) = "XDP_PASS" THEN passed \cup {m} ELSE passed
        /\ UNCHANGED <<i, strange, printed>>
    BY <1>3 DEF Filter
  <2>2. m \in Message
    BY DEF TypeOK
  <2>3. TypeOK'
    BY <2>1, <2>2 DEF TypeOK, Message
  <2>4. \A n \in (wire \cup passed)' : SentBefore(n)'
    BY <2>1 DEF SentBefore
  <2>5. \A n \in passed' : ForSocket(n.frame) => Odd(from_bytes(n.data))
    BY <2>1, <2>2, FilterPassesOdd
  <2> QED
    BY <2>1, <2>3, <2>4, <2>5 DEF PrintsOdd
<1>4. ASSUME NEW m \in passed, ServerRecv(m) PROVE DropperInv'
  <2>1. /\ passed' \subseteq passed
        /\ printed' = IF ForSocket(m.frame)
                      THEN printed \cup {from_bytes(m.data)} ELSE printed
        /\ UNCHANGED <<i, strange, wire>>
    BY <1>4 DEF ServerRecv
  <2>2. from_bytes(m.data) \in 0 .. (VALUES - 1)
    BY MessageFits DEF TypeOK
  <2>3. TypeOK'
    BY <2>1, <2>2 DEF TypeOK, Message
  <2>4. \A n \in (wire \cup passed)' : SentBefore(n)'
    BY <2>1 DEF SentBefore
  <2>5. SentBefore(m)
    OBVIOUS
  <2>6. PrintsOdd'
    BY <2>1, <2>5 DEF PrintsOdd, SentBefore
  <2> QED
    BY <2>1, <2>3, <2>4, <2>6
<1>5. CASE UNCHANGED vars
  BY <1>5 DEF vars, TypeOK, Message, PrintsOdd, SentBefore
<1> QED
  BY <1>1, <1>2, <1>3, <1>4, <1>5 DEF Next, Idle

(* Inductive invariant of part A: every frame under way to the server is   *)
(* well formed, and of those the filter has let through every one that     *)
(* will reach the server's socket carries an odd number.                   *)
THEOREM DropperInvariant == Spec => []DropperInv
BY DropperInit, DropperNext, PTL DEF Spec

(* The client's counter stays in its range and the server prints numbers   *)
(* of BYTES bytes only, whatever other hosts send.                         *)
THEOREM DropperTypeCorrect == Spec => []TypeOK
<1>1. DropperInv => TypeOK
  BY DEF DropperInv
<1> QED
  BY <1>1, DropperInvariant, PTL

(* The server prints odd numbers only, and of the client's only such as    *)
(* the client has sent: for every byte width, number length and range of   *)
(* the client, and any frames of other hosts.                              *)
THEOREM PrintsOddOnly == Spec => []PrintsOdd
<1>1. DropperInv => PrintsOdd
  BY DEF DropperInv
<1> QED
  BY <1>1, DropperInvariant, PTL
=============================================================================
