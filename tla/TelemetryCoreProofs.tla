------------------------ MODULE TelemetryCoreProofs ------------------------
(***************************************************************************)
(* Proofs about Dictionary, Crc16 and TelemetryCore: the hash table under  *)
(* concurrent calls of install and lookup, the check sum, and what reaches *)
(* an attached variable.  Any topics and types, any plan of attach calls,  *)
(* any hash function and any memory; two tasks attach, as in the source.   *)
(***************************************************************************)
EXTENDS TelemetryCore, FiniteSetTheorems, SequenceTheorems,
        WellFoundedInduction, TLAPS

(* Induction, stated with sets: the provers cannot instantiate a theorem   *)
(* about predicates.                                                       *)

\* The least number principle, for sets instead of predicates.
LEMMA LeastNatural ==
  ASSUME NEW S \in SUBSET Nat, S # {}
  PROVE  \E m \in S : \A k \in S : m <= k
<1>. DEFINE less == {ss \in Nat \X Nat : ss[1] < ss[2]}
<1>1. IsWellFoundedOn(less, Nat)
  BY NatLessThanWellFounded, Zenon DEF OpToRel
<1>2. PICK m \in S : \A k \in S : <<k, m>> \notin less
  <2>. HIDE DEF less
  <2>. QED  BY <1>1, WFMin
<1>3. ASSUME NEW k \in S  PROVE m <= k
  <2>. DEFINE pair == <<k, m>>
  <2>1. m \in Nat /\ k \in Nat /\ pair \in Nat \X Nat
    OBVIOUS
  <2>2. pair[1] = k /\ pair[2] = m
    OBVIOUS
  <2>3. pair \notin less
    BY <1>2
  <2>. HIDE DEF pair
  <2>4. ~(pair[1] < pair[2])
    BY <2>1, <2>3
  <2>. QED  BY <2>1, <2>2, <2>4
<1>. QED  BY <1>3

\* A set of numbers that begins with 0 and goes on is all of them.
LEMMA Induction ==
  ASSUME NEW S, 0 \in S, \A n \in Nat : n \in S => n + 1 \in S
  PROVE  Nat \subseteq S
<1>. SUFFICES ASSUME Nat \ S # {}  PROVE FALSE
  OBVIOUS
<1>1. PICK m \in Nat \ S : \A k \in Nat \ S : m <= k
  BY LeastNatural
<1>2. m # 0 /\ m - 1 \in Nat
  BY <1>1
<1>3. m - 1 \in S
  BY <1>1, <1>2
<1>. QED  BY <1>1, <1>2, <1>3

\* f[0] .. f[n]: first, and what the steps make of it one after the other.
Iterates(f, n, S, first, step) ==
  /\ f \in [0..n -> S]
  /\ f[0] = first
  /\ \A i \in 1..n : f[i] = step[i][f[i - 1]]

\* What a function defined by recursion up to n needs: there is such an f.
LEMMA Iteration ==
  ASSUME NEW S, NEW n \in Nat, NEW step \in [1..n -> [S -> S]], NEW first \in S
  PROVE  \E f : Iterates(f, n, S, first, step)
<1>. DEFINE G == {m \in Nat : m <= n => \E f : Iterates(f, m, S, first, step)}
<1>1. Iterates([i \in 0..0 |-> first], 0, S, first, step)
  BY DEF Iterates
<1>2. ASSUME NEW m \in Nat, NEW f, Iterates(f, m, S, first, step), m + 1 <= n
      PROVE  \E g : Iterates(g, m + 1, S, first, step)
  <2>. DEFINE g == [i \in 0..(m + 1) |-> IF i = m + 1 THEN step[i][f[m]] ELSE f[i]]
  <2>1. f[m] \in S /\ m + 1 \in 1..n
    BY <1>2 DEF Iterates
  <2>2. step[m + 1] \in [S -> S]
    BY <2>1
  <2>3. g \in [0..(m + 1) -> S]
    BY <1>2, <2>1, <2>2 DEF Iterates
  <2>4. g[0] = first /\ \A i \in 1..(m + 1) : g[i] = step[i][g[i - 1]]
    BY <1>2, <2>1 DEF Iterates
  <2>5. Iterates(g, m + 1, S, first, step)
    BY <2>3, <2>4 DEF Iterates
  <2>. QED  BY <2>5
<1>3. 0 \in G /\ \A m \in Nat : m \in G => m + 1 \in G
  BY <1>1, <1>2
<1>4. n \in G
  <2>. HIDE DEF G
  <2>. QED  BY <1>3, Induction
<1>. QED  BY <1>4

-----------------------------------------------------------------------------
(* The check sum.                                                          *)

\* A byte is the sum of its bits.
LEMMA ByteIsItsBits ==
  ASSUME NEW x \in Bytes
  PROVE  /\ \A i \in 0..7 : Bit(x, i) \in {0, 1}
         /\ x = Bit(x, 0) + 2 * Bit(x, 1) + 4 * Bit(x, 2) + 8 * Bit(x, 3)
                + 16 * Bit(x, 4) + 32 * Bit(x, 5) + 64 * Bit(x, 6) + 128 * Bit(x, 7)
<1>1. \A i \in 0..7 : i \in {0, 1, 2, 3, 4, 5, 6, 7}
  OBVIOUS
<1>2. /\ Bit(x, 0) \in {0, 1} /\ Bit(x, 1) \in {0, 1} /\ Bit(x, 2) \in {0, 1}
      /\ Bit(x, 3) \in {0, 1} /\ Bit(x, 4) \in {0, 1} /\ Bit(x, 5) \in {0, 1}
      /\ Bit(x, 6) \in {0, 1} /\ Bit(x, 7) \in {0, 1}
  BY DEF Bytes, Bit
<1>3. x = Bit(x, 0) + 2 * Bit(x, 1) + 4 * Bit(x, 2) + 8 * Bit(x, 3)
                + 16 * Bit(x, 4) + 32 * Bit(x, 5) + 64 * Bit(x, 6) + 128 * Bit(x, 7)
  BY DEF Bytes, Bit
<1>. QED  BY <1>1, <1>2, <1>3

\* The sum of eight bits is a byte.
LEMMA SumOfBits ==
  ASSUME NEW a0 \in 0..1, NEW a1 \in 0..1, NEW a2 \in 0..1, NEW a3 \in 0..1,
         NEW a4 \in 0..1, NEW a5 \in 0..1, NEW a6 \in 0..1, NEW a7 \in 0..1
  PROVE  a0 + 2 * a1 + 4 * a2 + 8 * a3 + 16 * a4 + 32 * a5 + 64 * a6 + 128 * a7
           \in Bytes
BY DEF Bytes

LEMMA LowestBit ==
  ASSUME NEW a \in {0, 1}, NEW b \in {0, 1}, NEW r \in Int, NEW s \in Int,
         a + 2 * r = b + 2 * s
  PROVE  a = b /\ r = s
OBVIOUS

\* Eight bits are known from their sum.
LEMMA SameSumSameBits ==
  ASSUME NEW a \in [0..7 -> {0, 1}], NEW b \in [0..7 -> {0, 1}],
         a[0] + 2 * a[1] + 4 * a[2] + 8 * a[3] + 16 * a[4] + 32 * a[5] + 64 * a[6] + 128 * a[7]
           = b[0] + 2 * b[1] + 4 * b[2] + 8 * b[3] + 16 * b[4] + 32 * b[5] + 64 * b[6] + 128 * b[7]
  PROVE  a = b
<1>bits. /\ a[0] \in {0, 1} /\ a[1] \in {0, 1} /\ a[2] \in {0, 1} /\ a[3] \in {0, 1}
      /\ a[4] \in {0, 1} /\ a[5] \in {0, 1} /\ a[6] \in {0, 1} /\ a[7] \in {0, 1}
      /\ b[0] \in {0, 1} /\ b[1] \in {0, 1} /\ b[2] \in {0, 1} /\ b[3] \in {0, 1}
      /\ b[4] \in {0, 1} /\ b[5] \in {0, 1} /\ b[6] \in {0, 1} /\ b[7] \in {0, 1}
  OBVIOUS
<1>ints. /\ a[0] \in Int /\ a[1] \in Int /\ a[2] \in Int /\ a[3] \in Int
      /\ a[4] \in Int /\ a[5] \in Int /\ a[6] \in Int /\ a[7] \in Int
      /\ b[0] \in Int /\ b[1] \in Int /\ b[2] \in Int /\ b[3] \in Int
      /\ b[4] \in Int /\ b[5] \in Int /\ b[6] \in Int /\ b[7] \in Int
  OBVIOUS
<1>1. a[0] = b[0] /\ a[1] + 2 * a[2] + 4 * a[3] + 8 * a[4] + 16 * a[5] + 32 * a[6] + 64 * a[7]
                = b[1] + 2 * b[2] + 4 * b[3] + 8 * b[4] + 16 * b[5] + 32 * b[6] + 64 * b[7]
  <2>. DEFINE r == a[1] + 2 * a[2] + 4 * a[3] + 8 * a[4] + 16 * a[5] + 32 * a[6] + 64 * a[7]
              t == b[1] + 2 * b[2] + 4 * b[3] + 8 * b[4] + 16 * b[5] + 32 * b[6] + 64 * b[7]
  <2>1. r \in Int /\ t \in Int
    <3>1. a[1] + 2 * a[2] + 4 * a[3] \in Int
      BY <1>ints
    <3>2. a[1] + 2 * a[2] + 4 * a[3] + 8 * a[4] + 16 * a[5] \in Int
      BY <1>ints, <3>1
    <3>3. a[1] + 2 * a[2] + 4 * a[3] + 8 * a[4] + 16 * a[5] + 32 * a[6] + 64 * a[7] \in Int
      BY <1>ints, <3>2
    <3>4. b[1] + 2 * b[2] + 4 * b[3] \in Int
      BY <1>ints
    <3>5. b[1] + 2 * b[2] + 4 * b[3] + 8 * b[4] + 16 * b[5] \in Int
      BY <1>ints, <3>4
    <3>6. b[1] + 2 * b[2] + 4 * b[3] + 8 * b[4] + 16 * b[5] + 32 * b[6] + 64 * b[7] \in Int
      BY <1>ints, <3>5
    <3>. QED  BY <3>3, <3>6
  <2>2. a[0] + 2 * r = b[0] + 2 * t
    BY <1>ints
  <2>3. a[0] \in {0, 1} /\ b[0] \in {0, 1}
    BY <1>bits
  <2>. HIDE DEF r, t
  <2>4. a[0] = b[0] /\ r = t
    BY <2>1, <2>2, <2>3, LowestBit
  <2>. QED  BY <2>4 DEF r, t
<1>2. a[1] = b[1] /\ a[2] + 2 * a[3] + 4 * a[4] + 8 * a[5] + 16 * a[6] + 32 * a[7]
                = b[2] + 2 * b[3] + 4 * b[4] + 8 * b[5] + 16 * b[6] + 32 * b[7]
  BY <1>bits, <1>1, LowestBit
<1>3. a[2] = b[2] /\ a[3] + 2 * a[4] + 4 * a[5] + 8 * a[6] + 16 * a[7]
                = b[3] + 2 * b[4] + 4 * b[5] + 8 * b[6] + 16 * b[7]
  BY <1>bits, <1>2, LowestBit
<1>4. a[3] = b[3] /\ a[4] + 2 * a[5] + 4 * a[6] + 8 * a[7]
                = b[4] + 2 * b[5] + 4 * b[6] + 8 * b[7]
  BY <1>bits, <1>3, LowestBit
<1>5. a[4] = b[4] /\ a[5] + 2 * a[6] + 4 * a[7]
                = b[5] + 2 * b[6] + 4 * b[7]
  BY <1>bits, <1>4, LowestBit
<1>6. a[5] = b[5] /\ a[6] + 2 * a[7]
                = b[6] + 2 * b[7]
  BY <1>bits, <1>5, LowestBit
<1>7. a[6] = b[6] /\ a[7] = b[7]
  BY <1>bits, <1>6, LowestBit
<1>8. \A i \in 0..7 : i \in {0, 1, 2, 3, 4, 5, 6, 7}
  OBVIOUS
<1>. QED  BY <1>1, <1>2, <1>3, <1>4, <1>5, <1>6, <1>7, <1>8

LEMMA ParityOfSum ==
  ASSUME NEW a \in {0, 1}, NEW b \in {0, 1}, NEW c \in {0, 1}
  PROVE  /\ (a + b) % 2 \in {0, 1}
         /\ (a + b) % 2 = (a + c) % 2 => b = c
         /\ (b + a) % 2 = (c + a) % 2 => b = c
OBVIOUS

\* Inverting bit 5 or bit 12 keeps the lowest bit and loses nothing.
LEMMA FlipInjective ==
  ASSUME NEW r \in Remainders, NEW s \in Remainders
  PROVE  /\ Flip(r, 5) \in Remainders /\ Flip(r, 12) \in Remainders
         /\ Flip(r, 5) % 2 = r % 2 /\ Flip(r, 12) % 2 = r % 2
         /\ Flip(r, 5) = Flip(s, 5) => r = s
         /\ Flip(r, 12) = Flip(s, 12) => r = s
<1>1. /\ Flip(r, 5) \in Remainders /\ Flip(r, 12) \in Remainders
      /\ Flip(r, 5) % 2 = r % 2 /\ Flip(r, 12) % 2 = r % 2
  BY DEF Flip, Bit, Remainders
<1>2. Flip(r, 5) = Flip(s, 5) => r = s
  BY DEF Flip, Bit, Remainders
<1>3. Flip(r, 12) = Flip(s, 12) => r = s
  BY DEF Flip, Bit, Remainders
<1>. QED  BY <1>1, <1>2, <1>3

\* A shift loses nothing: the lowest bit tells whether 0x1021 was mixed in.
LEMMA ShiftInjective ==
  ASSUME NEW r \in Remainders, NEW s \in Remainders
  PROVE  Shift(r) \in Remainders /\ (Shift(r) = Shift(s) => r = s)
<1>. DEFINE low(x) == 2 * x - 65536
            flipped(x) == Flip(Flip(low(x), 12), 5)
<1>1. ASSUME NEW x \in Remainders, x >= 32768
      PROVE  low(x) \in Remainders /\ low(x) % 2 = 0
  BY <1>1 DEF Remainders
<1>2. ASSUME NEW x \in Remainders, x >= 32768
      PROVE  /\ flipped(x) \in Remainders /\ flipped(x) % 2 = 0
             /\ Shift(x) = flipped(x) + 1
  <2>1. low(x) \in Remainders /\ low(x) % 2 = 0
    BY <1>1, <1>2
  <2>2. Shift(x) = flipped(x) + 1
    BY <1>2 DEF Shift
  <2>. HIDE DEF low
  <2>3. flipped(x) \in Remainders /\ flipped(x) % 2 = 0
    BY <2>1, FlipInjective
  <2>. QED  BY <2>2, <2>3
<1>3. ASSUME NEW x \in Remainders, x >= 32768, NEW y \in Remainders, y >= 32768,
             flipped(x) = flipped(y)
      PROVE  x = y
  <2>1. low(x) \in Remainders /\ low(y) \in Remainders
    BY <1>1, <1>3
  <2>2. low(x) = low(y)
    <3>. HIDE DEF low
    <3>. QED  BY <1>3, <2>1, FlipInjective
  <2>. QED  BY <2>2 DEF Remainders
<1>4. ASSUME NEW x \in Remainders, ~(x >= 32768)
      PROVE  Shift(x) = 2 * x /\ 2 * x \in Remainders /\ (2 * x) % 2 = 0
  BY <1>4 DEF Shift, Remainders
<1>. HIDE DEF flipped
<1>5. ASSUME NEW x \in Remainders, NEW y \in Remainders, x % 2 = 0, y % 2 = 0
      PROVE  x + 1 \in Remainders /\ x + 1 # y /\ (x + 1 = y + 1 => x = y)
  BY <1>5 DEF Remainders
<1>6. Shift(r) \in Remainders
  BY <1>2, <1>4, <1>5
<1>7. ASSUME Shift(r) = Shift(s)  PROVE r = s
  <2>1. CASE r >= 32768 /\ s >= 32768
    BY <1>2, <1>3, <1>5, <1>7, <2>1
  <2>2. CASE ~(r >= 32768) /\ ~(s >= 32768)
    <3>1. 2 * r = 2 * s
      BY <1>4, <1>7, <2>2
    <3>. QED  BY <3>1 DEF Remainders
  <2>3. CASE r >= 32768 /\ ~(s >= 32768)
    BY <1>2, <1>4, <1>5, <1>7, <2>3
  <2>4. CASE ~(r >= 32768) /\ s >= 32768
    BY <1>2, <1>4, <1>5, <1>7, <2>4
  <2>. QED  BY <2>1, <2>2, <2>3, <2>4
<1>. QED  BY <1>6, <1>7

\* The exclusive or of two bytes is a byte, and either of them tells the other.
LEMMA XorBytes ==
  ASSUME NEW a \in Bytes, NEW b \in Bytes, NEW c \in Bytes
  PROVE  /\ Xor8(a, b) \in Bytes
         /\ Xor8(a, b) = Xor8(a, c) => b = c
         /\ Xor8(b, a) = Xor8(c, a) => b = c
<1>. DEFINE x(u, v, i) == (Bit(u, i) + Bit(v, i)) % 2
<1>1. ASSUME NEW u \in Bytes, NEW v \in Bytes
      PROVE  /\ \A i \in 0..7 : x(u, v, i) \in {0, 1}
             /\ Xor8(u, v) = x(u, v, 0) + 2 * x(u, v, 1) + 4 * x(u, v, 2)
                  + 8 * x(u, v, 3) + 16 * x(u, v, 4) + 32 * x(u, v, 5)
                  + 64 * x(u, v, 6) + 128 * x(u, v, 7)
  <2>1. \A i \in 0..7 : Bit(u, i) \in {0, 1} /\ Bit(v, i) \in {0, 1}
    BY ByteIsItsBits
  <2>2. \A i \in 0..7 : x(u, v, i) \in {0, 1}
    BY <2>1, ParityOfSum
  <2>. HIDE DEF x
  <2>3. /\ x(u, v, 0) \in {0, 1} /\ x(u, v, 1) \in {0, 1} /\ x(u, v, 2) \in {0, 1}
        /\ x(u, v, 3) \in {0, 1} /\ x(u, v, 4) \in {0, 1} /\ x(u, v, 5) \in {0, 1}
        /\ x(u, v, 6) \in {0, 1} /\ x(u, v, 7) \in {0, 1}
    BY <2>2
  <2>4. Xor8(u, v) = x(u, v, 0) * 2^0 + x(u, v, 1) * 2^1 + x(u, v, 2) * 2^2
          + x(u, v, 3) * 2^3 + x(u, v, 4) * 2^4 + x(u, v, 5) * 2^5
          + x(u, v, 6) * 2^6 + x(u, v, 7) * 2^7
    BY DEF Xor8, x
  <2>. QED  BY <2>2, <2>3, <2>4
<1>. HIDE DEF x
<1>2. ASSUME NEW u \in Bytes, NEW v \in Bytes
      PROVE  Xor8(u, v) \in Bytes
  <2>1. /\ x(u, v, 0) \in 0..1 /\ x(u, v, 1) \in 0..1 /\ x(u, v, 2) \in 0..1
        /\ x(u, v, 3) \in 0..1 /\ x(u, v, 4) \in 0..1 /\ x(u, v, 5) \in 0..1
        /\ x(u, v, 6) \in 0..1 /\ x(u, v, 7) \in 0..1
    BY <1>1
  <2>2. x(u, v, 0) + 2 * x(u, v, 1) + 4 * x(u, v, 2) + 8 * x(u, v, 3)
          + 16 * x(u, v, 4) + 32 * x(u, v, 5) + 64 * x(u, v, 6) + 128 * x(u, v, 7)
            \in Bytes
    BY <2>1, SumOfBits
  <2>. QED  BY <1>1, <2>2
<1>3. ASSUME NEW t \in Bytes, NEW u \in Bytes, NEW v \in Bytes, NEW w \in Bytes,
             Xor8(t, u) = Xor8(v, w)
      PROVE  \A i \in 0..7 : x(t, u, i) = x(v, w, i)
  <2>1. /\ x(t, u, 0) \in {0, 1} /\ x(t, u, 1) \in {0, 1} /\ x(t, u, 2) \in {0, 1}
        /\ x(t, u, 3) \in {0, 1} /\ x(t, u, 4) \in {0, 1} /\ x(t, u, 5) \in {0, 1}
        /\ x(t, u, 6) \in {0, 1} /\ x(t, u, 7) \in {0, 1}
        /\ x(v, w, 0) \in {0, 1} /\ x(v, w, 1) \in {0, 1} /\ x(v, w, 2) \in {0, 1}
        /\ x(v, w, 3) \in {0, 1} /\ x(v, w, 4) \in {0, 1} /\ x(v, w, 5) \in {0, 1}
        /\ x(v, w, 6) \in {0, 1} /\ x(v, w, 7) \in {0, 1}
    BY <1>1
  <2>2. x(t, u, 0) + 2 * x(t, u, 1) + 4 * x(t, u, 2) + 8 * x(t, u, 3)
          + 16 * x(t, u, 4) + 32 * x(t, u, 5) + 64 * x(t, u, 6) + 128 * x(t, u, 7)
        = x(v, w, 0) + 2 * x(v, w, 1) + 4 * x(v, w, 2) + 8 * x(v, w, 3)
          + 16 * x(v, w, 4) + 32 * x(v, w, 5) + 64 * x(v, w, 6) + 128 * x(v, w, 7)
    BY <1>1, <1>3
  <2>3. PICK f, g : /\ f = [i \in 0..7 |-> x(t, u, i)]
                    /\ g = [i \in 0..7 |-> x(v, w, i)]
    OBVIOUS
  <2>4. f \in [0..7 -> {0, 1}] /\ g \in [0..7 -> {0, 1}]
    <3>1. \A i \in 0..7 : i \in {0, 1, 2, 3, 4, 5, 6, 7}
      OBVIOUS
    <3>. QED  BY <2>1, <2>3, <3>1
  <2>5. f[0] + 2 * f[1] + 4 * f[2] + 8 * f[3]
          + 16 * f[4] + 32 * f[5] + 64 * f[6] + 128 * f[7]
        = g[0] + 2 * g[1] + 4 * g[2] + 8 * g[3]
          + 16 * g[4] + 32 * g[5] + 64 * g[6] + 128 * g[7]
    BY <2>2, <2>3
  <2>6. f = g
    BY <2>4, <2>5, SameSumSameBits
  <2>. QED  BY <2>3, <2>6
<1>4. ASSUME NEW u \in Bytes, NEW v \in Bytes, \A i \in 0..7 : Bit(u, i) = Bit(v, i)
      PROVE  u = v
  BY <1>4, ByteIsItsBits
<1>5. \A i \in 0..7 : Bit(a, i) \in {0, 1} /\ Bit(b, i) \in {0, 1} /\ Bit(c, i) \in {0, 1}
  BY ByteIsItsBits
<1>6. Xor8(a, b) = Xor8(a, c) => b = c
  <2>1. SUFFICES ASSUME \A i \in 0..7 : x(a, b, i) = x(a, c, i)
                 PROVE  \A i \in 0..7 : Bit(b, i) = Bit(c, i)
    BY <1>3, <1>4
  <2>. QED  BY <1>5, <2>1, ParityOfSum DEF x
<1>7. Xor8(b, a) = Xor8(c, a) => b = c
  <2>1. SUFFICES ASSUME \A i \in 0..7 : x(b, a, i) = x(c, a, i)
                 PROVE  \A i \in 0..7 : Bit(b, i) = Bit(c, i)
    BY <1>3, <1>4
  <2>. QED  BY <1>5, <2>1, ParityOfSum DEF x
<1>. QED  BY <1>2, <1>6, <1>7

\* So do the remainder and the byte that are mixed.
LEMMA MixInjective ==
  ASSUME NEW r \in Remainders, NEW s \in Remainders, NEW b \in Bytes, NEW c \in Bytes
  PROVE  /\ Mix(r, b) \in Remainders
         /\ Mix(r, b) = Mix(r, c) => b = c
         /\ Mix(r, b) = Mix(s, b) => r = s
<1>1. /\ r \div 256 \in Bytes /\ s \div 256 \in Bytes
      /\ r % 256 \in Bytes /\ s % 256 \in Bytes
      /\ r = 256 * (r \div 256) + (r % 256) /\ s = 256 * (s \div 256) + (s % 256)
  BY DEF Remainders, Bytes
<1>2. ASSUME NEW h \in Bytes, NEW l \in Bytes, NEW k \in Bytes, NEW m \in Bytes
      PROVE  /\ 256 * h + l \in Remainders
             /\ 256 * h + l = 256 * k + m => h = k /\ l = m
  BY DEF Remainders, Bytes
<1>3. Xor8(r \div 256, b) \in Bytes /\ Xor8(r \div 256, c) \in Bytes
      /\ Xor8(s \div 256, b) \in Bytes
  BY <1>1, XorBytes
<1>4. Mix(r, b) \in Remainders
  BY <1>1, <1>2, <1>3 DEF Mix
<1>5. ASSUME Mix(r, b) = Mix(r, c)  PROVE b = c
  <2>1. Xor8(r \div 256, b) = Xor8(r \div 256, c)
    BY <1>1, <1>2, <1>3, <1>5 DEF Mix
  <2>. QED  BY <1>1, <2>1, XorBytes
<1>6. ASSUME Mix(r, b) = Mix(s, b)  PROVE r = s
  <2>1. Xor8(r \div 256, b) = Xor8(s \div 256, b) /\ r % 256 = s % 256
    BY <1>1, <1>2, <1>3, <1>6 DEF Mix
  <2>2. r \div 256 = s \div 256
    BY <1>1, <2>1, XorBytes
  <2>. QED  BY <1>1, <2>1, <2>2
<1>. QED  BY <1>4, <1>5, <1>6

\* Seven shifts lose nothing either: a byte of the content or the remainder
\* before it can be told from the remainder after it.
LEMMA RecursiveInjective ==
  ASSUME NEW r \in Remainders, NEW s \in Remainders, NEW b \in Bytes, NEW c \in Bytes
  PROVE  /\ Crc16Recursive(r, b) \in Remainders
         /\ Crc16Recursive(r, b) = Crc16Recursive(r, c) => b = c
         /\ Crc16Recursive(r, b) = Crc16Recursive(s, b) => r = s
<1>1. ASSUME NEW x \in Remainders, NEW y \in Remainders
      PROVE  Shift7(x) \in Remainders /\ (Shift7(x) = Shift7(y) => x = y)
  BY ShiftInjective DEF Shift7
<1>. QED  BY <1>1, MixInjective DEF Crc16Recursive

\* The remainders of crc16 on its way through the content.
Remainder(s, rem) ==
  /\ rem \in [0..Len(s) -> Remainders]
  /\ rem[0] = 0
  /\ \A i \in 1..Len(s) : rem[i] = Crc16Recursive(rem[i - 1], s[i])

LEMMA CrcIs ==
  ASSUME NEW s \in Seq(Bytes)
  PROVE  \E rem : Remainder(s, rem) /\ Crc16Of(s) = rem[Len(s)]
<1>. DEFINE N == Len(s)
            after(f) == [i \in 0..N |-> IF i = 0 THEN 0
                                       ELSE Crc16Recursive(f[i - 1], s[i])]
            step == [i \in 1..N |-> [r \in Remainders |-> Crc16Recursive(r, s[i])]]
<1>1. N \in Nat /\ (\A i \in 1..N : s[i] \in Bytes) /\ 0 \in Remainders
  BY DEF Remainders
<1>. HIDE DEF N
<1>2. ASSUME NEW i \in 1..N, NEW r \in Remainders
      PROVE  Crc16Recursive(r, s[i]) \in Remainders
  BY <1>1, RecursiveInjective
<1>3. PICK f \in [0..N -> Remainders] :
        f[0] = 0 /\ \A i \in 1..N : f[i] = Crc16Recursive(f[i - 1], s[i])
  <2>1. /\ step \in [1..N -> [Remainders -> Remainders]]
        /\ \A i \in 1..N : \A r \in Remainders : step[i][r] = Crc16Recursive(r, s[i])
    BY <1>2
  <2>. HIDE DEF step
  <2>2. PICK f : Iterates(f, N, Remainders, 0, step)
    BY <1>1, <2>1, Iteration
  <2>3. f \in [0..N -> Remainders] /\ f[0] = 0
    BY <2>2 DEF Iterates
  <2>4. ASSUME NEW i \in 1..N  PROVE f[i] = Crc16Recursive(f[i - 1], s[i])
    <3>1. i - 1 \in 0..N
      BY <1>1
    <3>. QED  BY <2>1, <2>2, <2>3, <3>1 DEF Iterates
  <2>. QED  BY <2>3, <2>4
<1>4. f = after(f)
  <2>1. \A i \in 0..N : i = 0 \/ i \in 1..N
    BY <1>1
  <2>2. \A i \in 0..N : f[i] = IF i = 0 THEN 0 ELSE Crc16Recursive(f[i - 1], s[i])
    BY <1>3, <2>1
  <2>. QED  BY <2>2
<1>. DEFINE rem == CHOOSE g : g = after(g)
<1>5. Crc16Of(s) = rem[N]
  BY DEF Crc16Of, N
<1>6. rem = after(rem)
  <2>. HIDE DEF after
  <2>. QED  BY <1>4
<1>. HIDE DEF rem
<1>7. rem[0] = 0 /\ \A i \in 1..N : rem[i] = Crc16Recursive(rem[i - 1], s[i])
  BY <1>1, <1>6
<1>8. rem \in [0..N -> Remainders]
  <2>. DEFINE G == {i \in Nat : i <= N => rem[i] \in Remainders}
  <2>1. ASSUME NEW i \in Nat, rem[i] \in Remainders, i + 1 <= N
        PROVE  rem[i + 1] \in Remainders
    <3>1. i + 1 \in 1..N /\ (i + 1) - 1 = i
      BY <1>1, <2>1
    <3>. QED  BY <1>2, <1>7, <2>1, <3>1
  <2>2. 0 \in G /\ \A i \in Nat : i \in G => i + 1 \in G
    BY <1>1, <1>7, <2>1
  <2>3. Nat \subseteq G
    <3>. HIDE DEF G
    <3>. QED  BY <2>2, Induction
  <2>4. \A i \in 0..N : rem[i] \in Remainders
    BY <1>1, <2>3
  <2>. QED  BY <1>6, <2>4
<1>. QED  BY <1>5, <1>7, <1>8 DEF Remainder, N

LEMMA CrcType ==
  ASSUME NEW s \in Seq(Bytes)
  PROVE  Crc16Of(s) \in Remainders /\ CrcBytes(s) \in Bytes \X Bytes
<1>1. Crc16Of(s) \in Remainders
  BY CrcIs DEF Remainder
<1>2. Crc16Of(s) % 256 \in Bytes /\ Crc16Of(s) \div 256 \in Bytes
  <2>. DEFINE r == Crc16Of(s)
  <2>. HIDE DEF r
  <2>1. r % 256 \in Bytes /\ r \div 256 \in Bytes
    BY <1>1 DEF r, Remainders, Bytes
  <2>. QED  BY <2>1 DEF r
<1>. QED  BY <1>1, <1>2 DEF CrcBytes

\* Contents that differ in one byte differ in the check sum, however long they
\* are: the remainders differ from that byte on.
LEMMA OneByteChangesCrc ==
  ASSUME NEW s \in Seq(Bytes), NEW t \in Seq(Bytes), Len(s) = Len(t),
         NEW k \in 1..Len(s), s[k] # t[k], \A i \in 1..Len(s) : i # k => s[i] = t[i]
  PROVE  CrcBytes(s) # CrcBytes(t)
<1>. DEFINE N == Len(s)
<1>1. PICK rs : Remainder(s, rs) /\ Crc16Of(s) = rs[N]
  BY CrcIs
<1>2. PICK rt : Remainder(t, rt) /\ Crc16Of(t) = rt[N]
  BY CrcIs
<1>3. N \in Nat /\ k \in 1..N /\ N = Len(t)
  OBVIOUS
<1>4. /\ rs \in [0..N -> Remainders] /\ rs[0] = 0
      /\ rt \in [0..N -> Remainders] /\ rt[0] = 0
      /\ \A i \in 1..N : /\ rs[i] = Crc16Recursive(rs[i - 1], s[i])
                         /\ rt[i] = Crc16Recursive(rt[i - 1], t[i])
                         /\ s[i] \in Bytes /\ t[i] \in Bytes
                         /\ i # k => s[i] = t[i]
  BY <1>1, <1>2, <1>3 DEF Remainder
<1>. HIDE DEF N
<1>. DEFINE P(i) == (i < k => rs[i] = rt[i]) /\ (k <= i => rs[i] # rt[i])
            G == {i \in Nat : i <= N => P(i)}
<1>5. ASSUME NEW i \in Nat, P(i), i + 1 <= N  PROVE P(i + 1)
  <2>1. i + 1 \in 1..N /\ i \in 0..N /\ (i + 1) - 1 = i
    BY <1>3, <1>5
  <2>2. /\ rs[i + 1] = Crc16Recursive(rs[i], s[i + 1])
        /\ rt[i + 1] = Crc16Recursive(rt[i], t[i + 1])
        /\ s[i + 1] \in Bytes /\ t[i + 1] \in Bytes
        /\ rs[i] \in Remainders /\ rt[i] \in Remainders
    BY <1>4, <2>1
  <2>0. k \in Nat /\ i \in Nat
    BY <1>3
  <2>3. CASE i + 1 < k
    <3>1. rs[i] = rt[i] /\ s[i + 1] = t[i + 1]
      BY <1>4, <1>5, <2>1, <2>3, <2>0
    <3>2. rs[i + 1] = rt[i + 1]
      BY <2>2, <3>1
    <3>. QED  BY <2>3, <2>0, <3>2
  <2>4. CASE i + 1 = k
    <3>1. rs[i] = rt[i] /\ s[i + 1] # t[i + 1]
      BY <1>3, <1>5, <2>4, <2>0
    <3>2. rs[i + 1] # rt[i + 1]
      BY <2>2, <3>1, RecursiveInjective
    <3>. QED  BY <2>4, <2>0, <3>2
  <2>5. CASE k <= i
    <3>1. s[i + 1] = t[i + 1] /\ rs[i] # rt[i]
      BY <1>3, <1>4, <1>5, <2>1, <2>5
    <3>2. rs[i + 1] # rt[i + 1]
      BY <2>2, <3>1, RecursiveInjective
    <3>. QED  BY <2>5, <2>0, <3>2
  <2>6. i + 1 < k \/ i + 1 = k \/ k <= i
    BY <2>0
  <2>. QED  BY <2>3, <2>4, <2>5, <2>6
<1>6. P(0)
  BY <1>3, <1>4
<1>7. P(N)
  <2>. HIDE DEF P
  <2>1. 0 \in G /\ \A i \in Nat : i \in G => i + 1 \in G
    BY <1>3, <1>5, <1>6
  <2>2. Nat \subseteq G
    <3>. HIDE DEF G
    <3>. QED  BY <2>1, Induction
  <2>. QED  BY <1>3, <2>2
<1>8. Crc16Of(s) # Crc16Of(t)
  BY <1>1, <1>2, <1>3, <1>7
<1>9. ASSUME NEW x \in Remainders, NEW y \in Remainders,
             x % 256 = y % 256, x \div 256 = y \div 256
      PROVE  x = y
  BY <1>9 DEF Remainders
<1>10. Crc16Of(s) \in Remainders /\ Crc16Of(t) \in Remainders
  BY CrcType
<1>11. /\ CrcBytes(s) = <<Crc16Of(s) % 256, Crc16Of(s) \div 256>>
       /\ CrcBytes(t) = <<Crc16Of(t) % 256, Crc16Of(t) \div 256>>
  BY DEF CrcBytes
<1>. QED  BY <1>8, <1>9, <1>10, <1>11

-----------------------------------------------------------------------------
(* The invariants of the table.                                            *)

\* The entries that are in a chain: no task is still preparing them.
Linked == {n \in Nodes : key[n] # NULL /\
             \A t \in Tasks : pc[t] \in {"next", "link"} => np[t] # n}

Installing(t) == job[t].op = "install"

\* The table's only installer besides teleUpdateTask waits for its calls.
OneInstaller ==
  \A t \in Tasks \ {Receiver} : Installing(t) =>
    calls[Receiver] = Len(Plan[Receiver]) /\ ~Installing(Receiver)

\* What a task in a call knows.
CallsInv ==
  \A t \in Tasks :
    /\ pc[t] = "idle" <=> job[t] = Idle
    /\ pc[t] \in {"alloc", "next", "link", "set"} => Installing(t)
    /\ pc[t] = "found" => ~Installing(t)
    /\ t # Receiver => pc[t] = "idle" \/ Installing(t)

\* An entry that is prepared has the key of the call, which no entry in a
\* chain has; an entry that was found or linked has it, too.
EntryInv ==
  \A t \in Tasks :
    /\ pc[t] \in {"alloc", "next", "link"} => \A n \in Linked : key[n] # Key(t)
    /\ pc[t] \in {"next", "link"} => np[t] \in Nodes /\ key[np[t]] = Key(t)
    /\ pc[t] = "link" => next[np[t]] = hashtab[Slot(t)]
    /\ pc[t] = "set" => np[t] \in Linked /\ key[np[t]] = Key(t)
    /\ pc[t] = "found" /\ np[t] # NULL => np[t] \in Linked /\ key[np[t]] = Key(t)

UniqueKeys == \A m, n \in Linked : key[m] = key[n] => m = n

SameChain(m, n) == Bucket[key[m]] = Bucket[key[n]]

\* Every chain runs through all of its entries, the younger ones first.
ChainOrder(rank, top) ==
  /\ \A b \in Buckets : hashtab[b] # NULL =>
       hashtab[b] \in Linked /\ Bucket[key[hashtab[b]]] = b
  /\ \A n \in Linked :
       /\ rank[n] < top
       /\ hashtab[Bucket[key[n]]] # NULL
       /\ rank[n] <= rank[hashtab[Bucket[key[n]]]]
       /\ next[n] # NULL =>
            next[n] \in Linked /\ SameChain(n, next[n]) /\ rank[next[n]] < rank[n]
  /\ \A m, n \in Linked :
       /\ rank[m] = rank[n] => m = n
       /\ SameChain(m, n) /\ rank[m] < rank[n] =>
            next[n] # NULL /\ rank[m] <= rank[next[n]]

\* A key that must be found if it is in the chain: install's, and one that
\* was attached when the lookup began.
Sought(t) == Installing(t) \/ \E ty \in Types : <<Key(t), ty>> \in known

\* A task on its way along a chain has not missed the entry it looks for.
Walks(rank) ==
  \A t \in Tasks : pc[t] \in {"walk", "found"} =>
    /\ np[t] # NULL => np[t] \in Linked /\ Bucket[key[np[t]]] = Slot(t)
    /\ Sought(t) => \A n \in Linked : key[n] = Key(t) =>
                      np[t] # NULL /\ rank[n] <= rank[np[t]]

TableInv ==
  \E rank \in [Nodes -> Nat], top \in Nat : ChainOrder(rank, top) /\ Walks(rank)

AttachedInv ==
  /\ known \subseteq attached
  /\ \A p \in attached :
       \E n \in Linked : key[n] = p[1] /\ p[2] \in ptr[n]

LookupInv ==
  /\ pc[Receiver] # "idle" /\ ~Installing(Receiver) =>
       packet.type = job[Receiver].type
  /\ Installing(Receiver) \/ pc[Receiver] = "idle" => known = {} /\ packet = NoPacket

-----------------------------------------------------------------------------
(* The types of the dictionary and of its callers.                         *)

LEMMA BeginType ==
  ASSUME DTypeOK, NEW t \in Tasks, NEW op \in {"install", "lookup"},
         NEW k \in Keys, NEW ty \in Types, Begin(t, op, k, ty)
  PROVE  DTypeOK'
<1>1. [op |-> op, key |-> k, type |-> ty] \in Jobs
  BY DEF Jobs
<1>. QED  BY <1>1 DEF Begin, Goto, DTypeOK, memory

LEMMA IdleType == Idle \in Jobs
  BY DEF Jobs

LEMMA JobType ==
  ASSUME DTypeOK, NEW t \in Tasks, job[t] # Idle
  PROVE  /\ Key(t) \in Keys /\ job[t].type \in Types
         /\ job[t].op \in {"install", "lookup"} /\ Slot(t) \in Buckets
BY DictionaryAssumption DEF DTypeOK, Jobs, Key, Slot

LEMMA FinishType ==
  ASSUME DTypeOK, NEW t \in Tasks, Finish(t), UNCHANGED <<hashtab, next, key>>,
         ptr' \in [Nodes -> SUBSET Types]
  PROVE  DTypeOK'
BY IdleType DEF Finish, Goto, DTypeOK, Ref

LEMMA InCallType ==
  ASSUME DTypeOK, CallsInv, NEW t \in Tasks, InCall(t)
  PROVE  DTypeOK'
<1>1. job[t] # Idle
  BY DEF InCall, LookupHead, LookupNext, LookupReturn, Allocate,
     AllocateFails, SetNext, Link, SetPointer, CallsInv
<1>2. Key(t) \in Keys /\ job[t].type \in Types /\ Slot(t) \in Buckets
  BY <1>1, JobType
<1>. USE DEF DTypeOK, Goto, memory
<1>3. CASE LookupHead(t)
  BY <1>2, <1>3 DEF LookupHead
<1>4. CASE LookupNext(t)
  BY <1>4 DEF LookupNext, Ref
<1>5. CASE LookupReturn(t)
  BY <1>5 DEF LookupReturn
<1>6. CASE Allocate(t)
  BY <1>2, <1>6, DictionaryAssumption DEF Allocate, Ref
<1>7. CASE AllocateFails(t)
  BY <1>7, FinishType DEF AllocateFails
<1>8. CASE SetNext(t)
  BY <1>2, <1>8 DEF SetNext
<1>9. CASE Link(t)
  BY <1>2, <1>9 DEF Link
<1>10. CASE SetPointer(t)
  <2>1. ptr' \in [Nodes -> SUBSET Types]
    BY <1>2, <1>10 DEF SetPointer
  <2>. QED  BY <1>10, <2>1, FinishType DEF SetPointer
<1>. QED
  BY <1>3, <1>4, <1>5, <1>6, <1>7, <1>8, <1>9, <1>10 DEF InCall

-----------------------------------------------------------------------------
(* Who is in which call.                                                   *)

LEMMA OnlyOneInstalls ==
  ASSUME TwoTasks, OneInstaller, NEW t \in Tasks, NEW u \in Tasks,
         Installing(t), Installing(u)
  PROVE  t = u
BY DEF TwoTasks, OneInstaller

\* A call goes on or ends.
LEMMA InCallJob ==
  ASSUME NEW t \in Tasks, InCall(t), DTypeOK
  PROVE  /\ pc[t] # "idle"
         /\ \A u \in Tasks \ {t} : job'[u] = job[u] /\ pc'[u] = pc[u] /\ np'[u] = np[u]
         /\ \/ job'[t] = job[t] /\ pc'[t] # "idle"
            \/ job'[t] = Idle /\ pc'[t] = "idle" /\ np'[t] = NULL
BY DEF InCall, LookupHead, LookupNext, LookupReturn, Allocate, AllocateFails,
   SetNext, Link, SetPointer, Finish, Goto, DTypeOK

LEMMA CallsStep ==
  ASSUME TelemetryAssumption, DTypeOK, CallsInv, [Next]_vars
  PROVE  CallsInv'
<1>. USE DEF CallsInv, Installing, Goto, Idle
<1>1. ASSUME NEW t \in Tasks, Attach(t)  PROVE CallsInv'
  BY <1>1 DEF Attach, Begin, DTypeOK
<1>2. ASSUME NEW t \in Tasks, Dictionary(t)  PROVE CallsInv'
  <2>1. InCall(t)
    BY <1>2 DEF Dictionary
  <2>2. /\ pc'[t] \in {"alloc", "next", "link", "set"} => Installing(t)
        /\ pc'[t] = "found" => ~Installing(t)
    BY <2>1 DEF InCall, LookupHead, LookupNext, LookupReturn, Allocate,
       AllocateFails, SetNext, Link, SetPointer, Finish, DTypeOK
  <2>3. /\ pc[t] # "idle"
        /\ \A u \in Tasks \ {t} : job'[u] = job[u] /\ pc'[u] = pc[u]
        /\ \/ job'[t] = job[t] /\ pc'[t] # "idle"
           \/ job'[t] = Idle /\ pc'[t] = "idle"
    BY <2>1, InCallJob
  <2>4. /\ pc'[t] = "idle" <=> job'[t] = Idle
        /\ pc'[t] \in {"alloc", "next", "link", "set"} => Installing(t)'
        /\ pc'[t] = "found" => ~Installing(t)'
        /\ t # Receiver => pc'[t] = "idle" \/ Installing(t)'
    <3>1. CASE job'[t] = job[t] /\ pc'[t] # "idle"
      BY <2>2, <2>3, <3>1
    <3>2. CASE job'[t] = Idle /\ pc'[t] = "idle"
      BY <3>2
    <3>. QED  BY <2>3, <3>1, <3>2
  <2>5. ASSUME NEW u \in Tasks \ {t}
        PROVE  /\ pc'[u] = "idle" <=> job'[u] = Idle
               /\ pc'[u] \in {"alloc", "next", "link", "set"} => Installing(u)'
               /\ pc'[u] = "found" => ~Installing(u)'
               /\ u # Receiver => pc'[u] = "idle" \/ Installing(u)'
    <3>1. pc'[u] = pc[u] /\ job'[u] = job[u]
      BY <2>3
    <3>2. /\ pc[u] = "idle" <=> job[u] = Idle
          /\ pc[u] \in {"alloc", "next", "link", "set"} => Installing(u)
          /\ pc[u] = "found" => ~Installing(u)
          /\ u # Receiver => pc[u] = "idle" \/ Installing(u)
      OBVIOUS
    <3>. HIDE DEF CallsInv, Idle
    <3>. QED  BY <3>1, <3>2
  <2>. QED  BY <2>4, <2>5
<1>3. CASE OnIncomingFrame
  BY <1>3, TelemetryAssumption DEF OnIncomingFrame, Begin, DTypeOK
<1>4. CASE TryUpdate
  BY <1>4, TelemetryAssumption DEF TryUpdate, Finish, DTypeOK
<1>5. CASE UNCHANGED vars
  BY <1>5 DEF vars, dvars, locals
<1>. QED  BY <1>1, <1>2, <1>3, <1>4, <1>5 DEF Next

LEMMA OneInstallerStep ==
  ASSUME TwoTasks, DTypeOK, calls \in [Tasks -> Nat], OneInstaller, [Next]_vars
  PROVE  OneInstaller'
<1>0. Receiver \in Tasks /\ Idle.op # "install"
  BY TelemetryAssumption DEF Idle
<1>. USE <1>0 DEF OneInstaller, Installing, Goto
<1>1. ASSUME NEW t \in Tasks, Attach(t)  PROVE OneInstaller'
  <2>1. CASE t = Receiver
    <3>1. \A u \in Tasks \ {Receiver} : ~Installing(u) /\ job'[u] = job[u]
      BY <1>1, <2>1 DEF Attach, Begin, DTypeOK
    <3>. QED  BY <3>1
  <2>2. CASE t # Receiver
    BY <1>1, <2>2 DEF Attach, Begin, DTypeOK
  <2>. QED  BY <2>1, <2>2
<1>2. ASSUME NEW t \in Tasks, Dictionary(t)  PROVE OneInstaller'
  <2>1. InCall(t) /\ calls' = calls
    BY <1>2 DEF Dictionary
  <2>2. \A u \in Tasks : job'[u] = job[u] \/ job'[u] = Idle
    BY <2>1, InCallJob
  <2>. QED  BY <2>1, <2>2
<1>3. CASE OnIncomingFrame
  BY <1>3 DEF OnIncomingFrame, Begin, DTypeOK
<1>4. CASE TryUpdate
  BY <1>4 DEF TryUpdate, Finish, DTypeOK
<1>5. CASE UNCHANGED vars
  BY <1>5 DEF vars, dvars, locals, telemetry
<1>. QED  BY <1>1, <1>2, <1>3, <1>4, <1>5 DEF Next

-----------------------------------------------------------------------------
(* The entries in the chains.                                              *)

\* What every step but install's leaves alone.
LEMMA LinkedKept ==
  ASSUME NEW t \in Tasks, DTypeOK, key' = key,
         \A u \in Tasks \ {t} : pc'[u] = pc[u] /\ np'[u] = np[u],
         pc[t] \notin {"next", "link"}, pc'[t] \notin {"next", "link"}
  PROVE  Linked' = Linked
BY DEF Linked

\* Only install's store into hashtab puts an entry into a chain.
LEMMA LinkedSteps ==
  ASSUME TwoTasks, DTypeOK, CallsInv, OneInstaller, EntryInv,
         NEW t \in Tasks, InCall(t)
  PROVE  /\ ~Link(t) => Linked' = Linked
         /\ Link(t) => np[t] \in Nodes \ Linked /\ Linked' = Linked \cup {np[t]}
         /\ \A n \in Linked : key'[n] = key[n] /\ next'[n] = next[n]
                             /\ ptr[n] \subseteq ptr'[n]
<1>. USE DEF DTypeOK, Goto
<1>1. \A u \in Tasks \ {t} : pc'[u] = pc[u] /\ np'[u] = np[u]
  BY InCallJob
<1>2. CASE LookupHead(t) \/ LookupNext(t) \/ LookupReturn(t)
  <2>1. /\ pc[t] \notin {"next", "link"} /\ pc'[t] \notin {"next", "link"}
        /\ key' = key /\ next' = next /\ ptr' = ptr
    BY <1>2 DEF LookupHead, LookupNext, LookupReturn, memory
  <2>. QED  BY <1>1, <1>2, <2>1, LinkedKept DEF LookupHead, LookupNext, LookupReturn, Link
<1>3. CASE Allocate(t)
  <2>1. PICK n \in Nodes, garbage \in Ref :
          /\ key[n] = NULL
          /\ key' = [key EXCEPT ![n] = Key(t)]
          /\ ptr' = [ptr EXCEPT ![n] = {}]
          /\ next' = [next EXCEPT ![n] = garbage]
          /\ np' = [np EXCEPT ![t] = n]
    BY <1>3 DEF Allocate
  <2>2. pc[t] = "alloc" /\ pc'[t] = "next"
    BY <1>3 DEF Allocate
  <2>3. n \notin Linked /\ n \notin Linked'
    BY <2>1, <2>2 DEF Linked
  <2>4. \A m \in Nodes \ {n} : m \in Linked <=> m \in Linked'
    BY <1>1, <2>1, <2>2 DEF Linked
  <2>5. Linked' = Linked
    BY <2>1, <2>3, <2>4 DEF Linked
  <2>. QED  BY <1>3, <2>1, <2>3, <2>5 DEF Link, Allocate
<1>4. CASE AllocateFails(t) \/ SetPointer(t)
  <2>1. /\ pc[t] \notin {"next", "link"} /\ pc'[t] \notin {"next", "link"}
        /\ key' = key /\ next' = next /\ \A n \in Nodes : ptr[n] \subseteq ptr'[n]
    BY <1>4 DEF AllocateFails, SetPointer, Finish, memory
  <2>2. Linked \subseteq Nodes
    BY DEF Linked
  <2>. QED  BY <1>1, <1>4, <2>1, <2>2, LinkedKept DEF AllocateFails, SetPointer, Link
<1>5. CASE SetNext(t)
  <2>1. /\ pc[t] = "next" /\ pc'[t] = "link" /\ np' = np /\ key' = key /\ ptr' = ptr
        /\ \A n \in Nodes \ {np[t]} : next'[n] = next[n]
    BY <1>5 DEF SetNext
  <2>2. Linked' = Linked /\ np[t] \notin Linked /\ Linked \subseteq Nodes
    BY <1>1, <2>1 DEF Linked
  <2>. QED  BY <1>5, <2>1, <2>2 DEF SetNext, Link
<1>6. CASE Link(t)
  <2>1. /\ pc[t] = "link" /\ pc'[t] = "set" /\ np' = np /\ UNCHANGED <<key, next, ptr>>
    BY <1>6 DEF Link
  <2>2. np[t] \in Nodes /\ key[np[t]] # NULL
    BY <2>1, JobType, DictionaryAssumption DEF EntryInv, CallsInv, Installing, Idle
  <2>3. \A u \in Tasks : pc'[u] \in {"next", "link"} => np'[u] # np[t]
    BY <1>1, <2>1, OnlyOneInstalls DEF CallsInv
  <2>4. np[t] \notin Linked /\ np[t] \in Linked'
    BY <2>1, <2>2, <2>3 DEF Linked
  <2>5. \A n \in Nodes \ {np[t]} : n \in Linked <=> n \in Linked'
    BY <1>1, <2>1 DEF Linked
  <2>6. Linked' = Linked \cup {np[t]}
    BY <2>2, <2>4, <2>5 DEF Linked
  <2>. QED  BY <1>6, <2>1, <2>2, <2>4, <2>6
<1>. QED  BY <1>2, <1>3, <1>4, <1>5, <1>6 DEF InCall

-----------------------------------------------------------------------------
(* The steps of the calls and the entries.                                 *)

\* The invariant of the entries that a step leaves alone for the tasks that
\* do not take it.
TaskEntry(u) ==
  /\ pc[u] \in {"alloc", "next", "link"} => \A n \in Linked : key[n] # Key(u)
  /\ pc[u] \in {"next", "link"} => np[u] \in Nodes /\ key[np[u]] = Key(u)
  /\ pc[u] = "link" => next[np[u]] = hashtab[Slot(u)]
  /\ pc[u] = "set" => np[u] \in Linked /\ key[np[u]] = Key(u)
  /\ pc[u] = "found" /\ np[u] # NULL => np[u] \in Linked /\ key[np[u]] = Key(u)

TaskWalk(u, rank) ==
  pc[u] \in {"walk", "found"} =>
    /\ np[u] # NULL => np[u] \in Linked /\ Bucket[key[np[u]]] = Slot(u)
    /\ Sought(u) => \A n \in Linked : key[n] = Key(u) =>
                      np[u] # NULL /\ rank[n] <= rank[np[u]]

LEMMA EntryTasks == EntryInv <=> \A u \in Tasks : TaskEntry(u)
BY DEF EntryInv, TaskEntry

LEMMA WalkTasks ==
  ASSUME NEW rank  PROVE Walks(rank) <=> \A u \in Tasks : TaskWalk(u, rank)
BY DEF Walks, TaskWalk

LEMMA ChainKept ==
  ASSUME NEW rank, NEW top, ChainOrder(rank, top), DTypeOK,
         Linked' = Linked, hashtab' = hashtab,
         \A n \in Linked : key'[n] = key[n] /\ next'[n] = next[n]
  PROVE  ChainOrder(rank, top)'
<1>. USE DEF ChainOrder, SameChain
<1>1. ASSUME NEW b \in Buckets, hashtab'[b] # NULL
      PROVE  hashtab'[b] \in Linked' /\ Bucket[key'[hashtab'[b]]] = b
  BY <1>1
<1>2. ASSUME NEW n \in Linked'
      PROVE  /\ rank[n] < top
             /\ hashtab'[Bucket[key'[n]]] # NULL
             /\ rank[n] <= rank[hashtab'[Bucket[key'[n]]]]
             /\ next'[n] # NULL =>
                  next'[n] \in Linked' /\ SameChain(n, next[n])'
                  /\ rank[next'[n]] < rank[n]
  BY <1>2
<1>3. ASSUME NEW m \in Linked', NEW n \in Linked'
      PROVE  /\ rank[m] = rank[n] => m = n
             /\ SameChain(m, n)' /\ rank[m] < rank[n] =>
                  next'[n] # NULL /\ rank[m] <= rank[next'[n]]
  BY <1>3
<1>. QED  BY <1>1, <1>2, <1>3

\* A step that leaves the memory of the chains alone keeps what the other
\* tasks know.
LEMMA OthersKept ==
  ASSUME NEW t \in Tasks, NEW u \in Tasks \ {t}, NEW rank, DTypeOK,
         UNCHANGED hashtab, Linked' = Linked,
         \A n \in Linked : key'[n] = key[n] /\ next'[n] = next[n],
         job'[u] = job[u], pc'[u] = pc[u], np'[u] = np[u],
         pc[u] \in {"walk", "found"} => (Sought(u)' => Sought(u)),
         pc[u] \in {"next", "link"} =>
           key'[np[u]] = key[np[u]] /\ next'[np[u]] = next[np[u]]
  PROVE  (TaskEntry(u) => TaskEntry(u)') /\ (TaskWalk(u, rank) => TaskWalk(u, rank)')
<1>1. TaskEntry(u) => TaskEntry(u)'
  BY DEF TaskEntry, Key, Slot
<1>2. ASSUME TaskWalk(u, rank), pc'[u] \in {"walk", "found"}
      PROVE  TaskWalk(u, rank)'
  <2>1. /\ np'[u] # NULL => np'[u] \in Linked /\ Bucket[key'[np'[u]]] = Slot(u)'
        /\ Sought(u)' => \A n \in Linked : key'[n] = Key(u)' =>
                           np'[u] # NULL /\ rank[n] <= rank[np'[u]]
    BY <1>2 DEF TaskWalk, Key, Slot
  <2>. QED  BY <2>1 DEF TaskWalk
<1>3. pc'[u] \notin {"walk", "found"} => TaskWalk(u, rank)'
  BY DEF TaskWalk
<1>. QED  BY <1>1, <1>2, <1>3

\* A call begins: nothing but the task's own job and control point changes.
LEMMA BeginTable ==
  ASSUME DTypeOK, CallsInv, EntryInv, UniqueKeys, TableInv,
         NEW t \in Tasks, NEW op \in {"install", "lookup"}, NEW k \in Keys,
         NEW ty \in Types, Begin(t, op, k, ty),
         \A u \in Tasks \ {t} :
           pc[u] \in {"walk", "found"} => (Sought(u)' => Sought(u))
  PROVE  EntryInv' /\ UniqueKeys' /\ TableInv' /\ Linked' = Linked
<1>1. /\ hashtab' = hashtab /\ key' = key /\ next' = next /\ np' = np
      /\ pc[t] = "idle" /\ pc'[t] = "head"
      /\ \A u \in Tasks \ {t} : job'[u] = job[u] /\ pc'[u] = pc[u]
  BY DEF Begin, Goto, memory, DTypeOK
<1>2. Linked' = Linked
  BY <1>1, LinkedKept
<1>3. PICK rank \in [Nodes -> Nat], top \in Nat : ChainOrder(rank, top) /\ Walks(rank)
  BY DEF TableInv
<1>4. ChainOrder(rank, top)'
  BY <1>1, <1>2, <1>3, ChainKept
<1>5. \A u \in Tasks \ {t} : TaskEntry(u)' /\ TaskWalk(u, rank)'
  BY <1>1, <1>2, <1>3, OthersKept, EntryTasks, WalkTasks
<1>6. TaskEntry(t)' /\ TaskWalk(t, rank)'
  BY <1>1 DEF TaskEntry, TaskWalk
<1>7. EntryInv' /\ Walks(rank)'
  BY <1>5, <1>6 DEF EntryInv, Walks, TaskEntry, TaskWalk
<1>8. UniqueKeys'
  BY <1>1, <1>2 DEF UniqueKeys
<1>. QED  BY <1>2, <1>3, <1>4, <1>7, <1>8 DEF TableInv

\* A call ends without a new entry.
LEMMA FinishTable ==
  ASSUME DTypeOK, CallsInv, EntryInv, UniqueKeys, TableInv,
         NEW t \in Tasks, Finish(t), UNCHANGED <<hashtab, key, next>>,
         pc[t] \notin {"next", "link"},
         \A u \in Tasks \ {t} :
           pc[u] \in {"walk", "found"} => (Sought(u)' => Sought(u))
  PROVE  EntryInv' /\ UniqueKeys' /\ TableInv' /\ Linked' = Linked
<1>1. /\ pc'[t] = "idle"
      /\ \A u \in Tasks \ {t} : job'[u] = job[u] /\ pc'[u] = pc[u] /\ np'[u] = np[u]
  BY DEF Finish, Goto, DTypeOK
<1>2. Linked' = Linked
  BY <1>1, LinkedKept
<1>3. PICK rank \in [Nodes -> Nat], top \in Nat : ChainOrder(rank, top) /\ Walks(rank)
  BY DEF TableInv
<1>4. ChainOrder(rank, top)'
  BY <1>2, <1>3, ChainKept
<1>5. \A u \in Tasks \ {t} : TaskEntry(u)' /\ TaskWalk(u, rank)'
  BY <1>1, <1>2, <1>3, OthersKept, EntryTasks, WalkTasks
<1>6. TaskEntry(t)' /\ TaskWalk(t, rank)'
  BY <1>1 DEF TaskEntry, TaskWalk
<1>7. EntryInv' /\ Walks(rank)'
  BY <1>5, <1>6 DEF EntryInv, Walks, TaskEntry, TaskWalk
<1>8. UniqueKeys'
  BY <1>2 DEF UniqueKeys
<1>. QED  BY <1>2, <1>3, <1>4, <1>7, <1>8 DEF TableInv

\* lookup walks the chain and does not miss an entry that is in it.
LEMMA LookupTable ==
  ASSUME DTypeOK, CallsInv, EntryInv, UniqueKeys, TableInv, UNCHANGED known,
         NEW t \in Tasks, LookupHead(t) \/ LookupNext(t) \/ LookupReturn(t)
  PROVE  EntryInv' /\ UniqueKeys' /\ TableInv' /\ Linked' = Linked
<1>1. /\ hashtab' = hashtab /\ key' = key /\ next' = next /\ job' = job
      /\ pc[t] \in {"head", "walk"}
      /\ pc'[t] \in {"walk", "found", "alloc", "set"}
      /\ \A u \in Tasks \ {t} : pc'[u] = pc[u] /\ np'[u] = np[u]
  BY DEF LookupHead, LookupNext, LookupReturn, Goto, memory, DTypeOK
<1>2. Linked' = Linked
  BY <1>1, LinkedKept
<1>3. PICK rank \in [Nodes -> Nat], top \in Nat : ChainOrder(rank, top) /\ Walks(rank)
  BY DEF TableInv
<1>4. ChainOrder(rank, top)'
  BY <1>1, <1>2, <1>3, ChainKept
<1>5. \A u \in Tasks : Sought(u)' <=> Sought(u)
  BY <1>1 DEF Sought, Installing, Key
<1>6. \A u \in Tasks \ {t} : TaskEntry(u)' /\ TaskWalk(u, rank)'
  BY <1>1, <1>2, <1>3, <1>5, OthersKept, EntryTasks, WalkTasks
<1>7. TaskWalk(t, rank)
  BY <1>3, WalkTasks
<1>8. job[t] # Idle /\ Slot(t) \in Buckets /\ Slot(t)' = Slot(t) /\ Key(t)' = Key(t)
  BY <1>1, JobType DEF CallsInv, Slot, Key
<1>9. Linked \subseteq Nodes
  BY DEF Linked
<1>10. TaskEntry(t)' /\ TaskWalk(t, rank)'
  <2>1. CASE LookupHead(t)
    <3>1. pc'[t] = "walk" /\ np'[t] = hashtab[Slot(t)]
      BY <2>1 DEF LookupHead, Goto, DTypeOK
    <3>2. np'[t] # NULL => np'[t] \in Linked /\ Bucket[key[np'[t]]] = Slot(t)
      BY <1>3, <1>8, <3>1 DEF ChainOrder
    <3>3. \A n \in Linked : key[n] = Key(t) =>
            np'[t] # NULL /\ rank[n] <= rank[np'[t]]
      BY <1>3, <3>1 DEF ChainOrder, Slot
    <3>. QED  BY <1>1, <1>2, <1>8, <3>1, <3>2, <3>3 DEF TaskEntry, TaskWalk
  <2>2. CASE LookupNext(t)
    <3>1. /\ pc[t] = "walk" /\ pc'[t] = "walk" /\ np[t] # NULL
          /\ key[np[t]] # Key(t) /\ np'[t] = next[np[t]]
      BY <2>2 DEF LookupNext, DTypeOK
    <3>2. np[t] \in Linked /\ Bucket[key[np[t]]] = Slot(t)
      BY <1>7, <3>1 DEF TaskWalk
    <3>3. np'[t] # NULL => np'[t] \in Linked /\ Bucket[key[np'[t]]] = Slot(t)
      BY <1>3, <3>1, <3>2 DEF ChainOrder, SameChain
    <3>4. ASSUME Sought(t), NEW n \in Linked, key[n] = Key(t)
          PROVE  np'[t] # NULL /\ rank[n] <= rank[np'[t]]
      <4>1. rank[n] <= rank[np[t]] /\ n # np[t] /\ SameChain(n, np[t])
        BY <1>7, <3>1, <3>2, <3>4 DEF TaskWalk, SameChain, Slot
      <4>2. rank[n] < rank[np[t]]
        BY <1>3, <1>9, <3>2, <4>1 DEF ChainOrder
      <4>. QED  BY <1>3, <3>1, <3>2, <4>1, <4>2 DEF ChainOrder
    <3>. QED  BY <1>1, <1>2, <1>5, <1>8, <3>1, <3>3, <3>4 DEF TaskEntry, TaskWalk
  <2>3. CASE LookupReturn(t)
    <3>1. /\ pc[t] = "walk" /\ np' = np /\ (np[t] # NULL => key[np[t]] = Key(t))
          /\ \/ pc'[t] = "found"
             \/ Installing(t) /\ np[t] = NULL /\ pc'[t] = "alloc"
             \/ np[t] # NULL /\ pc'[t] = "set"
      BY <2>3 DEF LookupReturn, Goto, DTypeOK, Installing
    <3>2. np[t] # NULL => np[t] \in Linked /\ Bucket[key[np[t]]] = Slot(t)
      BY <1>7, <3>1 DEF TaskWalk
    <3>3. TaskWalk(t, rank)'
      BY <1>1, <1>2, <1>5, <1>7, <1>8, <3>1 DEF TaskWalk
    <3>4. pc'[t] = "alloc" => \A n \in Linked : key[n] # Key(t)
      BY <1>7, <3>1 DEF TaskWalk, Sought
    <3>. QED  BY <1>1, <1>2, <1>8, <3>1, <3>2, <3>3, <3>4 DEF TaskEntry
  <2>. QED  BY <2>1, <2>2, <2>3
<1>11. EntryInv' /\ Walks(rank)'
  BY <1>6, <1>10 DEF EntryInv, Walks, TaskEntry, TaskWalk
<1>12. UniqueKeys'
  BY <1>1, <1>2 DEF UniqueKeys
<1>. QED  BY <1>2, <1>3, <1>4, <1>11, <1>12 DEF TableInv

\* While a task installs, nobody else does: what the others know is about
\* entries that are linked.
LEMMA OthersLookUp ==
  ASSUME TwoTasks, CallsInv, OneInstaller, NEW t \in Tasks, NEW u \in Tasks \ {t},
         Installing(t)
  PROVE  ~Installing(u) /\ pc[u] \notin {"alloc", "next", "link", "set"}
BY OnlyOneInstalls DEF CallsInv

\* install prepares an entry that no chain has.
LEMMA PrepareTable ==
  ASSUME TwoTasks, DTypeOK, CallsInv, OneInstaller, EntryInv, UniqueKeys,
         TableInv, UNCHANGED known, NEW t \in Tasks, Allocate(t) \/ SetNext(t)
  PROVE  EntryInv' /\ UniqueKeys' /\ TableInv' /\ Linked' = Linked
<1>1. InCall(t) /\ ~Link(t)
  BY DEF InCall, Allocate, SetNext, Link
<1>2. /\ Linked' = Linked
      /\ \A n \in Linked : key'[n] = key[n] /\ next'[n] = next[n]
  BY <1>1, LinkedSteps
<1>3. /\ hashtab' = hashtab /\ job' = job /\ pc[t] \in {"alloc", "next"}
      /\ \A u \in Tasks \ {t} : pc'[u] = pc[u] /\ np'[u] = np[u]
  BY DEF Allocate, SetNext, Goto, DTypeOK
<1>4. PICK rank \in [Nodes -> Nat], top \in Nat : ChainOrder(rank, top) /\ Walks(rank)
  BY DEF TableInv
<1>5. ChainOrder(rank, top)'
  BY <1>2, <1>3, <1>4, ChainKept
<1>6. Installing(t) /\ TaskEntry(t) /\ job[t] # Idle /\ Slot(t) \in Buckets
  BY <1>3, EntryTasks, JobType DEF CallsInv, Installing, Idle
<1>7. \A u \in Tasks : Sought(u)' <=> Sought(u)
  BY <1>3 DEF Sought, Installing, Key
<1>8. \A u \in Tasks \ {t} : pc[u] \notin {"alloc", "next", "link", "set"}
  BY <1>6, OthersLookUp
<1>9. \A u \in Tasks \ {t} : TaskEntry(u)' /\ TaskWalk(u, rank)'
  BY <1>2, <1>3, <1>4, <1>7, <1>8, OthersKept, EntryTasks, WalkTasks
<1>10. TaskEntry(t)' /\ TaskWalk(t, rank)'
  <2>1. CASE Allocate(t)
    <3>1. /\ pc[t] = "alloc" /\ pc'[t] = "next"
          /\ np'[t] \in Nodes /\ key'[np'[t]] = Key(t)
      BY <2>1 DEF Allocate, Goto, DTypeOK
    <3>. QED  BY <1>2, <1>3, <1>6, <3>1 DEF TaskEntry, TaskWalk, Key
  <2>2. CASE SetNext(t)
    <3>1. pc[t] = "next" /\ pc'[t] = "link" /\ np' = np /\ key' = key
      BY <2>2 DEF SetNext, Goto, DTypeOK
    <3>2. next'[np[t]] = hashtab[Slot(t)]
      BY <1>6, <2>2, <3>1 DEF SetNext, DTypeOK, TaskEntry
    <3>. QED  BY <1>2, <1>3, <1>6, <3>1, <3>2 DEF TaskEntry, TaskWalk, Key, Slot
  <2>. QED  BY <2>1, <2>2
<1>11. EntryInv' /\ Walks(rank)'
  BY <1>9, <1>10 DEF EntryInv, Walks, TaskEntry, TaskWalk
<1>12. UniqueKeys'
  BY <1>2 DEF UniqueKeys
<1>. QED  BY <1>2, <1>4, <1>5, <1>11, <1>12 DEF TableInv

\* The store into hashtab puts the entry at the top of its chain.
LEMMA LinkTable ==
  ASSUME TwoTasks, DTypeOK, CallsInv, OneInstaller, EntryInv, UniqueKeys,
         TableInv, AttachedInv, UNCHANGED known, NEW t \in Tasks, Link(t)
  PROVE  EntryInv' /\ UniqueKeys' /\ TableInv'
<1>1. PICK new : /\ new = np[t] /\ new \in Nodes \ Linked
                 /\ Linked' = Linked \cup {new} /\ Linked \subseteq Nodes
  BY LinkedSteps DEF InCall, Linked
<1>2. /\ key' = key /\ next' = next /\ np' = np /\ job' = job
      /\ pc[t] = "link" /\ pc'[t] = "set"
      /\ \A u \in Tasks \ {t} : pc'[u] = pc[u]
  BY DEF Link, Goto, DTypeOK
<1>3. /\ Installing(t) /\ job[t] # Idle /\ Slot(t) \in Buckets /\ Key(t) \in Keys
  BY <1>2, JobType DEF CallsInv, Installing, Idle
<1>4. /\ key[new] = Key(t) /\ next[new] = hashtab[Slot(t)]
      /\ \A n \in Linked : key[n] # Key(t)
  BY <1>1, <1>2 DEF EntryInv
<1>5. /\ hashtab'[Slot(t)] = new
      /\ \A b \in Buckets \ {Slot(t)} : hashtab'[b] = hashtab[b]
      /\ new # NULL
  BY <1>1, <1>3, DictionaryAssumption DEF Link, DTypeOK
<1>6. PICK rank \in [Nodes -> Nat], top \in Nat : ChainOrder(rank, top) /\ Walks(rank)
  BY DEF TableInv
<1>7. PICK rank2 \in [Nodes -> Nat], top2 \in Nat :
        /\ rank2[new] = top /\ top < top2
        /\ \A n \in Linked : rank2[n] = rank[n] /\ rank[n] \in Nat /\ rank[n] < top
  <2>. WITNESS [rank EXCEPT ![new] = top] \in [Nodes -> Nat], top + 1 \in Nat
  <2>. QED  BY <1>1, <1>6 DEF ChainOrder
<1>8. Bucket[key[new]] = Slot(t)
  BY <1>4 DEF Slot
<1>9. ChainOrder(rank2, top2)'
  <2>1. ASSUME NEW b \in Buckets, hashtab'[b] # NULL
        PROVE  hashtab'[b] \in Linked' /\ Bucket[key[hashtab'[b]]] = b
    BY <1>1, <1>5, <1>6, <1>8, <2>1 DEF ChainOrder
  <2>2. \A n \in Linked : Bucket[key[n]] \in Buckets
    BY DictionaryAssumption DEF Linked, DTypeOK
  <2>3. ASSUME NEW n \in Linked'
        PROVE  /\ rank2[n] < top2
               /\ hashtab'[Bucket[key[n]]] # NULL
               /\ rank2[n] <= rank2[hashtab'[Bucket[key[n]]]]
               /\ next[n] # NULL => next[n] \in Linked' /\ SameChain(n, next[n])
                                    /\ rank2[next[n]] < rank2[n]
    <3>1. CASE n = new
      <4>1. next[n] # NULL => next[n] \in Linked /\ Bucket[key[next[n]]] = Slot(t)
        BY <1>3, <1>4, <1>6, <3>1 DEF ChainOrder
      <4>. QED  BY <1>1, <1>5, <1>7, <1>8, <3>1, <4>1 DEF SameChain
    <3>2. CASE n \in Linked
      <4>1. /\ hashtab[Bucket[key[n]]] \in Linked
            /\ rank[n] <= rank[hashtab[Bucket[key[n]]]]
            /\ hashtab[Bucket[key[n]]] # NULL
        BY <1>6, <2>2, <3>2 DEF ChainOrder
      <4>2. next[n] # NULL => next[n] \in Linked /\ SameChain(n, next[n])
                              /\ rank[next[n]] < rank[n]
        BY <1>6, <3>2 DEF ChainOrder
      <4>3. hashtab'[Bucket[key[n]]] # NULL
            /\ rank2[n] <= rank2[hashtab'[Bucket[key[n]]]]
        <5>1. CASE Bucket[key[n]] = Slot(t)
          BY <1>5, <1>7, <3>2, <5>1
        <5>2. CASE Bucket[key[n]] # Slot(t)
          BY <1>5, <1>7, <2>2, <3>2, <4>1, <5>2
        <5>. QED  BY <5>1, <5>2
      <4>. QED  BY <1>1, <1>7, <3>2, <4>2, <4>3
    <3>. QED  BY <1>1, <3>1, <3>2
  <2>4. ASSUME NEW m \in Linked', NEW n \in Linked'
        PROVE  /\ rank2[m] = rank2[n] => m = n
               /\ SameChain(m, n) /\ rank2[m] < rank2[n] =>
                    next[n] # NULL /\ rank2[m] <= rank2[next[n]]
    <3>1. rank2[m] = rank2[n] => m = n
      BY <1>1, <1>6, <1>7 DEF ChainOrder
    <3>2. ASSUME SameChain(m, n), rank2[m] < rank2[n]
          PROVE  next[n] # NULL /\ rank2[m] <= rank2[next[n]]
      <4>1. m \in Linked
        BY <1>1, <1>7, <3>2
      <4>2. CASE n = new
        <5>1. Bucket[key[m]] = Slot(t)
          BY <1>8, <3>2, <4>2 DEF SameChain
        <5>2. hashtab[Slot(t)] # NULL /\ rank[m] <= rank[hashtab[Slot(t)]]
              /\ hashtab[Slot(t)] \in Linked
          BY <1>3, <1>6, <4>1, <5>1 DEF ChainOrder
        <5>. QED  BY <1>4, <1>7, <4>1, <4>2, <5>2
      <4>3. CASE n \in Linked
        <5>1. next[n] # NULL /\ rank[m] <= rank[next[n]] /\ next[n] \in Linked
          BY <1>6, <1>7, <3>2, <4>1, <4>3 DEF ChainOrder
        <5>. QED  BY <1>7, <4>1, <4>3, <5>1
      <4>. QED  BY <1>1, <4>2, <4>3
    <3>. QED  BY <3>1, <3>2
  <2>5. \A n \in Linked' :
          /\ rank2[n] < top2
          /\ hashtab'[Bucket[key'[n]]] # NULL
          /\ rank2[n] <= rank2[hashtab'[Bucket[key'[n]]]]
          /\ next'[n] # NULL => next'[n] \in Linked' /\ SameChain(n, next[n])'
                               /\ rank2[next'[n]] < rank2[n]
    BY <1>2, <2>3 DEF SameChain
  <2>6. \A m, n \in Linked' :
          /\ rank2[m] = rank2[n] => m = n
          /\ SameChain(m, n)' /\ rank2[m] < rank2[n] =>
               next'[n] # NULL /\ rank2[m] <= rank2[next'[n]]
    BY <1>2, <2>4 DEF SameChain
  <2>. QED  BY <1>2, <2>1, <2>5, <2>6 DEF ChainOrder
<1>10. \A u \in Tasks \ {t} : ~Installing(u)
                              /\ pc[u] \notin {"alloc", "next", "link", "set"}
  BY <1>3, OthersLookUp
<1>11. ASSUME NEW u \in Tasks  PROVE TaskEntry(u)'
  <2>1. CASE u = t
    BY <1>1, <1>2, <1>4, <2>1 DEF TaskEntry, Key
  <2>2. CASE u # t
    BY <1>1, <1>2, <1>10, <2>2, EntryTasks DEF TaskEntry, Key, Slot
  <2>. QED  BY <2>1, <2>2
<1>12. ASSUME NEW u \in Tasks  PROVE TaskWalk(u, rank2)'
  <2>1. CASE u = t
    BY <1>2, <2>1 DEF TaskWalk
  <2>2. CASE u # t
    <3>1. TaskWalk(u, rank) /\ ~Installing(u)
      BY <1>6, <1>10, <2>2, WalkTasks
    <3>2. Sought(u)' => Sought(u) /\ Key(u) # Key(t)
      BY <1>2, <1>4, <3>1 DEF Sought, Installing, Key, AttachedInv
    <3>3. pc[u] \in {"walk", "found"} =>
            /\ np[u] # NULL => np[u] \in Linked' /\ Bucket[key[np[u]]] = Slot(u)
            /\ Sought(u)' => \A n \in Linked' : key[n] = Key(u) =>
                 np[u] # NULL /\ rank2[n] <= rank2[np[u]]
      BY <1>1, <1>4, <1>7, <3>1, <3>2 DEF TaskWalk
    <3>4. pc'[u] = pc[u] /\ np'[u] = np[u] /\ key' = key /\ Slot(u)' = Slot(u)
          /\ Key(u)' = Key(u)
      BY <1>2, <2>2 DEF Slot, Key
    <3>. QED  BY <3>3, <3>4 DEF TaskWalk
  <2>. QED  BY <2>1, <2>2
<1>13. EntryInv' /\ Walks(rank2)'
  BY <1>11, <1>12 DEF EntryInv, Walks, TaskEntry, TaskWalk
<1>14. UniqueKeys'
  BY <1>1, <1>2, <1>4 DEF UniqueKeys
<1>. QED  BY <1>7, <1>9, <1>13, <1>14 DEF TableInv

\* A step of install or lookup, whichever it is.
LEMMA DictionaryTable ==
  ASSUME TwoTasks, DTypeOK, CallsInv, OneInstaller, EntryInv, UniqueKeys,
         TableInv, AttachedInv, NEW t \in Tasks, Dictionary(t)
  PROVE  EntryInv' /\ UniqueKeys' /\ TableInv' /\ AttachedInv'
<1>1. /\ InCall(t) /\ known' = known
      /\ attached' = IF pc[t] = "set"
                     THEN attached \cup {<<job[t].key, job[t].type>>} ELSE attached
  BY DEF Dictionary
<1>2. /\ \A u \in Tasks \ {t} : job'[u] = job[u]
      /\ \A u \in Tasks \ {t} : Sought(u)' => Sought(u)
  <2>1. \A u \in Tasks \ {t} : job'[u] = job[u]
    BY <1>1, InCallJob
  <2>. QED  BY <1>1, <2>1 DEF Sought, Installing, Key
<1>3. EntryInv' /\ UniqueKeys' /\ TableInv'
  <2>1. CASE LookupHead(t) \/ LookupNext(t) \/ LookupReturn(t)
    BY <1>1, <2>1, LookupTable
  <2>2. CASE Allocate(t) \/ SetNext(t)
    BY <1>1, <2>2, PrepareTable
  <2>3. CASE Link(t)
    BY <1>1, <2>3, LinkTable
  <2>4. CASE AllocateFails(t) \/ SetPointer(t)
    <3>1. /\ Finish(t) /\ UNCHANGED <<hashtab, key, next>>
          /\ pc[t] \notin {"next", "link"}
      BY <2>4 DEF AllocateFails, SetPointer, memory
    <3>. QED  BY <1>2, <3>1, FinishTable
  <2>. QED  BY <1>1, <2>1, <2>2, <2>3, <2>4 DEF InCall
<1>4. /\ Linked \subseteq Linked' /\ Linked \subseteq Nodes
      /\ \A n \in Linked : key'[n] = key[n] /\ ptr[n] \subseteq ptr'[n]
  BY <1>1, LinkedSteps DEF Linked
<1>5. ASSUME NEW p \in attached'
      PROVE  \E n \in Linked' : key'[n] = p[1] /\ p[2] \in ptr'[n]
  <2>1. CASE p \in attached
    <3>1. PICK n \in Linked : key[n] = p[1] /\ p[2] \in ptr[n]
      BY <2>1 DEF AttachedInv
    <3>. QED  BY <1>4, <3>1
  <2>2. CASE p \notin attached
    <3>1. pc[t] = "set" /\ p = <<job[t].key, job[t].type>>
      BY <1>1, <2>2
    <3>2. SetPointer(t)
      BY <1>1, <3>1 DEF InCall, LookupHead, LookupNext, LookupReturn, Allocate,
         AllocateFails, SetNext, Link
    <3>3. np[t] \in Linked /\ key[np[t]] = Key(t)
      BY <3>1 DEF EntryInv
    <3>4. job[t].type \in ptr'[np[t]]
      BY <1>4, <3>2, <3>3 DEF SetPointer, DTypeOK
    <3>. QED  BY <1>4, <3>1, <3>3, <3>4 DEF Key
  <2>. QED  BY <2>1, <2>2
<1>6. AttachedInv'
  BY <1>1, <1>5 DEF AttachedInv
<1>. QED  BY <1>3, <1>6

LEMMA ArrivalTypes ==
  ASSUME NEW m \in Messages, NEW a \in Arrivals[m]
  PROVE  a.topic \in Keys /\ a.type \in Types
BY DEF Arrivals, Packets

LEMMA TableStep ==
  ASSUME TelemetryAssumption, TwoTasks, DTypeOK, CallsInv, OneInstaller,
         EntryInv, UniqueKeys, TableInv, AttachedInv, [Next]_vars,
         \A t \in Tasks : calls[t] \in 0..Len(Plan[t])
  PROVE  DTypeOK' /\ EntryInv' /\ UniqueKeys' /\ TableInv' /\ AttachedInv'
<1>1. ASSUME NEW t \in Tasks, Attach(t)
      PROVE  DTypeOK' /\ EntryInv' /\ UniqueKeys' /\ TableInv' /\ AttachedInv'
  <2>1. PICK k \in Keys, ty \in Types : Begin(t, "install", k, ty)
    <3>1. Plan[t] \in Seq(Keys \X Types) /\ calls[t] + 1 \in 1..Len(Plan[t])
      BY <1>1, TelemetryAssumption DEF Attach
    <3>2. Plan[t][calls[t] + 1] \in Keys \X Types
      BY <3>1
    <3>. QED  BY <1>1, <3>2 DEF Attach
  <2>2. UNCHANGED <<known, attached>> /\ UNCHANGED <<key, ptr>>
    BY <1>1, <2>1 DEF Attach, Begin, memory
  <2>3. \A u \in Tasks \ {t} : Sought(u)' => Sought(u)
    BY <2>1, <2>2 DEF Begin, Sought, Installing, Key, DTypeOK
  <2>4. EntryInv' /\ UniqueKeys' /\ TableInv' /\ Linked' = Linked
    BY <2>1, <2>3, BeginTable
  <2>. QED  BY <2>1, <2>2, <2>4, BeginType DEF AttachedInv
<1>2. ASSUME NEW t \in Tasks, Dictionary(t)
      PROVE  DTypeOK' /\ EntryInv' /\ UniqueKeys' /\ TableInv' /\ AttachedInv'
  BY <1>2, DictionaryTable, InCallType DEF Dictionary
<1>3. CASE OnIncomingFrame
  <2>1. PICK k \in Keys, ty \in Types : Begin(Receiver, "lookup", k, ty)
    BY <1>3, ArrivalTypes DEF OnIncomingFrame
  <2>2. known' = attached /\ attached' = attached /\ UNCHANGED <<key, ptr>>
    BY <1>3, <2>1 DEF OnIncomingFrame, Begin, memory
  <2>3. ASSUME NEW u \in Tasks \ {Receiver}, pc[u] \in {"walk", "found"}, Sought(u)'
        PROVE  Sought(u)
    BY <2>3 DEF CallsInv, Sought
  <2>4. EntryInv' /\ UniqueKeys' /\ TableInv' /\ Linked' = Linked
    BY <2>1, <2>3, BeginTable, TelemetryAssumption
  <2>. QED  BY <2>1, <2>2, <2>4, BeginType, TelemetryAssumption DEF AttachedInv
<1>4. CASE TryUpdate
  <2>1. /\ Finish(Receiver) /\ UNCHANGED <<hashtab, next, key, ptr>>
        /\ known' = {} /\ attached' = attached /\ pc[Receiver] = "found"
    BY <1>4 DEF TryUpdate, memory
  <2>2. ASSUME NEW u \in Tasks \ {Receiver}, pc[u] \in {"walk", "found"}, Sought(u)'
        PROVE  Sought(u)
    BY <2>2 DEF CallsInv, Sought
  <2>3. EntryInv' /\ UniqueKeys' /\ TableInv' /\ Linked' = Linked
    BY <2>1, <2>2, FinishTable, TelemetryAssumption
  <2>4. DTypeOK'
    BY <2>1, FinishType, TelemetryAssumption DEF DTypeOK
  <2>. QED  BY <2>1, <2>3, <2>4 DEF AttachedInv
<1>5. CASE UNCHANGED vars
  <2>. USE <1>5 DEF vars, dvars, memory, locals, telemetry
  <2>1. DTypeOK'
    BY DEF DTypeOK
  <2>2. Linked' = Linked
    BY DEF Linked
  <2>3. EntryInv' /\ UniqueKeys' /\ AttachedInv'
    BY <2>2 DEF EntryInv, UniqueKeys, AttachedInv, Key, Slot
  <2>4. TableInv'
    <3>1. PICK rank \in [Nodes -> Nat], top \in Nat : ChainOrder(rank, top) /\ Walks(rank)
      BY DEF TableInv
    <3>2. ChainOrder(rank, top)'
      BY <2>2, <3>1, ChainKept
    <3>3. Walks(rank)'
      BY <2>2, <3>1 DEF Walks, Sought, Installing, Key, Slot
    <3>. QED  BY <3>2, <3>3 DEF TableInv
  <2>. QED  BY <2>1, <2>3, <2>4
<1>. QED  BY <1>1, <1>2, <1>3, <1>4, <1>5 DEF Next

LEMMA LookupStep ==
  ASSUME TelemetryAssumption, DTypeOK, CallsInv, LookupInv, [Next]_vars
  PROVE  LookupInv'
<1>. DEFINE R == Receiver
<1>0. R \in Tasks
  BY TelemetryAssumption
<1>1. ASSUME NEW t \in Tasks, Attach(t)  PROVE LookupInv'
  <2>1. pc[t] = "idle" /\ UNCHANGED <<packet, known>> /\ job'[t].op = "install"
        /\ \A u \in Tasks \ {t} : job'[u] = job[u] /\ pc'[u] = pc[u]
    BY <1>1 DEF Attach, Begin, Goto, DTypeOK
  <2>2. CASE t = R
    BY <1>0, <2>1, <2>2 DEF LookupInv, Installing
  <2>3. CASE t # R
    BY <1>0, <2>1, <2>3 DEF LookupInv, Installing
  <2>. QED  BY <2>2, <2>3
<1>2. ASSUME NEW t \in Tasks, Dictionary(t)  PROVE LookupInv'
  <2>1. InCall(t) /\ UNCHANGED <<packet, known>>
    BY <1>2 DEF Dictionary
  <2>2. /\ pc[t] # "idle"
        /\ \A u \in Tasks \ {t} : job'[u] = job[u] /\ pc'[u] = pc[u]
        /\ \/ job'[t] = job[t] /\ pc'[t] # "idle"
           \/ job'[t] = Idle /\ pc'[t] = "idle"
    BY <2>1, InCallJob
  <2>3. job'[t] = Idle => Installing(t)
    <3>1. AllocateFails(t) \/ SetPointer(t) => Installing(t)
      BY DEF AllocateFails, SetPointer, CallsInv
    <3>2. ~(AllocateFails(t) \/ SetPointer(t)) => job'[t] = job[t]
      BY <2>1 DEF InCall, LookupHead, LookupNext, LookupReturn, Allocate, SetNext, Link
    <3>. QED  BY <2>2, <3>1, <3>2 DEF CallsInv
  <2>4. CASE t = R /\ job'[t] = job[t] /\ pc'[t] # "idle"
    BY <2>1, <2>2, <2>4 DEF LookupInv, Installing
  <2>5. CASE t = R /\ job'[t] = Idle /\ pc'[t] = "idle"
    BY <2>1, <2>3, <2>5 DEF LookupInv, Installing
  <2>6. CASE t # R
    BY <1>0, <2>1, <2>2, <2>6 DEF LookupInv, Installing
  <2>. QED  BY <2>2, <2>4, <2>5, <2>6
<1>3. CASE OnIncomingFrame
  <2>1. PICK a : /\ Begin(R, "lookup", a.topic, a.type)
                 /\ packet' = [type |-> a.type, buffer |-> a.buffer]
    BY <1>3 DEF OnIncomingFrame
  <2>2. pc'[R] = "head" /\ job'[R] = [op |-> "lookup", key |-> a.topic, type |-> a.type]
    BY <1>0, <2>1 DEF Begin, Goto, DTypeOK
  <2>. QED  BY <2>1, <2>2 DEF LookupInv, Installing
<1>4. CASE TryUpdate
  <2>1. packet' = NoPacket /\ known' = {} /\ pc'[R] = "idle"
    BY <1>0, <1>4 DEF TryUpdate, Finish, Goto, DTypeOK
  <2>. QED  BY <2>1 DEF LookupInv
<1>5. CASE UNCHANGED vars
  BY <1>5 DEF LookupInv, Installing, vars, dvars, locals, telemetry
<1>. QED  BY <1>1, <1>2, <1>3, <1>4, <1>5 DEF Next

CallsType == calls \in [Tasks -> Nat] /\ \A t \in Tasks : calls[t] \in 0..Len(Plan[t])

\* The inductive invariant of the table and its callers.
TableSafe ==
  /\ DTypeOK /\ CallsType
  /\ CallsInv /\ OneInstaller /\ LookupInv
  /\ EntryInv /\ UniqueKeys /\ TableInv /\ AttachedInv

LEMMA CallsTypeStep ==
  ASSUME TelemetryAssumption, CallsType, [Next]_vars
  PROVE  CallsType'
<1>. USE DEF CallsType
<1>1. ASSUME NEW t \in Tasks, Attach(t)  PROVE CallsType'
  <2>1. calls[t] < Len(Plan[t]) /\ calls' = [calls EXCEPT ![t] = @ + 1]
        /\ Len(Plan[t]) \in Nat
    BY <1>1, TelemetryAssumption DEF Attach
  <2>. QED  BY <2>1
<1>2. CASE UNCHANGED calls
  BY <1>2
<1>. QED
  BY <1>1, <1>2 DEF Next, Dictionary, OnIncomingFrame, TryUpdate, vars, telemetry

LEMMA TableSafeInit == TelemetryAssumption /\ Init => TableSafe
<1>. SUFFICES ASSUME TelemetryAssumption, Init  PROVE TableSafe
  OBVIOUS
<1>1. DTypeOK
  BY DictionaryAssumption, IdleType DEF Init, DInit, DTypeOK, Ref
<1>2. CallsType
  BY TelemetryAssumption DEF Init, CallsType
<1>3. CallsInv /\ OneInstaller /\ LookupInv
  BY TelemetryAssumption DEF Init, DInit, CallsInv, OneInstaller, LookupInv,
     Installing, Idle
<1>4. Linked = {}
  BY DEF Init, DInit, Linked
<1>5. EntryInv /\ UniqueKeys /\ AttachedInv
  BY <1>4 DEF Init, DInit, EntryInv, UniqueKeys, AttachedInv
<1>6. TableInv
  <2>. DEFINE rank == [n \in Nodes |-> 0]
  <2>1. ChainOrder(rank, 0) /\ Walks(rank)
    BY <1>4, DictionaryAssumption DEF Init, DInit, ChainOrder, Walks
  <2>2. rank \in [Nodes -> Nat]
    OBVIOUS
  <2>. HIDE DEF rank
  <2>. QED  BY <2>1, <2>2 DEF TableInv
<1>. QED  BY <1>1, <1>2, <1>3, <1>5, <1>6 DEF TableSafe

LEMMA TableSafeStep ==
  ASSUME TelemetryAssumption, TwoTasks, TableSafe, [Next]_vars
  PROVE  TableSafe'
<1>1. CallsType'
  BY CallsTypeStep DEF TableSafe
<1>2. CallsInv' /\ LookupInv'
  BY CallsStep, LookupStep DEF TableSafe
<1>3. OneInstaller'
  BY OneInstallerStep DEF TableSafe, CallsType
<1>4. DTypeOK' /\ EntryInv' /\ UniqueKeys' /\ TableInv' /\ AttachedInv'
  BY TableStep DEF TableSafe, CallsType
<1>. QED  BY <1>1, <1>2, <1>3, <1>4 DEF TableSafe

LEMMA TableSafeAlways == ASSUME TwoTasks  PROVE Spec => []TableSafe
<1>1. Init => TableSafe
  BY TableSafeInit, TelemetryAssumption
<1>2. TableSafe /\ [Next]_vars => TableSafe'
  BY TableSafeStep, TelemetryAssumption
<1>. QED  BY <1>1, <1>2, PTL DEF Spec

(* A message is not dropped because another task is installing an entry:   *)
(* if attach had returned when its lookup began, lookup finds the entry    *)
(* with the pointer, however the steps of the two tasks interleave.        *)
THEOREM LookupFindsAttached == ASSUME TwoTasks  PROVE Spec => []AttachedIsFound
<1>1. TableSafe => AttachedIsFound
  <2>. SUFFICES ASSUME TableSafe, pc[Receiver] = "found",
                       <<job[Receiver].key, packet.type>> \in known
                PROVE  np[Receiver] # NULL /\ packet.type \in ptr[np[Receiver]]
    BY DEF AttachedIsFound
  <2>1. Receiver \in Tasks /\ job[Receiver] # Idle
    BY TelemetryAssumption DEF TableSafe, CallsInv
  <2>2. PICK n \in Linked : key[n] = Key(Receiver) /\ packet.type \in ptr[n]
    BY DEF TableSafe, AttachedInv, Key
  <2>3. packet.type \in Types
    BY <2>1, JobType DEF TableSafe, CallsInv, LookupInv, Installing
  <2>4. Sought(Receiver)
    BY <2>3 DEF Sought, Key
  <2>5. np[Receiver] # NULL
    BY <2>1, <2>2, <2>4 DEF TableSafe, TableInv, Walks
  <2>6. np[Receiver] = n
    BY <2>1, <2>2, <2>5 DEF TableSafe, EntryInv, UniqueKeys
  <2>. QED  BY <2>2, <2>5, <2>6
<1>. QED  BY <1>1, TableSafeAlways, PTL

-----------------------------------------------------------------------------
(* What a lookup that starts now would meet.                               *)

LEMMA ChainIs ==
  ASSUME DTypeOK, NEW b \in Buckets
  PROVE  LET N == Cardinality(Nodes) IN
         /\ N \in Nat
         /\ Chain(b) \in [0..N -> Ref] /\ Chain(b)[0] = hashtab[b]
         /\ \A i \in 1..N :
              Chain(b)[i] = IF Chain(b)[i - 1] = NULL THEN NULL
                            ELSE next[Chain(b)[i - 1]]
<1>. DEFINE N == Cardinality(Nodes)
            after(f) == [i \in 0..N |-> IF i = 0 THEN hashtab[b]
                           ELSE IF f[i - 1] = NULL THEN NULL ELSE next[f[i - 1]]]
            go == [r \in Ref |-> IF r = NULL THEN NULL ELSE next[r]]
            step == [i \in 1..N |-> go]
<1>1. N \in Nat
  BY DictionaryAssumption, FS_CardinalityType
<1>. HIDE DEF N
<1>2. go \in [Ref -> Ref] /\ hashtab[b] \in Ref
  BY DEF DTypeOK, Ref
<1>3. PICK f \in [0..N -> Ref] :
        f[0] = hashtab[b] /\ \A i \in 1..N : f[i] = go[f[i - 1]]
  <2>1. step \in [1..N -> [Ref -> Ref]] /\ \A i \in 1..N : step[i] = go
    <3>. HIDE DEF go
    <3>. QED  BY <1>2
  <2>. HIDE DEF step, go
  <2>2. \E f : Iterates(f, N, Ref, hashtab[b], step)
    BY <1>1, <1>2, <2>1, Iteration
  <2>. QED  BY <2>1, <2>2 DEF Iterates
<1>4. f = after(f)
  <2>1. ASSUME NEW i \in 1..N
        PROVE  f[i] = IF f[i - 1] = NULL THEN NULL ELSE next[f[i - 1]]
    <3>1. f[i - 1] \in Ref
      BY <1>1, <1>3
    <3>. QED  BY <1>3, <3>1
  <2>2. \A i \in 0..N : i = 0 \/ i \in 1..N
    BY <1>1
  <2>3. \A i \in 0..N : f[i] = IF i = 0 THEN hashtab[b]
                       ELSE IF f[i - 1] = NULL THEN NULL ELSE next[f[i - 1]]
    BY <1>1, <1>3, <2>1, <2>2
  <2>. QED  BY <2>3
<1>5. Chain(b) = CHOOSE g : g = after(g)
  BY DEF Chain, N
<1>6. Chain(b) = after(Chain(b))
  <2>. HIDE DEF after
  <2>. QED  BY <1>4, <1>5
<1>. DEFINE c == Chain(b)
<1>7. c = after(c)
  BY <1>6
<1>. HIDE DEF c
<1>8. c[0] = hashtab[b] /\ \A i \in 1..N :
        c[i] = IF c[i - 1] = NULL THEN NULL ELSE next[c[i - 1]]
  BY <1>1, <1>7
<1>9. c \in [0..N -> Ref]
  <2>. DEFINE G == {i \in Nat : i <= N => c[i] \in Ref}
  <2>1. 0 \in G
    BY <1>2, <1>8
  <2>2. ASSUME NEW i \in Nat, i <= N => c[i] \in Ref, i + 1 <= N
        PROVE  c[i + 1] \in Ref
    <3>1. i + 1 \in 1..N /\ (i + 1) - 1 = i /\ c[i] \in Ref
      BY <1>1, <2>2
    <3>2. c[i + 1] = IF c[i] = NULL THEN NULL ELSE next[c[i]]
      BY <1>8, <3>1
    <3>. QED  BY <3>1, <3>2 DEF DTypeOK, Ref
  <2>3. Nat \subseteq G
    <3>1. 0 \in G /\ \A i \in Nat : i \in G => i + 1 \in G
      BY <1>1, <2>1, <2>2
    <3>. HIDE DEF G
    <3>. QED  BY <3>1, Induction
  <2>4. \A i \in 0..N : c[i] \in Ref
    BY <1>1, <2>3
  <2>. QED  BY <1>7, <2>4
<1>. QED  BY <1>1, <1>8, <1>9 DEF c, N

\* The ranks fall along a chain, so that it ends before it has met more
\* entries than there are.
LEMMA ChainEnds ==
  ASSUME DTypeOK, NEW b \in Buckets,
         NEW rank \in [Nodes -> Nat], NEW top \in Nat, ChainOrder(rank, top)
  PROVE  /\ Chain(b)[Cardinality(Nodes)] = NULL
         /\ \A n \in InChain(b) : n \in Linked /\ Bucket[key[n]] = b
<1>. DEFINE c == Chain(b)
            N == Cardinality(Nodes)
<1>1. /\ N \in Nat /\ c \in [0..N -> Ref] /\ c[0] = hashtab[b]
      /\ \A i \in 1..N : c[i] = IF c[i - 1] = NULL THEN NULL ELSE next[c[i - 1]]
  BY ChainIs
<1>2. InChain(b) = {c[i] : i \in 0..N} \ {NULL}
  BY DEF InChain
<1>3. Linked \subseteq Nodes /\ IsFiniteSet(Nodes)
  BY DictionaryAssumption DEF Linked
<1>. HIDE DEF c, N
<1>4. ASSUME NEW i \in Nat, i + 1 <= N
      PROVE  /\ i + 1 \in 1..N /\ i \in 0..N /\ c[i] \in Ref
             /\ c[i + 1] = IF c[i] = NULL THEN NULL ELSE next[c[i]]
  <2>1. i + 1 \in 1..N /\ i \in 0..N /\ (i + 1) - 1 = i
    BY <1>1, <1>4
  <2>2. c[i + 1] = IF c[(i + 1) - 1] = NULL THEN NULL ELSE next[c[(i + 1) - 1]]
    BY <1>1, <2>1
  <2>. QED  BY <1>1, <2>1, <2>2
<1>5. \A i \in 0..N : c[i] # NULL => c[i] \in Linked /\ Bucket[key[c[i]]] = b
  <2>. DEFINE P(i) == c[i] # NULL => c[i] \in Linked /\ Bucket[key[c[i]]] = b
              G == {i \in Nat : i <= N => P(i)}
  <2>1. P(0)
    BY <1>1 DEF ChainOrder
  <2>2. ASSUME NEW i \in Nat, P(i), i + 1 <= N  PROVE P(i + 1)
    BY <1>4, <2>2 DEF ChainOrder, SameChain
  <2>. HIDE DEF P
  <2>3. 0 \in G /\ \A i \in Nat : i \in G => i + 1 \in G
    BY <1>1, <2>1, <2>2
  <2>4. Nat \subseteq G
    <3>. HIDE DEF G
    <3>. QED  BY <2>3, Induction
  <2>5. \A i \in 0..N : P(i)
    BY <1>1, <2>4
  <2>. QED  BY <2>5 DEF P
<1>6. \A n \in InChain(b) : n \in Linked /\ Bucket[key[n]] = b
  BY <1>2, <1>5
<1>7. ASSUME c[N] # NULL  PROVE FALSE
  <2>1. \A i \in 0..N : c[i] # NULL
    <3>. DEFINE G == {i \in Nat : i <= N => c[N - i] # NULL}
    <3>1. ASSUME NEW i \in Nat, i <= N => c[N - i] # NULL, i + 1 <= N
          PROVE  c[N - (i + 1)] # NULL
      <4>1. N - (i + 1) \in Nat /\ (N - (i + 1)) + 1 = N - i /\ N - i <= N
        BY <1>1, <3>1
      <4>. QED  BY <1>4, <3>1, <4>1
    <3>2. 0 \in G /\ \A i \in Nat : i \in G => i + 1 \in G
      BY <1>1, <1>7, <3>1
    <3>3. Nat \subseteq G
      <4>. HIDE DEF G
      <4>. QED  BY <3>2, Induction
    <3>4. ASSUME NEW i \in 0..N  PROVE c[i] # NULL
      <4>1. N - i \in Nat /\ N - i <= N /\ N - (N - i) = i
        BY <1>1
      <4>2. N - i \in G
        BY <3>3, <4>1
      <4>3. c[N - (N - i)] # NULL
        BY <4>1, <4>2
      <4>. QED  BY <4>1, <4>3
    <3>. QED  BY <3>4
  <2>2. \A i \in 0..N : c[i] \in Linked /\ rank[c[i]] \in Nat
    BY <1>3, <1>5, <2>1
  <2>3. ASSUME NEW i \in Nat, i + 1 <= N  PROVE rank[c[i + 1]] < rank[c[i]]
    <3>1. c[i + 1] = next[c[i]] /\ i + 1 \in 0..N /\ i \in 0..N
      BY <1>1, <1>4, <2>1, <2>3
    <3>2. c[i] \in Linked /\ next[c[i]] # NULL
      BY <2>1, <2>2, <3>1
    <3>. QED  BY <3>1, <3>2 DEF ChainOrder
  <2>4. \A j \in 0..N : \A i \in 0..N : i < j => rank[c[j]] < rank[c[i]]
    <3>. DEFINE P(j) == \A i \in 0..N : i < j => rank[c[j]] < rank[c[i]]
                G == {j \in Nat : j <= N => P(j)}
    <3>1. P(0)
      BY <1>1
    <3>2. ASSUME NEW j \in Nat, P(j), j + 1 <= N  PROVE P(j + 1)
      <4>1. SUFFICES ASSUME NEW i \in 0..N, i < j + 1
                     PROVE  rank[c[j + 1]] < rank[c[i]]
        OBVIOUS
      <4>2. /\ rank[c[j + 1]] < rank[c[j]] /\ rank[c[j + 1]] \in Nat
            /\ rank[c[j]] \in Nat /\ rank[c[i]] \in Nat
        BY <1>1, <2>2, <2>3, <3>2
      <4>3. i = j \/ i < j
        BY <1>1, <4>1
      <4>4. CASE i < j
        <5>1. rank[c[j]] < rank[c[i]]
          BY <3>2, <4>4
        <5>. QED  BY <4>2, <5>1
      <4>. QED  BY <4>2, <4>3, <4>4
    <3>. HIDE DEF P
    <3>3. 0 \in G /\ \A j \in Nat : j \in G => j + 1 \in G
      BY <1>1, <3>1, <3>2
    <3>4. Nat \subseteq G
      <4>. HIDE DEF G
      <4>. QED  BY <3>3, Induction
    <3>5. \A j \in 0..N : P(j)
      BY <1>1, <3>4
    <3>. QED  BY <3>5 DEF P
  <2>5. \A i, j \in 0..N : c[i] = c[j] => i = j
    <3>1. SUFFICES ASSUME NEW i \in 0..N, NEW j \in 0..N, c[i] = c[j], i # j
                   PROVE  FALSE
      OBVIOUS
    <3>2. i < j \/ j < i
      BY <1>1, <3>1
    <3>. QED  BY <2>2, <2>4, <3>1, <3>2
  <2>6. /\ IsFiniteSet(0..N) /\ Cardinality(0..N) = N + 1
        /\ c \in [0..N -> Nodes]
    <3>1. IsFiniteSet(0..N) /\ Cardinality(0..N) = (IF 0 > N THEN 0 ELSE N - 0 + 1)
      <4>1. 0 \in Int /\ N \in Int
        BY <1>1
      <4>. QED  BY <4>1, FS_Interval, Zenon
    <3>2. \A i \in 0..N : c[i] \in Nodes
      BY <1>3, <2>2
    <3>. QED  BY <1>1, <3>1, <3>2
  <2>7. Cardinality(Nodes) < Cardinality(0..N)
    BY <1>1, <2>6 DEF N
  <2>8. \E i, j \in 0..N : i # j /\ c[i] = c[j]
    BY <1>3, <2>6, <2>7, FS_PigeonHole
  <2>. QED  BY <2>5, <2>8
<1>. QED  BY <1>6, <1>7 DEF c, N

(* Whatever install is in the middle of, a lookup that starts now ends,    *)
(* and every entry it meets is complete, in the right chain and the only   *)
(* one for its key.                                                        *)
THEOREM LookupEndsAndIsUnique == ASSUME TwoTasks  PROVE Spec => []ChainsSound
<1>1. TableSafe => ChainsSound
  <2>. SUFFICES ASSUME TableSafe, NEW b \in Buckets
                PROVE  /\ Chain(b)[Cardinality(Nodes)] = NULL
                       /\ \A n \in InChain(b) : key[n] \in Keys /\ Bucket[key[n]] = b
                       /\ \A m, n \in InChain(b) : key[m] = key[n] => m = n
    BY DEF ChainsSound
  <2>1. PICK rank \in [Nodes -> Nat], top \in Nat : ChainOrder(rank, top)
    BY DEF TableSafe, TableInv
  <2>2. /\ Chain(b)[Cardinality(Nodes)] = NULL
        /\ \A n \in InChain(b) : n \in Linked /\ Bucket[key[n]] = b
    BY <2>1, ChainEnds DEF TableSafe
  <2>3. \A n \in Linked : key[n] \in Keys
    BY DEF TableSafe, DTypeOK, Linked
  <2>. QED  BY <2>2, <2>3 DEF TableSafe, UniqueKeys
<1>. QED  BY <1>1, TableSafeAlways, PTL

-----------------------------------------------------------------------------
(* The frames.                                                             *)

Content(m) == <<Code[m.type], 0>> \o Text[m.topic] \o <<0>> \o m.data

JoinedFrom(u, s, t, S) ==
  /\ u \in Seq(S) /\ Len(u) = Len(s) + Len(t)
  /\ \A i \in 1..Len(s) : u[i] = s[i]
  /\ \A i \in 1..Len(t) : u[Len(s) + i] = t[i]

LEMMA Joined ==
  ASSUME NEW S, NEW s \in Seq(S), NEW t \in Seq(S), NEW u, u = s \o t
  PROVE  JoinedFrom(u, s, t, S)
BY DEF JoinedFrom

\* Byte for byte: header, topic, NULL character, payload, check sum.
LEMMA FrameBytes ==
  ASSUME NEW m \in Messages
  PROVE  LET n == Len(Text[m.topic])  w == Len(m.data)  f == Frame(m) IN
         /\ n \in Nat \ {0} /\ w \in 1..4
         /\ Content(m) \in Seq(Bytes) /\ Len(Content(m)) = n + w + 3
         /\ f \in Seq(Bytes) /\ Len(f) = n + w + 5
         /\ f = Content(m) \o CrcBytes(Content(m))
         /\ f[1] = Code[m.type] /\ f[2] = 0 /\ f[n + 3] = 0
         /\ \A i \in 1..n : f[i + 2] = Text[m.topic][i] /\ f[i + 2] # 0
         /\ \A i \in 1..w : f[n + 3 + i] = m.data[i]
<1>. DEFINE T == Text[m.topic]
            d == m.data
            n == Len(T)
            w == Len(d)
            c == Content(m)
            k == CrcBytes(c)
            f == Frame(m)
<1>1. /\ T \in Seq(Bytes \ {0}) /\ T # <<>> /\ d \in Seq(Bytes) /\ w \in 1..4
      /\ Code[m.type] \in 0..7
  <2>1. /\ m.topic \in Keys /\ m.type \in Types
        /\ m.data \in Seq(Bytes) /\ Len(m.data) = Width[m.type]
    BY TelemetryAssumption
  <2>2. Text[m.topic] \in Seq(Bytes \ {0}) /\ Text[m.topic] # <<>>
    BY <2>1, TelemetryAssumption
  <2>3. Code[m.type] \in 0..7 /\ Width[m.type] \in 1..4
    BY <2>1, TelemetryAssumption
  <2>. QED  BY <2>1, <2>2, <2>3
<1>2. 0 \in Bytes /\ Code[m.type] \in Bytes
  BY <1>1 DEF Bytes
<1>3. n \in Nat \ {0} /\ T \in Seq(Bytes) /\ \A i \in 1..n : T[i] \in Bytes /\ T[i] # 0
  BY <1>1
<1>. DEFINE h == <<Code[m.type], 0>>
<1>4. h \in Seq(Bytes) /\ Len(h) = 2 /\ h[1] = Code[m.type] /\ h[2] = 0
  BY <1>2
<1>. DEFINE z == <<0>>
<1>5. z \in Seq(Bytes) /\ Len(z) = 1 /\ z[1] = 0
  BY <1>2
<1>6. c = h \o T \o z \o d
  BY DEF Content
<1>7. f = c \o k
  BY DEF Frame, Content
<1>. HIDE DEF T, d, c, h, z
<1>8. /\ c \in Seq(Bytes) /\ Len(c) = n + w + 3
      /\ c[1] = Code[m.type] /\ c[2] = 0 /\ c[n + 3] = 0
      /\ \A i \in 1..n : c[i + 2] = T[i]
      /\ \A i \in 1..w : c[n + 3 + i] = d[i]
  <2>. DEFINE hT == h \o T
              hTz == hT \o z
  <2>0. /\ hT \in Seq(Bytes) /\ Len(hT) = 2 + n
        /\ \A i \in 1..2 : hT[i] = h[i]
        /\ \A i \in 1..n : hT[2 + i] = T[i]
    <3>1. JoinedFrom(hT, h, T, Bytes)
      BY <1>3, <1>4, Joined
    <3>. HIDE DEF hT
    <3>. QED  BY <1>4, <3>1 DEF JoinedFrom
  <2>1. /\ hT \in Seq(Bytes) /\ Len(hT) = n + 2 /\ hT[1] = h[1] /\ hT[2] = h[2]
        /\ \A i \in 1..n : hT[i + 2] = T[i]
    <3>. HIDE DEF hT
    <3>. QED  BY <1>3, <2>0
  <2>. HIDE DEF hT
  <2>2. /\ hTz \in Seq(Bytes) /\ Len(hTz) = n + 3
        /\ \A i \in 1..(n + 2) : hTz[i] = hT[i]
        /\ hTz[n + 3] = 0
    <3>1. /\ hTz \in Seq(Bytes) /\ Len(hTz) = (n + 2) + 1
          /\ \A i \in 1..(n + 2) : hTz[i] = hT[i]
          /\ \A i \in 1..1 : hTz[(n + 2) + i] = z[i]
      <4>1. JoinedFrom(hTz, hT, z, Bytes)
        BY <1>5, <2>1, Joined
      <4>. HIDE DEF hTz
      <4>. QED  BY <1>5, <2>1, <4>1 DEF JoinedFrom
    <3>. HIDE DEF hTz
    <3>. QED  BY <1>3, <1>5, <3>1
  <2>3. c = hTz \o d
    BY <1>6 DEF hT
  <2>. HIDE DEF hTz
  <2>4. /\ c \in Seq(Bytes) /\ Len(c) = n + w + 3
        /\ \A i \in 1..(n + 3) : c[i] = hTz[i]
        /\ \A i \in 1..w : c[n + 3 + i] = d[i]
    <3>1. /\ c \in Seq(Bytes) /\ Len(c) = (n + 3) + w
          /\ \A i \in 1..(n + 3) : c[i] = hTz[i]
          /\ \A i \in 1..w : c[(n + 3) + i] = d[i]
      <4>1. JoinedFrom(c, hTz, d, Bytes)
        BY <1>1, <2>2, <2>3, Joined
      <4>. QED  BY <2>2, <4>1 DEF JoinedFrom
    <3>. QED  BY <1>1, <1>3, <3>1
  <2>5. c[1] = h[1] /\ c[2] = h[2] /\ c[n + 3] = 0
    <3>1. 1 \in 1..(n + 2) /\ 2 \in 1..(n + 2)
          /\ 1 \in 1..(n + 3) /\ 2 \in 1..(n + 3) /\ n + 3 \in 1..(n + 3)
      BY <1>3
    <3>. QED  BY <2>1, <2>2, <2>4, <3>1
  <2>6. ASSUME NEW i \in 1..n  PROVE c[i + 2] = T[i]
    <3>1. i + 2 \in 1..(n + 2) /\ i + 2 \in 1..(n + 3)
      BY <1>3
    <3>. QED  BY <2>1, <2>2, <2>4, <3>1
  <2>. QED  BY <1>4, <2>4, <2>5, <2>6
<1>9. k \in Seq(Bytes) /\ Len(k) = 2
  <2>1. k \in Bytes \X Bytes
    BY <1>8, CrcType
  <2>. QED  BY <2>1 DEF CrcBytes
<1>. HIDE DEF k, f
<1>10. /\ f \in Seq(Bytes) /\ Len(f) = n + w + 5
       /\ \A i \in 1..(n + w + 3) : f[i] = c[i]
  <2>1. /\ f \in Seq(Bytes) /\ Len(f) = (n + w + 3) + 2
        /\ \A i \in 1..(n + w + 3) : f[i] = c[i]
    <3>1. JoinedFrom(f, c, k, Bytes)
      BY <1>7, <1>8, <1>9, Joined
    <3>. QED  BY <1>8, <1>9, <3>1 DEF JoinedFrom
  <2>. QED  BY <1>1, <1>3, <2>1
<1>11. /\ f[1] = Code[m.type] /\ f[2] = 0 /\ f[n + 3] = 0
       /\ \A i \in 1..n : f[i + 2] = T[i] /\ f[i + 2] # 0
       /\ \A i \in 1..w : f[n + 3 + i] = d[i]
  <2>1. /\ 1 \in 1..(n + w + 3) /\ 2 \in 1..(n + w + 3)
        /\ n + 3 \in 1..(n + w + 3)
        /\ \A i \in 1..n : i + 2 \in 1..(n + w + 3)
        /\ \A i \in 1..w : n + 3 + i \in 1..(n + w + 3)
    BY <1>3
  <2>2. \A i \in 1..(n + w + 3) : f[i] = c[i]
    BY <1>10
  <2>3. f[1] = Code[m.type] /\ f[2] = 0 /\ f[n + 3] = 0
    BY <1>8, <2>1, <2>2
  <2>4. \A i \in 1..n : f[i + 2] = T[i] /\ f[i + 2] # 0
    BY <1>1, <1>3, <1>8, <2>1, <2>2
  <2>5. \A i \in 1..w : f[n + 3 + i] = d[i]
    BY <1>8, <2>1, <2>2
  <2>. QED  BY <2>3, <2>4, <2>5
<1>. QED  BY <1>1, <1>3, <1>7, <1>8, <1>10, <1>11 DEF T, d, c, k, f

\* u is the part m..n of s.
PartOf(u, s, m, n, S) ==
  /\ u \in Seq(S) /\ Len(u) = n - m + 1
  /\ \A i \in 1..(n - m + 1) : u[i] = s[m + i - 1]

LEMMA Part ==
  ASSUME NEW S, NEW s \in Seq(S), NEW m \in Nat \ {0}, NEW n \in Nat,
         n <= Len(s), m <= n + 1, NEW u, u = SubSeq(s, m, n)
  PROVE  PartOf(u, s, m, n, S)
<1>1. \A i \in 1..(n - m + 1) : m + i - 1 \in 1..Len(s)
  OBVIOUS
<1>2. u = [i \in 1..(n - m + 1) |-> s[m + i - 1]]
  OBVIOUS
<1>. QED  BY <1>1, <1>2 DEF PartOf

LEMMA SameSequence ==
  ASSUME NEW S, NEW s \in Seq(S), NEW t \in Seq(S), Len(s) = Len(t),
         \A i \in 1..Len(s) : s[i] = t[i]
  PROVE  s = t
OBVIOUS

\* A frame that arrives as it was sent is taken for the message it carries.
LEMMA IntactFrame ==
  ASSUME NEW m \in Messages
  PROVE  /\ Accepted(Frame(m))
         /\ \A a \in Packets(Frame(m)) :
              /\ a.topic = m.topic /\ a.type = m.type
              /\ a.buffer \in Seq(Bytes) /\ Len(a.buffer) >= Width[m.type]
              /\ SubSeq(a.buffer, 1, Width[m.type]) = m.data
         /\ Packets(Frame(m)) # {}
<1>. DEFINE T == Text[m.topic]
            n == Len(T)
            w == Len(m.data)
            c == Content(m)
            f == Frame(m)
            L == Len(f)
<1>1. /\ n \in Nat \ {0} /\ w \in 1..4
      /\ c \in Seq(Bytes) /\ Len(c) = n + w + 3
      /\ f \in Seq(Bytes) /\ L = n + w + 5
      /\ f = c \o CrcBytes(c)
      /\ f[1] = Code[m.type] /\ f[2] = 0 /\ f[n + 3] = 0
      /\ \A i \in 1..n : f[i + 2] = T[i] /\ f[i + 2] # 0
      /\ \A i \in 1..w : f[n + 3 + i] = m.data[i]
  BY FrameBytes
<1>2. /\ m.topic \in Keys /\ m.type \in Types /\ T \in Seq(Bytes \ {0})
      /\ m.data \in Seq(Bytes) /\ w = Width[m.type] /\ Code[m.type] \in 0..7
  BY TelemetryAssumption
<1>3. T \in Seq(Bytes)
  BY <1>2
<1>. DEFINE k == CrcBytes(c)
<1>4. k \in Seq(Bytes) /\ Len(k) = 2
  <2>1. k \in Bytes \X Bytes
    BY <1>1, CrcType
  <2>. QED  BY <2>1 DEF CrcBytes
<1>. HIDE DEF T, n, w, c, f, k
<1>sizes. n \in Nat \ {0} /\ w \in 1..4 /\ f \in Seq(Bytes) /\ Len(f) = n + w + 5
  BY <1>1
<1>5. TopicSize(f) = n
  <2>. DEFINE ends == {i \in 3..L : f[i] = 0}
  <2>1. n + 3 \in ends /\ n + 3 \in Int
    BY <1>1
  <2>2. ASSUME NEW i \in ends  PROVE n + 3 <= i
    <3>1. SUFFICES ASSUME i < n + 3  PROVE FALSE
      BY <1>1, <2>2
    <3>2. i - 2 \in 1..n /\ (i - 2) + 2 = i
      BY <1>1, <2>2, <3>1
    <3>3. f[(i - 2) + 2] # 0
      BY <1>1, <3>2
    <3>. QED  BY <2>2, <3>2, <3>3
  <2>3. \A x \in ends : x \in Int
    BY <1>1
  <2>. DEFINE e == Min(ends)
  <2>. HIDE DEF ends
  <2>4. e = CHOOSE x \in ends : \A y \in ends : x <= y
    BY DEF Min
  <2>5. e \in ends /\ \A y \in ends : e <= y
    <3>. HIDE DEF e
    <3>. QED  BY <2>1, <2>2, <2>4
  <2>. HIDE DEF e
  <2>6. e = n + 3
    BY <2>1, <2>2, <2>3, <2>5
  <2>7. TopicSize(f) = IF ends = {} THEN L - 2 ELSE e - 3
    BY DEF TopicSize, ends, e
  <2>8. ends # {} /\ e - 3 = n
    BY <1>sizes, <2>1, <2>6
  <2>. QED  BY <2>7, <2>8
<1>6. SubSeq(f, 1, L - 2) = c
  <2>. DEFINE u == SubSeq(f, 1, L - 2)
  <2>0. /\ 1 \in Nat \ {0} /\ L - 2 \in Nat
        /\ L - 2 <= Len(f) /\ 1 <= (L - 2) + 1
    BY <1>1
  <2>1. PartOf(u, f, 1, L - 2, Bytes)
    BY <1>1, <2>0, Part
  <2>2. JoinedFrom(f, c, k, Bytes)
    BY <1>1, <1>4, Joined DEF k
  <2>. HIDE DEF u
  <2>3. u \in Seq(Bytes) /\ Len(u) = Len(c) /\ \A i \in 1..Len(u) : u[i] = f[i]
    BY <1>1, <2>1 DEF PartOf
  <2>4. \A i \in 1..Len(c) : f[i] = c[i]
    BY <2>2 DEF JoinedFrom
  <2>5. u = c
    BY <1>1, <2>3, <2>4, SameSequence
  <2>. QED  BY <2>5 DEF u
<1>7. SubSeq(f, L - 1, L) = k
  <2>. DEFINE u == SubSeq(f, L - 1, L)
  <2>0. /\ L - 1 \in Nat \ {0} /\ L \in Nat
        /\ L <= Len(f) /\ L - 1 <= (L) + 1
    BY <1>1
  <2>1. PartOf(u, f, L - 1, L, Bytes)
    BY <1>1, <2>0, Part
  <2>2. JoinedFrom(f, c, k, Bytes)
    BY <1>1, <1>4, Joined DEF k
  <2>. HIDE DEF u
  <2>3. u \in Seq(Bytes) /\ Len(u) = 2 /\ \A i \in 1..2 : u[i] = f[(n + w + 3) + i]
    <3>1. L - (L - 1) + 1 = 2 /\ \A i \in 1..2 : (L - 1) + i - 1 = (n + w + 3) + i
      BY <1>1
    <3>2. u \in Seq(Bytes) /\ Len(u) = L - (L - 1) + 1
          /\ \A i \in 1..(L - (L - 1) + 1) : u[i] = f[(L - 1) + i - 1]
      BY <2>1 DEF PartOf
    <3>. HIDE DEF L
    <3>. QED  BY <3>1, <3>2
  <2>4. \A i \in 1..2 : f[(n + w + 3) + i] = k[i]
    BY <1>1, <1>4, <2>2 DEF JoinedFrom
  <2>5. u = k
    BY <1>4, <2>3, <2>4, SameSequence
  <2>. QED  BY <2>5 DEF u
<1>8. Accepted(f)
  <2>1. L >= 2 /\ TopicSize(f) # 0
    BY <1>sizes, <1>5
  <2>2. PayloadSize(f) > 0
    BY <1>sizes, <1>5 DEF PayloadSize
  <2>. QED  BY <1>6, <1>7, <2>1, <2>2 DEF Accepted, k
<1>9. Topic(f) = T
  <2>. DEFINE u == SubSeq(f, 3, 2 + n)
  <2>0. /\ 3 \in Nat \ {0} /\ 2 + n \in Nat
        /\ 2 + n <= Len(f) /\ 3 <= (2 + n) + 1
    BY <1>sizes
  <2>1. PartOf(u, f, 3, 2 + n, Bytes)
    BY <1>sizes, <2>0, Part
  <2>. HIDE DEF u
  <2>2. u \in Seq(Bytes) /\ Len(u) = n /\ \A i \in 1..n : u[i] = f[i + 2]
    <3>1. (2 + n) - 3 + 1 = n /\ \A i \in 1..n : 3 + i - 1 = i + 2
      BY <1>sizes
    <3>2. u \in Seq(Bytes) /\ Len(u) = (2 + n) - 3 + 1
          /\ \A i \in 1..((2 + n) - 3 + 1) : u[i] = f[3 + i - 1]
      BY <2>1 DEF PartOf
    <3>. QED  BY <3>1, <3>2
  <2>3. Len(T) = Len(u) /\ \A i \in 1..Len(u) : u[i] = T[i]
    <3>1. \A i \in 1..n : f[i + 2] = T[i]
      BY <1>1
    <3>. QED  BY <2>2, <3>1 DEF n
  <2>4. u = T
    BY <1>3, <2>2, <2>3, SameSequence
  <2>. QED  BY <1>5, <2>4 DEF Topic, u
<1>10. Head16(f) = Code[m.type]
  <2>0. f[1] = Code[m.type] /\ f[2] = 0
    BY <1>1
  <2>1. f[1] \in Int /\ f[2] = 0 /\ f[1] = Code[m.type]
    BY <1>2, <2>0
  <2>2. Head16(f) = f[1] + 256 * f[2]
    BY DEF Head16
  <2>. QED  BY <2>1, <2>2
<1>11. /\ Buffer(f) \in Seq(Bytes) /\ Len(Buffer(f)) = w + 2
       /\ \A i \in 1..w : Buffer(f)[i] = m.data[i]
  <2>. DEFINE u == SubSeq(f, 4 + n, L)
  <2>0. /\ 4 + n \in Nat \ {0} /\ L \in Nat
        /\ L <= Len(f) /\ 4 + n <= (L) + 1
    BY <1>sizes
  <2>1. PartOf(u, f, 4 + n, L, Bytes)
    BY <1>sizes, <2>0, Part
  <2>. HIDE DEF u
  <2>2. u \in Seq(Bytes) /\ Len(u) = w + 2 /\ \A i \in 1..w : u[i] = f[n + 3 + i]
    <3>1. /\ L - (4 + n) + 1 = w + 2
          /\ \A i \in 1..w : i \in 1..(w + 2) /\ (4 + n) + i - 1 = n + 3 + i
      BY <1>sizes
    <3>2. u \in Seq(Bytes) /\ Len(u) = L - (4 + n) + 1
          /\ \A i \in 1..(L - (4 + n) + 1) : u[i] = f[(4 + n) + i - 1]
      BY <2>1 DEF PartOf
    <3>. HIDE DEF L
    <3>. QED  BY <3>1, <3>2
  <2>3. Buffer(f) = u
    BY <1>5 DEF Buffer, u
  <2>. QED  BY <1>1, <2>2, <2>3
<1>12. SubSeq(Buffer(f), 1, w) = m.data
  <2>. DEFINE u == SubSeq(Buffer(f), 1, w)
  <2>0. /\ 1 \in Nat \ {0} /\ w \in Nat
        /\ w <= Len(Buffer(f)) /\ 1 <= (w) + 1
    BY <1>sizes, <1>11
  <2>1. PartOf(u, Buffer(f), 1, w, Bytes)
    BY <1>11, <2>0, Part
  <2>. HIDE DEF u
  <2>2. u \in Seq(Bytes) /\ Len(u) = w /\ \A i \in 1..w : u[i] = m.data[i]
    <3>1. w - 1 + 1 = w /\ \A i \in 1..w : 1 + i - 1 = i
      BY <1>sizes
    <3>2. u \in Seq(Bytes) /\ Len(u) = w - 1 + 1
          /\ \A i \in 1..(w - 1 + 1) : u[i] = Buffer(f)[1 + i - 1]
      BY <2>1 DEF PartOf
    <3>. QED  BY <1>11, <3>1, <3>2
  <2>3. u = m.data
    BY <1>2, <2>2, SameSequence DEF w
  <2>. QED  BY <2>3 DEF u
<1>13. Packets(f) = {[topic |-> m.topic, type |-> m.type, buffer |-> Buffer(f)]}
  <2>1. {x \in Keys : Text[x] = Topic(f)} = {m.topic}
    BY <1>2, <1>9, TelemetryAssumption DEF T
  <2>2. {x \in Types : Code[x] = Head16(f)} = {m.type}
    BY <1>2, <1>10, TelemetryAssumption
  <2>. QED  BY <2>1, <2>2 DEF Packets
<1>14. Len(Buffer(f)) >= Width[m.type] /\ SubSeq(Buffer(f), 1, Width[m.type]) = m.data
  <2>1. w + 2 >= w
    BY <1>1
  <2>2. Len(Buffer(f)) >= w /\ w = Width[m.type]
    BY <1>2, <1>11, <2>1
  <2>. QED  BY <1>12, <2>2
<1>. QED  BY <1>8, <1>11, <1>13, <1>14 DEF f

(* A frame in which one byte arrives with another value is never accepted, *)
(* wherever the byte is and however long the frame: the seven shifts of    *)
(* crc16_recursive lose nothing (on_incoming_frame's test of the crc).     *)
THEOREM WrongByteIsRejected ==
  ASSUME NEW m \in Messages, NEW i \in DOMAIN Frame(m),
         NEW b \in Bytes, b # Frame(m)[i]
  PROVE  ~Accepted(ReplaceAt(Frame(m), i, b))
<1>. DEFINE c == Content(m)
            N == Len(c)
            k == CrcBytes(c)
            f == Frame(m)
            g == ReplaceAt(f, i, b)
            p == SubSeq(g, 1, Len(g) - 2)
            q == SubSeq(g, Len(g) - 1, Len(g))
<1>1. c \in Seq(Bytes) /\ N \in Nat /\ f = c \o k /\ f \in Seq(Bytes) /\ Len(f) = N + 2
  <2>. DEFINE n == Len(Text[m.topic])
              w == Len(m.data)
  <2>1. /\ n \in Nat \ {0} /\ w \in 1..4
        /\ c \in Seq(Bytes) /\ N = n + w + 3
        /\ f \in Seq(Bytes) /\ Len(f) = n + w + 5 /\ f = c \o k
    BY FrameBytes
  <2>. HIDE DEF n, w, c, f, k, N
  <2>2. n + w + 3 \in Nat /\ (n + w + 3) + 2 = n + w + 5
    BY <2>1
  <2>. QED  BY <2>1, <2>2
<1>2. k \in Seq(Bytes) /\ Len(k) = 2
  <2>1. k \in Bytes \X Bytes
    BY <1>1, CrcType
  <2>. QED  BY <2>1 DEF CrcBytes
<1>3. i \in 1..(N + 2)
  BY <1>1
<1>4. /\ g \in Seq(Bytes) /\ Len(g) = N + 2 /\ g[i] = b
      /\ \A x \in 1..(N + 2) : x # i => g[x] = f[x]
  <2>. HIDE DEF f, N
  <2>1. f \in [1..(N + 2) -> Bytes] /\ N + 2 \in Nat
    <3>1. f \in Seq(Bytes)
      BY <1>1
    <3>2. f \in [1..Len(f) -> Bytes]
      BY <3>1, LenProperties
    <3>. QED  BY <1>1, <3>2
  <2>2. g = [f EXCEPT ![i] = b]
    BY DEF ReplaceAt
  <2>. HIDE DEF g
  <2>3. g \in [1..(N + 2) -> Bytes]
    BY <2>1, <2>2
  <2>4. g \in Seq(Bytes) /\ Len(g) = N + 2
    BY <2>1, <2>3
  <2>. QED  BY <1>3, <2>1, <2>2, <2>4
<1>0. b # f[i]
  OBVIOUS
<1>5. SUFFICES ASSUME CrcBytes(p) = q  PROVE FALSE
  BY DEF Accepted
<1>. HIDE DEF c, k, f, g
<1>6. JoinedFrom(f, c, k, Bytes)
  BY <1>1, <1>2, Joined
<1>7. p \in Seq(Bytes) /\ Len(p) = N /\ \A x \in 1..N : p[x] = g[x]
  <2>0. 1 \in Nat \ {0} /\ Len(g) - 2 \in Nat /\ Len(g) - 2 <= Len(g)
        /\ 1 <= (Len(g) - 2) + 1
    BY <1>1, <1>4
  <2>1. PartOf(p, g, 1, Len(g) - 2, Bytes)
    BY <1>4, <2>0, Part
  <2>. HIDE DEF p
  <2>. QED  BY <1>1, <1>4, <2>1 DEF PartOf
<1>8. q \in Seq(Bytes) /\ Len(q) = 2 /\ \A x \in 1..2 : q[x] = g[N + x]
  <2>0. Len(g) - 1 \in Nat \ {0} /\ Len(g) \in Nat /\ Len(g) <= Len(g)
        /\ Len(g) - 1 <= Len(g) + 1
    BY <1>1, <1>4
  <2>1. PartOf(q, g, Len(g) - 1, Len(g), Bytes)
    BY <1>4, <2>0, Part
  <2>2. Len(g) - (Len(g) - 1) + 1 = 2
        /\ \A x \in 1..2 : (Len(g) - 1) + x - 1 = N + x
    BY <1>1, <1>4
  <2>3. q \in Seq(Bytes) /\ Len(q) = Len(g) - (Len(g) - 1) + 1
        /\ \A x \in 1..(Len(g) - (Len(g) - 1) + 1) : q[x] = g[(Len(g) - 1) + x - 1]
    BY <2>1 DEF PartOf
  <2>. HIDE DEF q
  <2>. QED  BY <2>2, <2>3
<1>9. /\ \A x \in 1..N : f[x] = c[x]
      /\ \A x \in 1..2 : f[N + x] = k[x]
  BY <1>2, <1>6 DEF JoinedFrom
<1>. HIDE DEF p, q, N
<1>10. CASE i \in 1..N
  <2>1. p[i] # c[i] /\ \A x \in 1..N : x # i => p[x] = c[x]
    <3>1. \A x \in 1..N : x \in 1..(N + 2)
      BY <1>1
    <3>. QED  BY <1>0, <1>4, <1>7, <1>9, <1>10, <3>1
  <2>2. CrcBytes(p) # CrcBytes(c)
    BY <1>1, <1>7, <1>10, <2>1, OneByteChangesCrc DEF N
  <2>3. \A x \in 1..2 : N + x \in 1..(N + 2) /\ N + x # i
    BY <1>1, <1>10
  <2>4. \A x \in 1..2 : q[x] = k[x]
    BY <1>4, <1>8, <1>9, <2>3
  <2>5. q = k
    BY <1>2, <1>8, <2>4, SameSequence
  <2>. QED  BY <1>5, <2>2, <2>5 DEF k
<1>11. CASE i \notin 1..N
  <2>1. \A x \in 1..N : x \in 1..(N + 2) /\ x # i
    BY <1>1, <1>11
  <2>2. \A x \in 1..N : p[x] = c[x]
    BY <1>4, <1>7, <1>9, <2>1
  <2>3. p = c
    BY <1>1, <1>7, <2>2, SameSequence DEF N
  <2>4. q = k
    BY <1>5, <2>3 DEF k
  <2>5. i - N \in 1..2 /\ N + (i - N) = i
    BY <1>1, <1>3, <1>11
  <2>6. q[i - N] = b /\ k[i - N] = f[i]
    BY <1>4, <1>8, <1>9, <2>5
  <2>. QED  BY <1>0, <2>4, <2>6
<1>. QED  BY <1>10, <1>11

LEMMA FlippedByte ==
  ASSUME NEW x \in Bytes, NEW j \in 0..7
  PROVE  Flip(x, j) \in Bytes /\ Flip(x, j) # x
<1>1. j \in {0, 1, 2, 3, 4, 5, 6, 7}
  OBVIOUS
<1>. USE DEF Flip, Bit, Bytes
<1>2. /\ Flip(x, 0) \in Bytes /\ Flip(x, 0) # x
      /\ Flip(x, 1) \in Bytes /\ Flip(x, 1) # x
  OBVIOUS
<1>3. /\ Flip(x, 2) \in Bytes /\ Flip(x, 2) # x
      /\ Flip(x, 3) \in Bytes /\ Flip(x, 3) # x
  OBVIOUS
<1>4. /\ Flip(x, 4) \in Bytes /\ Flip(x, 4) # x
      /\ Flip(x, 5) \in Bytes /\ Flip(x, 5) # x
  OBVIOUS
<1>5. /\ Flip(x, 6) \in Bytes /\ Flip(x, 6) # x
      /\ Flip(x, 7) \in Bytes /\ Flip(x, 7) # x
  OBVIOUS
<1>. HIDE DEF Flip, Bit, Bytes
<1>. QED  BY <1>1, <1>2, <1>3, <1>4, <1>5

\* What reaches the core is what was sent: an inverted bit is always noticed,
\* a lost part by assumption.
LEMMA ArrivalsAreSent ==
  ASSUME LossesDetected, NEW m \in Messages, NEW a \in Arrivals[m]
  PROVE  /\ a.topic = m.topic /\ a.type = m.type
         /\ a.buffer \in Seq(Bytes) /\ Len(a.buffer) >= Width[m.type]
         /\ SubSeq(a.buffer, 1, Width[m.type]) = m.data
<1>. DEFINE f == Frame(m)
<1>1. PICK g \in {f} \cup Damaged(f) : Accepted(g) /\ a \in Packets(g)
  BY DEF Arrivals
<1>2. g = f
  <2>1. ASSUME NEW i \in DOMAIN f, NEW j \in 0..7, g = ReplaceAt(f, i, Flip(f[i], j))
        PROVE  FALSE
    <3>1. f[i] \in Bytes
      <4>1. f \in Seq(Bytes)
        BY FrameBytes
      <4>. QED  BY <2>1, <4>1
    <3>. HIDE DEF f
    <3>2. Flip(f[i], j) \in Bytes /\ Flip(f[i], j) # f[i]
      BY <2>1, <3>1, FlippedByte
    <3>. QED  BY <1>1, <2>1, <3>2, WrongByteIsRejected DEF f
  <2>2. ASSUME g \in Shortened(f)  PROVE FALSE
    BY <1>1, <2>2 DEF LossesDetected
  <2>. HIDE DEF f
  <2>. QED  BY <1>1, <2>1, <2>2 DEF Damaged
<1>. QED  BY <1>1, <1>2, IntactFrame

-----------------------------------------------------------------------------
(* What reaches an attached variable.                                      *)

\* The packet of a lookup in progress carries a published message.
Carries ==
  pc[Receiver] # "idle" /\ ~Installing(Receiver) =>
    \E m \in published :
      /\ m.topic = Key(Receiver) /\ m.type = packet.type
      /\ SubSeq(packet.buffer, 1, Width[m.type]) = m.data

CoreTypes ==
  /\ packet.type \in Types \cup {NULL}
  /\ value \in [Pairs -> Seq(Bytes)]
  /\ published \subseteq Messages
  /\ attached \subseteq Pairs

CoreSafe == CoreTypes /\ Carries /\ OnlyPublished

LEMMA CoreInit == TelemetryAssumption /\ Init => CoreSafe
<1>. SUFFICES ASSUME TelemetryAssumption, Init  PROVE CoreSafe
  OBVIOUS
<1>1. Untouched \in Seq(Bytes)
  BY DEF Untouched
<1>2. packet.type = NULL
  BY DEF Init, NoPacket
<1>3. value = [p \in Pairs |-> Untouched] /\ published = {} /\ attached = {}
  BY DEF Init
<1>4. CoreTypes
  <2>. HIDE DEF Untouched
  <2>. QED  BY <1>1, <1>2, <1>3 DEF CoreTypes
<1>5. Carries
  BY TelemetryAssumption DEF Init, DInit, Carries
<1>6. OnlyPublished
  BY <1>3 DEF OnlyPublished
<1>. QED  BY <1>4, <1>5, <1>6 DEF CoreSafe

LEMMA CoreStep ==
  ASSUME TelemetryAssumption, LossesDetected, TableSafe, CoreSafe, [Next]_vars
  PROVE  CoreSafe'
<1>. DEFINE R == Receiver
<1>0. R \in Tasks /\ DTypeOK /\ CallsInv
  BY TelemetryAssumption DEF TableSafe
<1>1. ASSUME UNCHANGED <<value, published>>  PROVE OnlyPublished'
  BY <1>1 DEF CoreSafe, OnlyPublished
<1>2. ASSUME NEW t \in Tasks, Attach(t)  PROVE CoreSafe'
  <2>1. UNCHANGED <<packet, value, published, attached>>
    BY <1>2 DEF Attach
  <2>2. CoreTypes'
    BY <2>1 DEF CoreSafe, CoreTypes
  <2>3. Carries'
    <3>1. job'[t].op = "install" /\ \A u \in Tasks \ {t} : job'[u] = job[u] /\ pc'[u] = pc[u]
      BY <1>0, <1>2 DEF Attach, Begin, Goto, DTypeOK
    <3>2. CASE t = R
      BY <3>1, <3>2 DEF Carries, Installing
    <3>3. CASE t # R
      BY <1>0, <2>1, <3>1, <3>3 DEF CoreSafe, Carries, Installing, Key
    <3>. QED  BY <3>2, <3>3
  <2>. QED  BY <1>1, <2>1, <2>2, <2>3 DEF CoreSafe
<1>3. ASSUME NEW t \in Tasks, Dictionary(t)  PROVE CoreSafe'
  <2>1. /\ InCall(t) /\ UNCHANGED <<packet, value, published>>
        /\ attached' = IF pc[t] = "set"
                       THEN attached \cup {<<job[t].key, job[t].type>>} ELSE attached
    BY <1>3 DEF Dictionary
  <2>2. CoreTypes'
    <3>1. pc[t] = "set" => <<job[t].key, job[t].type>> \in Pairs
      BY <1>0, JobType DEF CallsInv, Key, Pairs
    <3>. QED  BY <2>1, <3>1 DEF CoreSafe, CoreTypes
  <2>3. Carries'
    <3>1. /\ pc[t] # "idle"
          /\ \A u \in Tasks \ {t} : job'[u] = job[u] /\ pc'[u] = pc[u]
          /\ \/ job'[t] = job[t] /\ pc'[t] # "idle"
             \/ job'[t] = Idle /\ pc'[t] = "idle"
      BY <1>0, <2>1, InCallJob
    <3>2. CASE t = R
      BY <2>1, <3>1, <3>2 DEF CoreSafe, Carries, Installing, Key
    <3>3. CASE t # R
      BY <1>0, <2>1, <3>1, <3>3 DEF CoreSafe, Carries, Installing, Key
    <3>. QED  BY <3>2, <3>3
  <2>. QED  BY <1>1, <2>1, <2>2, <2>3 DEF CoreSafe
<1>4. CASE OnIncomingFrame
  <2>0. PICK m \in Messages :
          /\ published' = published \cup {m}
          /\ \E a \in Arrivals[m] :
               /\ Begin(R, "lookup", a.topic, a.type)
               /\ packet' = [type |-> a.type, buffer |-> a.buffer]
    BY <1>4 DEF OnIncomingFrame
  <2>1. PICK a \in Arrivals[m] :
          /\ published' = published \cup {m}
          /\ Begin(R, "lookup", a.topic, a.type)
          /\ packet' = [type |-> a.type, buffer |-> a.buffer]
    BY <2>0
  <2>2. UNCHANGED <<value, attached>>
    BY <1>4 DEF OnIncomingFrame
  <2>3. /\ a.topic = m.topic /\ a.type = m.type /\ a.type \in Types
        /\ SubSeq(a.buffer, 1, Width[m.type]) = m.data
    BY ArrivalsAreSent, ArrivalTypes
  <2>4. packet'.type = a.type /\ packet'.buffer = a.buffer
    BY <2>1
  <2>5. CoreTypes'
    BY <2>1, <2>2, <2>3, <2>4 DEF CoreSafe, CoreTypes
  <2>6. Carries'
    <3>1. job'[R].key = a.topic
      BY <1>0, <2>1 DEF Begin, DTypeOK
    <3>2. m \in published' /\ m.topic = Key(R)' /\ m.type = packet'.type
          /\ SubSeq(packet'.buffer, 1, Width[m.type]) = m.data
      BY <2>1, <2>3, <2>4, <3>1 DEF Key
    <3>. QED  BY <3>2 DEF Carries
  <2>7. OnlyPublished'
    BY <2>1, <2>2 DEF CoreSafe, OnlyPublished
  <2>. QED  BY <2>5, <2>6, <2>7 DEF CoreSafe
<1>5. CASE TryUpdate
  <2>. DEFINE n == np[R]
              ty == packet.type
              emplaced == Emplace(ty, packet.buffer)
  <2>1. /\ pc[R] = "found" /\ packet' = NoPacket
        /\ UNCHANGED <<published, attached>>
        /\ \/ n # NULL /\ ty \in ptr[n] /\ value' = [value EXCEPT ![<<key[n], ty>>] = emplaced]
           \/ value' = value
    BY <1>5 DEF TryUpdate
  <2>2. pc'[R] = "idle"
    BY <1>0, <1>5 DEF TryUpdate, Finish, Goto, DTypeOK
  <2>3. Carries'
    BY <2>2 DEF Carries
  <2>4. packet'.type = NULL
    BY <2>1 DEF NoPacket
  <2>5. CASE value' = value
    <3>1. CoreTypes'
      BY <2>1, <2>4, <2>5 DEF CoreSafe, CoreTypes
    <3>. QED  BY <1>1, <2>1, <2>3, <2>5, <3>1 DEF CoreSafe
  <2>6. CASE n # NULL /\ value' = [value EXCEPT ![<<key[n], ty>>] = emplaced]
    <3>1. PICK m \in published :
            /\ m.topic = Key(R) /\ m.type = ty
            /\ SubSeq(packet.buffer, 1, Width[m.type]) = m.data
      BY <1>0, <2>1 DEF CoreSafe, Carries, CallsInv
    <3>2. emplaced = m.data
      BY <3>1 DEF Emplace
    <3>3. key[n] = Key(R)
      BY <1>0, <2>1, <2>6 DEF TableSafe, EntryInv
    <3>4. m \in Messages /\ m.topic \in Keys /\ m.type \in Types /\ m.data \in Seq(Bytes)
      BY <3>1, TelemetryAssumption DEF CoreSafe, CoreTypes
    <3>. DEFINE q == <<key[n], ty>>
    <3>5. q \in Pairs /\ q = <<m.topic, m.type>>
      BY <3>1, <3>3, <3>4 DEF Pairs
    <3>6. value' = [value EXCEPT ![q] = m.data]
      BY <2>6, <3>2
    <3>. HIDE DEF q, n, ty, emplaced
    <3>7. CoreTypes'
      BY <2>1, <2>4, <3>4, <3>5, <3>6 DEF CoreSafe, CoreTypes
    <3>8. OnlyPublished'
      <4>1. \A p \in Pairs : p # q => value'[p] = value[p]
        BY <3>6 DEF CoreSafe, CoreTypes
      <4>2. value'[q] = m.data
        BY <3>5, <3>6 DEF CoreSafe, CoreTypes
      <4>3. ASSUME NEW p \in Pairs, value'[p] # Untouched
            PROVE  \E x \in published' : <<x.topic, x.type>> = p /\ x.data = value'[p]
        <5>1. CASE p = q
          BY <2>1, <3>5, <4>2, <5>1
        <5>2. CASE p # q
          BY <2>1, <4>1, <4>3, <5>2 DEF CoreSafe, OnlyPublished
        <5>. QED  BY <5>1, <5>2
      <4>. QED  BY <4>3 DEF OnlyPublished
    <3>. QED  BY <2>3, <3>7, <3>8 DEF CoreSafe
  <2>. QED  BY <2>1, <2>5, <2>6
<1>6. CASE UNCHANGED vars
  <2>1. UNCHANGED <<packet, value, published, attached>> /\ UNCHANGED <<pc, job>>
    BY <1>6 DEF vars, dvars, locals, telemetry
  <2>2. CoreTypes' /\ Carries'
    BY <2>1 DEF CoreSafe, CoreTypes, Carries, Installing, Key
  <2>. QED  BY <1>1, <2>1, <2>2 DEF CoreSafe
<1>. QED  BY <1>2, <1>3, <1>4, <1>5, <1>6 DEF Next

LEMMA CoreSafeAlways ==
  ASSUME TwoTasks, LossesDetected  PROVE Spec => [](TableSafe /\ CoreSafe)
<1>1. Init => TableSafe /\ CoreSafe
  BY TableSafeInit, CoreInit, TelemetryAssumption
<1>2. TableSafe /\ CoreSafe /\ [Next]_vars => TableSafe' /\ CoreSafe'
  BY TableSafeStep, CoreStep, TelemetryAssumption
<1>. QED  BY <1>1, <1>2, PTL DEF Spec

(* The table, the packets and the variables keep their types: what         *)
(* emplace_<type> copies lies within the buffer of the packet.             *)
THEOREM TelemetryTypeCorrect ==
  ASSUME TwoTasks, LossesDetected  PROVE Spec => []TypeOK
<1>1. TableSafe /\ CoreSafe => TypeOK
  BY DEF TableSafe, CoreSafe, CoreTypes, CallsType, AttachedInv, TypeOK
<1>. QED  BY <1>1, CoreSafeAlways, PTL

(* An attached variable holds what somebody published for its topic and    *)
(* its type, whichever byte the line damaged and whichever calls of        *)
(* attach were in progress; that no part of a frame is taken for a message *)
(* is LossesDetected.                                                      *)
THEOREM StoresOnlyPublished ==
  ASSUME TwoTasks, LossesDetected  PROVE Spec => []OnlyPublished
<1>1. CoreSafe => OnlyPublished
  BY DEF CoreSafe
<1>. QED  BY <1>1, CoreSafeAlways, PTL
=============================================================================
