--------------------------- MODULE FramingProofs ---------------------------
(***************************************************************************)
(* Proofs about Framing, for any messages, buffer sizes and losses: the    *)
(* buffers are never overrun, no frame that lacks a byte is sent, and what *)
(* is handed over however many bytes are lost.  Without losses the layer   *)
(* implements FrameLink.                                                   *)
(*                                                                         *)
(* The inductive invariant gives every byte on the line its place in the   *)
(* frame it belongs to, and says what the receiver knows at that place.    *)
(***************************************************************************)
EXTENDS Framing, SequenceTheorems, TLAPS

LEMMA FlagsAreBytes == "SOF" \in Byte /\ "EOF" \in Byte /\ "ESC" \in Byte
  BY DEF Byte, Flags

\* Appending where there is room keeps a buffer below its size.
LEMMA RoomAppend ==
  ASSUME NEW S, NEW buf \in Seq(S), NEW x \in S, NEW size \in Nat,
         Room(buf, size)
  PROVE  /\ Append(buf, x) \in Seq(S) /\ Len(Append(buf, x)) < size
         /\ Len(Append(buf, x)) = Len(buf) + 1
<1>1. Len(Append(buf, x)) = Len(buf) + 1 /\ Append(buf, x) \in Seq(S)
  OBVIOUS
<1>. QED  BY <1>1 DEF Room

\* Taking a byte off the line.
LEMMA TakeType ==
  ASSUME line \in Seq(TaggedByte), line # <<>>
  PROVE  Incoming \in Byte /\ Tail(line) \in Seq(TaggedByte)
<1>1. Head(line) \in TaggedByte
  OBVIOUS
<1>. QED  BY <1>1 DEF Incoming, TaggedByte

LEMMA KeepType ==
  ASSUME TypeOK, line # <<>>, Keep
  PROVE  /\ rbuf' \in Seq(Byte) /\ Len(rbuf') < InSize
         /\ rstate' \in {"IDLE", "ACTIVE"}
<1>1. Incoming \in Byte /\ rbuf \in Seq(Byte) /\ InSize \in Nat
  BY TakeType, FramingAssumption DEF TypeOK
<1>2. CASE Room(rbuf, InSize)
  BY <1>1, <1>2, RoomAppend DEF Keep
<1>3. CASE ~Room(rbuf, InSize)
  BY <1>3 DEF Keep, TypeOK
<1>. QED  BY <1>2, <1>3

LEMMA TaggedType ==
  ASSUME NEW bytes \in Seq(Byte), NEW k \in Nat
  PROVE  Tagged(bytes, k) \in Seq(TaggedByte)
<1>1. \A i \in 1..Len(bytes) : [b |-> bytes[i], n |-> k] \in TaggedByte
  BY DEF TaggedByte
<1>. QED  BY <1>1 DEF Tagged

TypeInv == TypeOK /\ sent \in Seq(Seq(Byte))

LEMMA TypeInvStep ==
  ASSUME TypeInv, [Next]_vars  PROVE TypeInv'
<1>. USE DEF TypeInv
<1>1. CASE BeginFrame
  <2>1. out' \in Seq(Byte) /\ Len(out') < OutSize
    <3>1. CASE Room(<<>>, OutSize)
      BY <1>1, <3>1, FlagsAreBytes, FramingAssumption DEF BeginFrame, Room
    <3>2. CASE ~Room(<<>>, OutSize)
      BY <1>1, <3>2, FramingAssumption DEF BeginFrame
    <3>. QED  BY <3>1, <3>2
  <2>2. /\ msg' \in Seq(Byte) /\ todo' \in Seq(Byte)
        /\ building' \in BOOLEAN /\ refused' \in BOOLEAN
    BY <1>1, FramingAssumption DEF BeginFrame
  <2>3. tries' \in 0..MaxFrames
    BY <1>1, FramingAssumption DEF BeginFrame, TypeOK
  <2>. QED  BY <1>1, <2>1, <2>2, <2>3 DEF BeginFrame, TypeOK, receiver
<1>2. CASE AppendByte
  <2>1. Head(todo) \in Byte /\ Tail(todo) \in Seq(Byte)
    BY <1>2 DEF AppendByte, TypeOK
  <2>2. out \in Seq(Byte) /\ Len(out) < OutSize /\ OutSize \in Nat
    BY FramingAssumption DEF TypeOK
  <2>3. out' \in Seq(Byte) /\ Len(out') < OutSize
    <3>1. CASE ~Room(out, OutSize)
      BY <1>2, <2>2, <3>1 DEF AppendByte
    <3>2. CASE Room(out, OutSize) /\ Head(todo) \notin Flags
      BY <1>2, <2>1, <2>2, <3>2, RoomAppend DEF AppendByte
    <3>3. CASE Room(out, OutSize) /\ Head(todo) \in Flags
      <4>1. /\ Append(out, "ESC") \in Seq(Byte)
            /\ Len(Append(out, "ESC")) < OutSize
        BY <2>2, <3>3, RoomAppend, FlagsAreBytes
      <4>. QED  BY <1>2, <2>1, <2>2, <3>3, <4>1, RoomAppend DEF AppendByte
    <3>. QED  BY <3>1, <3>2, <3>3
  <2>4. refused' \in BOOLEAN
    BY <1>2 DEF AppendByte, TypeOK
  <2>. QED  BY <1>2, <2>1, <2>3, <2>4 DEF AppendByte, TypeOK, receiver
<1>3. CASE EndFrame
  <2>1. CASE Room(out, OutSize)
    <3>1. out' = Append(out, "EOF") /\ sent' = Append(sent, msg)
      BY <1>3, <2>1 DEF EndFrame
    <3>2. out' \in Seq(Byte) /\ Len(out') < OutSize
      BY <2>1, <3>1, FramingAssumption, FlagsAreBytes, RoomAppend DEF TypeOK
    <3>3. Tagged(out', Len(sent) + 1) \in Seq(TaggedByte)
      BY <3>2, TaggedType
    <3>4. line' \in Seq(TaggedByte)
      <4>1. line' = line \o Tagged(out', Len(sent) + 1)
        BY <1>3, <2>1 DEF EndFrame
      <4>2. line \in Seq(TaggedByte)
        BY DEF TypeOK
      <4>. QED  BY <3>3, <4>1, <4>2, ConcatProperties
    <3>5. sent' \in Seq(Seq(Byte))
      BY <3>1 DEF TypeOK
    <3>. QED  BY <1>3, <3>2, <3>4, <3>5 DEF EndFrame, TypeOK, receiver
  <2>2. CASE ~Room(out, OutSize)
    BY <1>3, <2>2 DEF EndFrame, TypeOK, receiver
  <2>. QED  BY <2>1, <2>2
<1>4. CASE FeedEscaped \/ FeedByte
  BY <1>4, TakeType, KeepType
     DEF FeedEscaped, FeedByte, Take, TypeOK, sender
<1>5. CASE FeedStart \/ FeedEnd \/ FeedEscape \/ FeedIgnored
  <2>1. /\ line' \in Seq(TaggedByte)
        /\ UNCHANGED <<sender, sent, lossLeft, hurt>>
    BY <1>5, TakeType
       DEF FeedStart, FeedEnd, FeedEscape, FeedIgnored, Take, TypeOK
  <2>2. rbuf' = rbuf \/ rbuf' = <<>>
    BY <1>5 DEF FeedStart, FeedEnd, FeedEscape, FeedIgnored, receiver
  <2>3. rbuf' \in Seq(Byte) /\ Len(rbuf') < InSize
    <3>1. CASE rbuf' = rbuf
      BY <3>1 DEF TypeOK
    <3>2. CASE rbuf' = <<>>
      <4>1. Len(rbuf') = 0 /\ rbuf' \in Seq(Byte)
        BY <3>2
      <4>. QED  BY <4>1, FramingAssumption
    <3>. QED  BY <2>2, <3>1, <3>2
  <2>4. rstate' \in {"IDLE", "ESCAPING", "ACTIVE"}
    BY <1>5 DEF FeedStart, FeedEnd, FeedEscape, FeedIgnored, receiver, TypeOK
  <2>. QED  BY <2>1, <2>3, <2>4 DEF TypeOK, sender
<1>6. CASE Lose
  BY <1>6, TakeType, FramingAssumption DEF Lose, TypeOK, sender, receiver
<1>7. CASE UNCHANGED vars
  BY <1>7 DEF vars, sender, receiver, TypeOK
<1>. QED
  BY <1>1, <1>2, <1>3, <1>4, <1>5, <1>6, <1>7 DEF Next, Sender, Feed

LEMMA TypeInvInit == Init => TypeInv
<1>. SUFFICES ASSUME Init  PROVE TypeInv
  OBVIOUS
<1>1. building \in BOOLEAN /\ refused \in BOOLEAN
  BY DEF Init
<1>2. /\ msg \in Seq(Byte) /\ todo \in Seq(Byte) /\ out \in Seq(Byte)
      /\ line \in Seq(TaggedByte) /\ rbuf \in Seq(Byte)
      /\ sent \in Seq(Seq(Byte))
  BY DEF Init
<1>3. Len(out) < OutSize /\ Len(rbuf) < InSize
  BY FramingAssumption DEF Init
<1>4. /\ tries \in 0..MaxFrames /\ lossLeft \in 0..LossBudget
      /\ rstate \in {"IDLE", "ESCAPING", "ACTIVE"}
  BY FramingAssumption DEF Init
<1>. QED  BY <1>1, <1>2, <1>3, <1>4 DEF TypeInv, TypeOK

\* Neither cursor ever reaches the size of its buffer, whatever is published
\* and whatever arrives, in step or not.
THEOREM FramingTypeCorrect == Spec => []TypeOK
<1>1. Init => TypeInv
  BY TypeInvInit
<1>2. TypeInv /\ [Next]_vars => TypeInv'
  BY TypeInvStep
<1>3. TypeInv => TypeOK
  BY DEF TypeInv
<1>. QED  BY <1>1, <1>2, <1>3, PTL DEF Spec

-----------------------------------------------------------------------------
\* Once a byte was refused the buffer stays too full for EOF.
RefusedMeansFull == refused => ~Room(out, OutSize)

LEMMA RefusedStep ==
  ASSUME TypeOK, building => RefusedMeansFull, [Next]_vars
  PROVE  (building => RefusedMeansFull)'
<1>. USE DEF RefusedMeansFull
<1>1. CASE BeginFrame
  BY <1>1 DEF BeginFrame
<1>2. CASE AppendByte
  BY <1>2 DEF AppendByte
<1>3. CASE EndFrame
  BY <1>3 DEF EndFrame
<1>4. CASE Feed
  BY <1>4 DEF Feed, FeedEscaped, FeedStart, FeedEnd, FeedEscape, FeedByte,
     FeedIgnored, Take, sender
<1>5. CASE Lose
  BY <1>5 DEF Lose, sender
<1>6. CASE UNCHANGED vars
  BY <1>6 DEF vars, sender
<1>. QED  BY <1>1, <1>2, <1>3, <1>4, <1>5, <1>6 DEF Next, Sender

\* No frame that lacks a byte is ever sent.
THEOREM NoTruncatedFrame == Spec => TruncatedNeverSent
<1>. DEFINE I == building => RefusedMeansFull
<1>1. Init => I
  BY DEF Init
<1>2. TypeOK /\ I /\ [Next]_vars => I'
  BY RefusedStep
<1>3. I /\ [Next]_vars => [sent' # sent => ~refused]_vars
  <2>. SUFFICES ASSUME I, Next, sent' # sent  PROVE ~refused
    OBVIOUS
  <2>1. EndFrame
    BY DEF Next, Sender, BeginFrame, AppendByte, Feed, FeedEscaped, FeedStart,
       FeedEnd, FeedEscape, FeedByte, FeedIgnored, Take, Lose
  <2>2. Room(out, OutSize) /\ building
    BY <2>1 DEF EndFrame
  <2>. QED  BY <2>2 DEF RefusedMeansFull
<1>. QED
  BY <1>1, <1>2, <1>3, FramingTypeCorrect, PTL DEF Spec, TruncatedNeverSent

-----------------------------------------------------------------------------
(* What the receiver makes of the line.  Bytes are lost at the head of the *)
(* line only, so what is on it is always an end of what was sent, and each *)
(* byte has its place in a frame.                                          *)

\* Byte i of m is a flag and travels behind an ESC.
Escaped(m, i) == IF i \in 1..Len(m) /\ m[i] \in Flags THEN 1 ELSE 0

\* A place in the frame of m: i is 0 for SOF, Len(m) + 1 for EOF, otherwise the
\* byte of m; e is 1 for the ESC before that byte.
Place(m, i, e) == i \in 0..(Len(m) + 1) /\ e \in 0..Escaped(m, i)

CodeAt(m, i, e) ==
  IF i = 0 THEN "SOF" ELSE IF i = Len(m) + 1 THEN "EOF"
  ELSE IF e = 1 THEN "ESC" ELSE m[i]

\* <<j, f>> is the place behind <<i, e>>.
After(m, i, e, j, f) ==
  IF e = 1 THEN j = i /\ f = 0 ELSE j = i + 1 /\ f = Escaped(m, j)

\* w is the beginning of the frame of m, with its places in a and c.
Begun(w, m, a, c) ==
  /\ w \in Seq(Byte) /\ Len(w) >= 1
  /\ a \in [1..Len(w) -> Nat] /\ c \in [1..Len(w) -> {0, 1}]
  /\ a[1] = 0 /\ c[1] = 0
  /\ \A x \in 1..Len(w) : Place(m, a[x], c[x]) /\ w[x] = CodeAt(m, a[x], c[x])
  /\ \A x \in 1..(Len(w) - 1) :
       a[x] # Len(m) + 1 /\ After(m, a[x], c[x], a[x + 1], c[x + 1])

\* It ends with place <<i, e>>.
BegunTo(w, m, i, e) ==
  \E a, c : Begun(w, m, a, c) /\ a[Len(w)] = i /\ c[Len(w)] = e

LEMMA PlaceAfter ==
  ASSUME NEW m \in Seq(Byte), NEW i, NEW e, Place(m, i, e), i # Len(m) + 1,
         NEW j, NEW f, After(m, i, e, j, f)
  PROVE  /\ Place(m, j, f) /\ j \in Nat \ {0} /\ f \in {0, 1}
         /\ CodeAt(m, j, f) \in Byte
<1>1. i \in 0..Len(m) /\ e \in {0, 1} /\ Len(m) \in Nat
  BY DEF Place, Escaped
<1>2. e = 1 => i \in 1..Len(m)
  BY <1>1 DEF Place, Escaped
<1>3. j \in 1..(Len(m) + 1) /\ f \in 0..Escaped(m, j) /\ f \in {0, 1}
  <2>1. CASE e = 1
    BY <1>1, <1>2, <2>1 DEF After, Escaped
  <2>2. CASE e = 0
    BY <1>1, <2>2 DEF After, Escaped
  <2>. QED  BY <1>1, <2>1, <2>2
<1>4. CodeAt(m, j, f) \in Byte
  <2>1. j \in 1..Len(m) => m[j] \in Byte
    OBVIOUS
  <2>. QED  BY <1>1, <1>3, <2>1, FlagsAreBytes DEF CodeAt
<1>. QED  BY <1>1, <1>3, <1>4 DEF Place

\* One byte more.
LEMMA Extended ==
  ASSUME NEW m \in Seq(Byte), NEW w, NEW i, NEW e, BegunTo(w, m, i, e),
         i # Len(m) + 1, NEW j, NEW f, After(m, i, e, j, f)
  PROVE  BegunTo(Append(w, CodeAt(m, j, f)), m, j, f)
<1>0. PICK a, c : Begun(w, m, a, c) /\ a[Len(w)] = i /\ c[Len(w)] = e
  BY DEF BegunTo
<1>. DEFINE n == Len(w)
            b == CodeAt(m, j, f)
            w2 == Append(w, b)
<1>1. /\ w \in Seq(Byte) /\ n \in Nat \ {0}
      /\ a \in [1..n -> Nat] /\ c \in [1..n -> {0, 1}] /\ a[1] = 0 /\ c[1] = 0
  BY <1>0 DEF Begun
<1>2. \A x \in 1..n : Place(m, a[x], c[x]) /\ w[x] = CodeAt(m, a[x], c[x])
  BY <1>0 DEF Begun
<1>3. \A x \in 1..(n - 1) :
        a[x] # Len(m) + 1 /\ After(m, a[x], c[x], a[x + 1], c[x + 1])
  BY <1>0 DEF Begun
<1>4. Place(m, j, f) /\ j \in Nat /\ f \in {0, 1} /\ b \in Byte
  <2>1. Place(m, a[n], c[n])
    BY <1>1, <1>2
  <2>. QED  BY <1>0, <2>1, PlaceAfter
<1>5. /\ w2 \in Seq(Byte) /\ Len(w2) = n + 1
      /\ \A x \in 1..n : w2[x] = w[x]
      /\ w2[n + 1] = b
  BY <1>1, <1>4
<1>6. PICK a2, c2 : /\ a2 = [x \in 1..(n + 1) |-> IF x = n + 1 THEN j ELSE a[x]]
                    /\ c2 = [x \in 1..(n + 1) |-> IF x = n + 1 THEN f ELSE c[x]]
  OBVIOUS
<1>7. /\ a2 \in [1..(n + 1) -> Nat] /\ c2 \in [1..(n + 1) -> {0, 1}]
      /\ a2[n + 1] = j /\ c2[n + 1] = f
      /\ \A x \in 1..n : a2[x] = a[x] /\ c2[x] = c[x]
  BY <1>1, <1>4, <1>6
<1>. HIDE DEF n, b, w2
<1>8. ASSUME NEW x \in 1..(n + 1)
      PROVE  Place(m, a2[x], c2[x]) /\ w2[x] = CodeAt(m, a2[x], c2[x])
  <2>1. CASE x = n + 1
    BY <1>4, <1>5, <1>7, <2>1 DEF b
  <2>2. CASE x # n + 1
    <3>1. x \in 1..n
      BY <1>1, <2>2
    <3>. QED  BY <1>2, <1>5, <1>7, <3>1
  <2>. QED  BY <2>1, <2>2
<1>9. ASSUME NEW x \in 1..n
      PROVE  a2[x] # Len(m) + 1 /\ After(m, a2[x], c2[x], a2[x + 1], c2[x + 1])
  <2>1. CASE x = n
    BY <1>0, <1>1, <1>7, <2>1 DEF n
  <2>2. CASE x # n
    <3>1. x \in 1..(n - 1) /\ x + 1 \in 1..n
      BY <1>1, <2>2
    <3>. QED  BY <1>3, <1>7, <3>1
  <2>. QED  BY <2>1, <2>2
<1>10. a2[1] = 0 /\ c2[1] = 0
  <2>1. 1 \in 1..n
    BY <1>1
  <2>. QED  BY <1>1, <1>7, <2>1
<1>11. (n + 1) - 1 = n /\ n + 1 >= 1
  BY <1>1
<1>12. Begun(w2, m, a2, c2)
  BY <1>5, <1>7, <1>8, <1>9, <1>10, <1>11 DEF Begun
<1>. QED  BY <1>5, <1>7, <1>12 DEF BegunTo, b, w2

\* The frame of byte x of line l, or of the first byte still to come.
Number(l, s, x) == IF x \in 1..Len(l) THEN l[x].n ELSE Len(s) + 1

\* The bytes on line l are frames of s, from some place in one of them on.
CodedAt(l, s, pos, esc, x) ==
  LET m == s[l[x].n] IN
  /\ l[x].n \in 1..Len(s)
  /\ Place(m, pos[x], esc[x]) /\ l[x].b = CodeAt(m, pos[x], esc[x])
  /\ IF pos[x] = Len(m) + 1
     THEN /\ pos[x + 1] = 0 /\ esc[x + 1] = 0
          /\ Number(l, s, x + 1) = l[x].n + 1
     ELSE /\ After(m, pos[x], esc[x], pos[x + 1], esc[x + 1])
          /\ Number(l, s, x + 1) = l[x].n

Coded(l, s, pos, esc) ==
  /\ pos \in [1..(Len(l) + 1) -> Nat] /\ esc \in [1..(Len(l) + 1) -> {0, 1}]
  /\ pos[Len(l) + 1] = 0 /\ esc[Len(l) + 1] = 0
  /\ \A x \in 1..Len(l) : CodedAt(l, s, pos, esc, x)

\* A byte leaves the line.
LEMMA CodedTail ==
  ASSUME NEW l \in Seq(TaggedByte), NEW s \in Seq(Seq(Byte)), l # <<>>,
         NEW pos, NEW esc, Coded(l, s, pos, esc)
  PROVE  \E p, q : /\ Coded(Tail(l), s, p, q)
                   /\ p[1] = pos[2] /\ q[1] = esc[2]
<1>. DEFINE n == Len(l)
            t == Tail(l)
<1>1. /\ n \in Nat \ {0} /\ t \in Seq(TaggedByte) /\ Len(t) = n - 1
      /\ \A x \in 1..(n - 1) : t[x] = l[x + 1]
  OBVIOUS
<1>2. /\ pos \in [1..(n + 1) -> Nat] /\ esc \in [1..(n + 1) -> {0, 1}]
      /\ pos[n + 1] = 0 /\ esc[n + 1] = 0
      /\ \A x \in 1..n : CodedAt(l, s, pos, esc, x)
  BY DEF Coded
<1>3. PICK p, q : /\ p = [x \in 1..n |-> pos[x + 1]]
                  /\ q = [x \in 1..n |-> esc[x + 1]]
  OBVIOUS
<1>. HIDE DEF n, t
<1>4. /\ p \in [1..n -> Nat] /\ q \in [1..n -> {0, 1}]
      /\ \A x \in 1..n : p[x] = pos[x + 1] /\ q[x] = esc[x + 1]
  <2>1. \A x \in 1..n : x + 1 \in 1..(n + 1)
    BY <1>1
  <2>. QED  BY <1>2, <1>3, <2>1
<1>5. p[n] = 0 /\ q[n] = 0 /\ p[1] = pos[2] /\ q[1] = esc[2]
  <2>1. n \in 1..n /\ 1 \in 1..n /\ 1 + 1 = 2
    BY <1>1
  <2>. QED  BY <1>2, <1>4, <2>1
<1>6. ASSUME NEW x \in 1..(n - 1)  PROVE CodedAt(t, s, p, q, x)
  <2>1. x + 1 \in 1..n /\ x \in 1..n /\ x \in Nat
    BY <1>1
  <2>2. CodedAt(l, s, pos, esc, x + 1)
    BY <1>2, <2>1
  <2>3. /\ p[x] = pos[x + 1] /\ q[x] = esc[x + 1] /\ t[x] = l[x + 1]
        /\ p[x + 1] = pos[(x + 1) + 1] /\ q[x + 1] = esc[(x + 1) + 1]
    BY <1>1, <1>4, <2>1
  <2>4. Number(t, s, x + 1) = Number(l, s, (x + 1) + 1)
    <3>1. CASE x + 1 \in 1..(n - 1)
      <4>1. (x + 1) + 1 \in 1..n /\ t[x + 1] = l[(x + 1) + 1]
        BY <1>1, <3>1
      <4>. QED  BY <1>1, <3>1, <4>1 DEF Number, n
    <3>2. CASE x + 1 \notin 1..(n - 1)
      <4>1. (x + 1) + 1 \notin 1..n
        BY <1>1, <2>1, <3>2
      <4>. QED  BY <1>1, <3>2, <4>1 DEF Number, n
    <3>. QED  BY <3>1, <3>2
  <2>. QED  BY <2>2, <2>3, <2>4 DEF CodedAt
<1>7. (n - 1) + 1 = n
  BY <1>1
<1>8. Coded(t, s, p, q)
  BY <1>1, <1>4, <1>5, <1>6, <1>7 DEF Coded
<1>. QED  BY <1>5, <1>8 DEF t

\* A frame is put behind what is on the line.
LEMMA CodedAppend ==
  ASSUME NEW l \in Seq(TaggedByte), NEW s \in Seq(Seq(Byte)),
         NEW pos, NEW esc, Coded(l, s, pos, esc),
         NEW m \in Seq(Byte), NEW w, BegunTo(w, m, Len(m) + 1, 0)
  PROVE  \E p, q :
           /\ Coded(l \o Tagged(w, Len(s) + 1), Append(s, m), p, q)
           /\ p[1] = pos[1] /\ q[1] = esc[1]
<1>0. PICK a, c : Begun(w, m, a, c) /\ a[Len(w)] = Len(m) + 1
  BY DEF BegunTo
<1>. DEFINE n == Len(l)
            z == Len(w)
            k == Len(s) + 1
            u == Tagged(w, k)
            r == l \o u
            s2 == Append(s, m)
<1>1. /\ n \in Nat /\ k \in Nat \ {0}
      /\ s2 \in Seq(Seq(Byte)) /\ Len(s2) = k /\ s2[k] = m
      /\ \A x \in 1..Len(s) : x \in 1..k /\ x # k /\ s2[x] = s[x]
  OBVIOUS
<1>2. /\ w \in Seq(Byte) /\ z \in Nat \ {0}
      /\ a \in [1..z -> Nat] /\ c \in [1..z -> {0, 1}] /\ a[1] = 0 /\ c[1] = 0
  BY <1>0 DEF Begun
<1>3. \A x \in 1..z : Place(m, a[x], c[x]) /\ w[x] = CodeAt(m, a[x], c[x])
  BY <1>0 DEF Begun
<1>4. \A x \in 1..(z - 1) :
        a[x] # Len(m) + 1 /\ After(m, a[x], c[x], a[x + 1], c[x + 1])
  BY <1>0 DEF Begun
<1>5. /\ pos \in [1..(n + 1) -> Nat] /\ esc \in [1..(n + 1) -> {0, 1}]
      /\ pos[n + 1] = 0 /\ esc[n + 1] = 0
      /\ \A x \in 1..n : CodedAt(l, s, pos, esc, x)
  BY DEF Coded
<1>6. /\ u \in Seq(TaggedByte) /\ Len(u) = z
      /\ \A x \in 1..z : u[x].b = w[x] /\ u[x].n = k
  <2>1. u \in Seq(TaggedByte)
    BY <1>1, <1>2, TaggedType
  <2>2. u = [x \in 1..z |-> [b |-> w[x], n |-> k]]
    BY DEF Tagged
  <2>3. Len(u) = z
    BY <1>2, <2>2
  <2>. QED  BY <2>1, <2>2, <2>3
<1>. HIDE DEF n, z, k, u, s2
<1>7. /\ r \in Seq(TaggedByte) /\ Len(r) = n + z
      /\ \A x \in 1..n : r[x] = l[x]
      /\ \A x \in (n + 1)..(n + z) : r[x] = u[x - n]
  <2>1. /\ r \in Seq(TaggedByte) /\ Len(r) = n + z
        /\ \A x \in 1..(n + z) : r[x] = IF x <= n THEN l[x] ELSE u[x - n]
    BY <1>6, ConcatProperties DEF n
  <2>2. /\ \A x \in 1..n : x \in 1..(n + z) /\ x <= n
        /\ \A x \in (n + 1)..(n + z) : x \in 1..(n + z) /\ ~(x <= n)
    BY <1>1, <1>2
  <2>. QED  BY <2>1, <2>2
<1>. HIDE DEF r
<1>8. PICK p, q :
        /\ p = [x \in 1..(n + z + 1) |-> IF x \in 1..n THEN pos[x]
                  ELSE IF x \in (n + 1)..(n + z) THEN a[x - n] ELSE 0]
        /\ q = [x \in 1..(n + z + 1) |-> IF x \in 1..n THEN esc[x]
                  ELSE IF x \in (n + 1)..(n + z) THEN c[x - n] ELSE 0]
  OBVIOUS
<1>9. /\ \A x \in 1..n : p[x] = pos[x] /\ q[x] = esc[x]
      /\ \A x \in (n + 1)..(n + z) : p[x] = a[x - n] /\ q[x] = c[x - n]
      /\ p[n + z + 1] = 0 /\ q[n + z + 1] = 0
  <2>1. /\ \A x \in 1..n : x \in 1..(n + z + 1)
        /\ \A x \in (n + 1)..(n + z) : x \in 1..(n + z + 1) /\ x \notin 1..n
        /\ n + z + 1 \in 1..(n + z + 1) /\ n + z + 1 \notin 1..n
        /\ n + z + 1 \notin (n + 1)..(n + z)
    BY <1>1, <1>2
  <2>. QED  BY <1>8, <2>1
<1>10. p \in [1..(n + z + 1) -> Nat] /\ q \in [1..(n + z + 1) -> {0, 1}]
  <2>1. /\ \A x \in 1..n : x \in 1..(n + 1)
        /\ \A x \in (n + 1)..(n + z) : x - n \in 1..z
    BY <1>1, <1>2
  <2>. QED  BY <1>2, <1>5, <1>8, <2>1
<1>11. p[n + 1] = 0 /\ q[n + 1] = 0 /\ Number(r, s2, n + 1) = k
  <2>1. n + 1 \in (n + 1)..(n + z) /\ (n + 1) - n = 1 /\ n + 1 \in 1..(n + z)
        /\ 1 \in 1..z
    BY <1>1, <1>2
  <2>2. p[n + 1] = 0 /\ q[n + 1] = 0
    BY <1>2, <1>9, <2>1
  <2>3. r[n + 1].n = k
    <3>1. r[n + 1] = u[(n + 1) - n]
      BY <1>7, <2>1
    <3>. QED  BY <1>6, <2>1, <3>1
  <2>. QED  BY <1>7, <2>1, <2>2, <2>3 DEF Number
<1>12. ASSUME NEW x \in 1..n  PROVE CodedAt(r, s2, p, q, x)
  <2>1. CodedAt(l, s, pos, esc, x) /\ x \in Nat /\ r[x] = l[x]
        /\ p[x] = pos[x] /\ q[x] = esc[x]
    BY <1>5, <1>7, <1>9
  <2>2. l[x].n \in 1..Len(s) /\ l[x].n \in 1..Len(s2) /\ s2[l[x].n] = s[l[x].n]
    BY <1>1, <2>1 DEF CodedAt
  <2>3. p[x + 1] = pos[x + 1] /\ q[x + 1] = esc[x + 1]
    <3>1. CASE x = n
      BY <1>5, <1>11, <3>1
    <3>2. CASE x # n
      <4>1. x + 1 \in 1..n
        BY <1>1, <3>2
      <4>. QED  BY <1>9, <4>1
    <3>. QED  BY <3>1, <3>2
  <2>4. Number(r, s2, x + 1) = Number(l, s, x + 1)
    <3>1. CASE x = n
      <4>1. n + 1 \notin 1..n
        BY <1>1
      <4>2. Number(l, s, n + 1) = k
        BY <4>1 DEF Number, n, k
      <4>. QED  BY <1>11, <3>1, <4>2
    <3>2. CASE x # n
      <4>1. x + 1 \in 1..n /\ x + 1 \in 1..(n + z)
        BY <1>1, <1>2, <3>2
      <4>. QED  BY <1>7, <4>1 DEF Number, n
    <3>. QED  BY <3>1, <3>2
  <2>. QED  BY <2>1, <2>2, <2>3, <2>4 DEF CodedAt
<1>13. ASSUME NEW x \in (n + 1)..(n + z)  PROVE CodedAt(r, s2, p, q, x)
  <2>. DEFINE y == x - n
  <2>1. y \in 1..z /\ x \in Nat /\ (x + 1) - n = y + 1 /\ y \in Nat
    BY <1>1, <1>2
  <2>2. /\ r[x] = u[y] /\ r[x].n = k /\ r[x].b = w[y] /\ p[x] = a[y] /\ q[x] = c[y]
    BY <1>6, <1>7, <1>9, <2>1
  <2>3. k \in 1..Len(s2) /\ s2[k] = m
    BY <1>1
  <2>4. Place(m, a[y], c[y]) /\ w[y] = CodeAt(m, a[y], c[y])
    BY <1>3, <2>1
  <2>. HIDE DEF y
  <2>5. CASE y = z
    <3>1. x + 1 = n + z + 1 /\ x + 1 \notin 1..(n + z)
      BY <1>1, <1>2, <2>5 DEF y
    <3>2. Number(r, s2, x + 1) = k + 1 /\ p[x + 1] = 0 /\ q[x + 1] = 0
      BY <1>1, <1>7, <1>9, <3>1 DEF Number
    <3>3. a[y] = Len(m) + 1
      BY <1>0, <2>5 DEF z
    <3>. QED  BY <2>2, <2>3, <2>4, <3>2, <3>3 DEF CodedAt
  <2>6. CASE y # z
    <3>0. n \in Nat /\ z \in Nat
      BY <1>1, <1>2
    <3>1. y \in 1..(z - 1) /\ y + 1 \in 1..z /\ x + 1 \in (n + 1)..(n + z)
          /\ x + 1 \in 1..(n + z)
      BY <2>1, <2>6, <3>0 DEF y
    <3>2. p[x + 1] = a[y + 1] /\ q[x + 1] = c[y + 1] /\ r[x + 1] = u[y + 1]
      BY <1>7, <1>9, <2>1, <3>1
    <3>3. Number(r, s2, x + 1) = k
      BY <1>6, <1>7, <3>1, <3>2 DEF Number
    <3>4. a[y] # Len(m) + 1 /\ After(m, a[y], c[y], a[y + 1], c[y + 1])
      BY <1>4, <3>1
    <3>. QED  BY <2>2, <2>3, <2>4, <3>2, <3>3, <3>4 DEF CodedAt
  <2>. QED  BY <2>5, <2>6
<1>14. \A x \in 1..(n + z) : x \in 1..n \/ x \in (n + 1)..(n + z)
  BY <1>1, <1>2
<1>15. Coded(r, s2, p, q)
  BY <1>7, <1>9, <1>10, <1>12, <1>13, <1>14 DEF Coded
<1>16. p[1] = pos[1] /\ q[1] = esc[1]
  <2>1. CASE n = 0
    BY <1>5, <1>11, <2>1
  <2>2. CASE n # 0
    <3>1. 1 \in 1..n
      BY <1>1, <2>2
    <3>. QED  BY <1>9, <3>1
  <2>. QED  BY <2>1, <2>2
<1>. QED  BY <1>15, <1>16 DEF r, u, s2, k

-----------------------------------------------------------------------------
(* The sender.                                                             *)

\* What is still to be appended is the end of the message; the buffer holds
\* the beginning of its frame, unless a byte was refused.
Built == Len(msg) - Len(todo)

BufferIsFrame == BegunTo(out, msg, Built, 0)

SenderInv == building =>
  /\ msg \in Message
  /\ Len(todo) <= Len(msg) /\ \A x \in 1..Len(todo) : todo[x] = msg[Built + x]
  /\ ~refused => Len(out) > Built /\ BufferIsFrame

\* Every frame that was sent leaves room for its flags.
SentInv ==
  \A k \in 1..Len(sent) : sent[k] \in Message /\ Len(sent[k]) + 2 < OutSize

\* append() puts the next byte behind the frame so far, or refuses it.
LEMMA AppendStep ==
  ASSUME TypeInv, SenderInv, AppendByte, ~refused'
  PROVE  Len(out') > Built' /\ BufferIsFrame'
<1>. DEFINE n == Len(out)
            i == Built
            b == msg[i + 1]
<1>1. /\ building /\ todo # <<>> /\ todo' = Tail(todo) /\ msg' = msg
      /\ refused \in BOOLEAN
  BY DEF AppendByte, TypeInv, TypeOK
<1>2. /\ msg \in Seq(Byte) /\ todo \in Seq(Byte) /\ out \in Seq(Byte)
      /\ Len(todo) <= Len(msg) /\ \A x \in 1..Len(todo) : todo[x] = msg[i + x]
  BY <1>1 DEF TypeInv, TypeOK, SenderInv
<1>3. /\ Head(todo) = b /\ i \in 0..(Len(msg) - 1) /\ Built' = i + 1
      /\ i + 1 \in 1..Len(msg)
  <2>1. Len(todo) >= 1 /\ Head(todo) = todo[1] /\ Len(Tail(todo)) = Len(todo) - 1
        /\ Len(todo) \in Nat /\ Len(msg) \in Nat
    BY <1>1, <1>2
  <2>2. Head(todo) = msg[i + 1]
    BY <1>2, <2>1
  <2>. QED  BY <1>1, <1>2, <2>1, <2>2 DEF Built
<1>4. Room(out, OutSize)
  <2>. SUFFICES ASSUME ~Room(out, OutSize)  PROVE refused'
    OBVIOUS
  <2>. QED  BY DEF AppendByte
<1>5. ~refused /\ n \in Nat
  <2>1. CASE b \notin Flags
    BY <1>2, <1>3, <1>4, <2>1 DEF AppendByte
  <2>2. CASE b \in Flags
    BY <1>2, <1>3, <1>4, <2>2 DEF AppendByte
  <2>. QED  BY <2>1, <2>2
<1>6. n > i
  BY <1>1, <1>5 DEF SenderInv
<1>7. BegunTo(out, msg, i, 0)
  BY <1>1, <1>5 DEF SenderInv, BufferIsFrame
<1>8. i # Len(msg) + 1 /\ i + 1 # 0 /\ i + 1 # Len(msg) + 1
  BY <1>2, <1>3
<1>9. CASE b \notin Flags
  <2>1. out' = Append(out, b)
    BY <1>3, <1>4, <1>9 DEF AppendByte
  <2>2. After(msg, i, 0, i + 1, 0) /\ CodeAt(msg, i + 1, 0) = b
    BY <1>3, <1>8, <1>9 DEF After, CodeAt, Escaped
  <2>3. BegunTo(out', msg, i + 1, 0)
    BY <1>2, <1>7, <1>8, <2>1, <2>2, Extended
  <2>4. Len(out') = n + 1
    BY <1>2, <1>5, <2>1
  <2>5. BufferIsFrame'
    BY <1>1, <1>3, <2>3 DEF BufferIsFrame
  <2>6. Len(out') > Built'
    BY <1>3, <1>5, <1>6, <2>4
  <2>. QED  BY <2>5, <2>6
<1>10. CASE b \in Flags
  <2>1. out' = Append(Append(out, "ESC"), b)
    BY <1>3, <1>4, <1>10 DEF AppendByte
  <2>2. After(msg, i, 0, i + 1, 1) /\ CodeAt(msg, i + 1, 1) = "ESC"
        /\ After(msg, i + 1, 1, i + 1, 0) /\ CodeAt(msg, i + 1, 0) = b
    BY <1>3, <1>8, <1>10 DEF After, CodeAt, Escaped
  <2>3. BegunTo(Append(out, "ESC"), msg, i + 1, 1)
    BY <1>2, <1>7, <1>8, <2>2, Extended
  <2>4. BegunTo(out', msg, i + 1, 0)
    BY <1>2, <1>8, <2>1, <2>2, <2>3, Extended
  <2>5. Len(out') = n + 2
    BY <1>2, <1>5, <2>1
  <2>6. BufferIsFrame'
    BY <1>1, <1>3, <2>4 DEF BufferIsFrame
  <2>7. Len(out') > Built'
    BY <1>3, <1>5, <1>6, <2>5
  <2>. QED  BY <2>6, <2>7
<1>. QED  BY <1>9, <1>10

LEMMA SenderStep ==
  ASSUME TypeInv, SenderInv, [Next]_vars  PROVE SenderInv'
<1>1. CASE BeginFrame
  <2>1. /\ msg' \in Message /\ todo' = msg' /\ refused' = FALSE
        /\ msg' \in Seq(Byte) /\ out' = <<"SOF">>
    BY <1>1, FramingAssumption DEF BeginFrame, Room
  <2>2. Built' = 0 /\ Len(out') = 1 /\ Len(todo') \in Nat
    BY <2>1 DEF Built
  <2>3. PICK a, c : a = [x \in 1..1 |-> 0] /\ c = [x \in 1..1 |-> 0]
    OBVIOUS
  <2>4. Begun(out', msg', a, c)
    <3>1. /\ out' \in Seq(Byte) /\ out'[1] = "SOF"
          /\ \A x \in 1..1 : x = 1
          /\ 1..(1 - 1) = {}
      BY <2>1, FlagsAreBytes
    <3>2. /\ a \in [1..1 -> Nat] /\ c \in [1..1 -> {0, 1}]
          /\ \A x \in 1..1 : a[x] = 0 /\ c[x] = 0
      BY <2>3
    <3>3. Place(msg', 0, 0) /\ CodeAt(msg', 0, 0) = "SOF"
      BY <2>1 DEF Place, CodeAt, Escaped
    <3>. QED  BY <2>2, <3>1, <3>2, <3>3 DEF Begun
  <2>5. a[1] = 0 /\ c[1] = 0
    BY <2>3
  <2>6. BufferIsFrame'
    BY <2>2, <2>4, <2>5 DEF BufferIsFrame, BegunTo
  <2>7. \A x \in 1..Len(todo') : todo'[x] = msg'[Built' + x]
    BY <2>1, <2>2
  <2>8. Len(todo') <= Len(msg') /\ Len(out') > Built'
    BY <2>1, <2>2
  <2>. QED  BY <2>1, <2>6, <2>7, <2>8 DEF SenderInv
<1>2. CASE AppendByte
  <2>1. /\ building /\ todo # <<>> /\ todo' = Tail(todo) /\ msg' = msg
    BY <1>2 DEF AppendByte
  <2>2. /\ msg \in Seq(Byte) /\ todo \in Seq(Byte) /\ msg \in Message
        /\ Len(todo) <= Len(msg) /\ \A x \in 1..Len(todo) : todo[x] = msg[Built + x]
    BY <2>1 DEF TypeInv, TypeOK, SenderInv
  <2>3. /\ Len(todo') = Len(todo) - 1 /\ Len(todo) \in Nat /\ Len(msg) \in Nat
        /\ \A x \in 1..Len(todo') : x + 1 \in 1..Len(todo) /\ todo'[x] = todo[x + 1]
    BY <2>1, <2>2
  <2>4. Built' = Built + 1 /\ Built \in Nat
    BY <2>1, <2>2, <2>3 DEF Built
  <2>5. ASSUME NEW x \in 1..Len(todo')  PROVE todo'[x] = msg'[Built' + x]
    <3>1. todo'[x] = msg[Built + (x + 1)]
      BY <2>2, <2>3
    <3>2. Built + (x + 1) = Built' + x
      BY <2>4
    <3>. QED  BY <2>1, <3>1, <3>2
  <2>6. Len(todo') <= Len(msg')
    BY <2>1, <2>2, <2>3
  <2>. QED  BY <1>2, <2>1, <2>2, <2>5, <2>6, AppendStep DEF SenderInv
<1>3. CASE EndFrame
  <2>1. ~building'
    BY <1>3 DEF EndFrame
  <2>. QED  BY <2>1 DEF SenderInv
<1>4. CASE Feed \/ Lose \/ UNCHANGED vars
  <2>1. UNCHANGED sender
    BY <1>4 DEF Feed, FeedEscaped, FeedStart, FeedEnd, FeedEscape, FeedByte,
       FeedIgnored, Take, Lose, vars
  <2>. QED  BY <2>1 DEF sender, SenderInv, Built, BufferIsFrame
<1>. QED  BY <1>1, <1>2, <1>3, <1>4 DEF Next, Sender

\* end_frame puts a whole frame on the line, or nothing.
LEMMA EndStep ==
  ASSUME TypeInv, SenderInv, building => RefusedMeansFull, EndFrame
  PROVE  \/ UNCHANGED <<sent, line>>
         \/ /\ sent' = Append(sent, msg) /\ msg \in Message /\ msg \in Seq(Byte)
            /\ Len(msg) + 2 < OutSize
            /\ \E w : /\ BegunTo(w, msg, Len(msg) + 1, 0)
                      /\ line' = line \o Tagged(w, Len(sent) + 1)
<1>1. CASE ~Room(out, OutSize)
  BY <1>1 DEF EndFrame
<1>2. CASE Room(out, OutSize)
  <2>1. /\ building /\ todo = <<>> /\ out' = Append(out, "EOF")
        /\ sent' = Append(sent, msg)
        /\ line' = line \o Tagged(out', Len(sent) + 1)
    BY <1>2 DEF EndFrame
  <2>2. ~refused
    BY <1>2, <2>1 DEF RefusedMeansFull
  <2>3. /\ msg \in Message /\ msg \in Seq(Byte) /\ out \in Seq(Byte)
        /\ Built = Len(msg) /\ Len(out) > Built /\ BufferIsFrame
    BY <2>1, <2>2 DEF SenderInv, TypeInv, TypeOK, Built
  <2>4. BegunTo(out, msg, Len(msg), 0)
    BY <2>3 DEF BufferIsFrame
  <2>5. Len(msg) # Len(msg) + 1 /\ Len(msg) \in Nat /\ Len(msg) + 1 # 0
        /\ Len(msg) + 1 \notin 1..Len(msg)
    BY <2>3
  <2>6. /\ After(msg, Len(msg), 0, Len(msg) + 1, 0)
        /\ CodeAt(msg, Len(msg) + 1, 0) = "EOF"
    BY <2>5 DEF After, CodeAt, Escaped
  <2>7. BegunTo(out', msg, Len(msg) + 1, 0)
    BY <2>1, <2>3, <2>4, <2>5, <2>6, Extended
  <2>8. Len(msg) + 2 < OutSize
    BY <1>2, <2>3, <2>5, FramingAssumption DEF Room
  <2>. QED  BY <2>1, <2>3, <2>7, <2>8
<1>. QED  BY <1>1, <1>2

LEMMA SentStep ==
  ASSUME TypeInv, SenderInv, building => RefusedMeansFull, SentInv, [Next]_vars
  PROVE  SentInv'
<1>1. CASE EndFrame
  <2>1. CASE UNCHANGED sent
    BY <2>1 DEF SentInv
  <2>2. CASE /\ sent' = Append(sent, msg) /\ msg \in Message
             /\ Len(msg) + 2 < OutSize
    <3>1. sent \in Seq(Seq(Byte))
      BY DEF TypeInv
    <3>2. /\ \A k \in 1..Len(sent') : k = Len(sent) + 1 \/ k \in 1..Len(sent)
          /\ \A k \in 1..Len(sent) : sent'[k] = sent[k]
          /\ sent'[Len(sent) + 1] = msg
      BY <2>2, <3>1
    <3>. QED  BY <2>2, <3>2 DEF SentInv
  <2>. QED  BY <1>1, <2>1, <2>2, EndStep
<1>2. CASE BeginFrame \/ AppendByte \/ Feed \/ Lose \/ UNCHANGED vars
  <2>1. UNCHANGED sent
    BY <1>2 DEF BeginFrame, AppendByte, Feed, FeedEscaped, FeedStart, FeedEnd,
       FeedEscape, FeedByte, FeedIgnored, Take, Lose, vars
  <2>. QED  BY <2>1 DEF SentInv
<1>. QED  BY <1>1, <1>2 DEF Next, Sender

-----------------------------------------------------------------------------
(* The receiver.                                                           *)

\* The frame the next byte belongs to.
Here == Number(line, sent, 1)

\* The receiver missed nothing of the frame before f that leaves it ESCAPING,
\* or no more than one byte was lost at all.
Synced(f) == f - 1 \notin hurt \/ lossLeft >= LossBudget - 1

\* Within an undamaged frame it is ESCAPING before an escaped byte only.
States(m, i, e) ==
  IF e = 0 /\ Escaped(m, i) = 1 THEN {"ESCAPING", "IDLE"} ELSE {"ACTIVE", "IDLE"}

InPhase(i, e) ==
  i >= 1 /\ Here \notin hurt => rstate \in States(sent[Here], i, e)

\* Where a frame begins its SOF is not taken for data.
AtStart(i) == i = 0 /\ Synced(Here) => rstate # "ESCAPING"

\* It has collected what has come of an undamaged frame that fits.
InStep(i) ==
  i >= 1 /\ Here \notin hurt /\ Synced(Here) /\ Fits(Here) =>
    /\ rstate # "IDLE" /\ Len(rbuf) = i - 1
    /\ \A x \in 1..(i - 1) : rbuf[x] = sent[Here][x]

\* What was handed over: nothing yet of the frame under way, unless it was
\* damaged; and every earlier frame that the properties promise.
PastInv ==
  /\ delivered \in Seq([n : Nat, body : Seq(Byte)])
  /\ \A x \in 1..Len(delivered) :
       /\ delivered[x].n \in 1..Here
       /\ delivered[x].n = Here => Here \in hurt
  /\ \A f \in 1..(Here - 1) :
       f \notin hurt /\ Synced(f) /\ Fits(f) => HandedOver(f)
  /\ lossLeft = LossBudget => hurt = {}

ReceiverIs(i, e) == InPhase(i, e) /\ AtStart(i) /\ InStep(i) /\ PastInv

ReceiverInv ==
  \E pos, esc : Coded(line, sent, pos, esc) /\ ReceiverIs(pos[1], esc[1])

\* The head of the line is at place <<i, e>> of m, the frame under way.
AtPlace(m, i, e) ==
  /\ line # <<>> /\ Here = Head(line).n /\ Here \in 1..Len(sent)
  /\ m = sent[Here] /\ m \in Seq(Byte)
  /\ Place(m, i, e) /\ Incoming = CodeAt(m, i, e)

\* <<j, f>> comes behind it, in this frame or at the beginning of the next.
Leads(m, i, e, j, f, next) ==
  \/ i = Len(m) + 1 /\ j = 0 /\ f = 0 /\ next = Here + 1
  \/ i # Len(m) + 1 /\ After(m, i, e, j, f) /\ next = Here

LEMMA HeadPlace ==
  ASSUME TypeInv, line # <<>>, NEW pos, NEW esc, Coded(line, sent, pos, esc)
  PROVE  /\ AtPlace(sent[Here], pos[1], esc[1])
         /\ Leads(sent[Here], pos[1], esc[1], pos[2], esc[2],
                  Number(Tail(line), sent, 1))
<1>1. /\ line \in Seq(TaggedByte) /\ sent \in Seq(Seq(Byte)) /\ Len(line) \in Nat
      /\ Len(line) >= 1 /\ Head(line) = line[1] /\ 1 \in 1..Len(line)
  BY DEF TypeInv, TypeOK
<1>2. CodedAt(line, sent, pos, esc, 1) /\ 1 + 1 = 2
  BY <1>1 DEF Coded
<1>3. Here = Head(line).n /\ Here = line[1].n /\ Here \in 1..Len(sent)
  BY <1>1, <1>2 DEF Here, Number, CodedAt
<1>4. sent[Here] \in Seq(Byte)
  BY <1>1, <1>3
<1>5. AtPlace(sent[Here], pos[1], esc[1])
  BY <1>1, <1>2, <1>3, <1>4 DEF AtPlace, CodedAt, Incoming
<1>6. Number(Tail(line), sent, 1) = Number(line, sent, 2)
  <2>1. Len(Tail(line)) = Len(line) - 1
        /\ \A x \in 1..(Len(line) - 1) : Tail(line)[x] = line[x + 1]
    BY <1>1
  <2>0. Len(line) \in Nat /\ Len(line) >= 1
    BY <1>1
  <2>2. CASE Len(line) = 1
    <3>1. Len(Tail(line)) = 0 /\ 1 \notin 1..0 /\ 2 \notin 1..1
      BY <2>1, <2>2
    <3>. QED  BY <2>2, <3>1 DEF Number
  <2>3. CASE Len(line) # 1
    <3>1. 1 \in 1..(Len(line) - 1) /\ 2 \in 1..Len(line)
      <4>1. ASSUME NEW n \in Nat, n >= 1, n # 1  PROVE 1 \in 1..(n - 1) /\ 2 \in 1..n
        BY <4>1
      <4>. QED  BY <2>0, <2>3, <4>1
    <3>2. Tail(line)[1] = line[2]
      BY <1>2, <2>1, <3>1
    <3>. QED  BY <2>1, <3>1, <3>2 DEF Number
  <2>. QED  BY <2>2, <2>3
<1>7. Leads(sent[Here], pos[1], esc[1], pos[2], esc[2], Number(line, sent, 2))
  BY <1>2, <1>3 DEF CodedAt, Leads
<1>. QED  BY <1>5, <1>6, <1>7

\* The five kinds of places.
LEMMA PlaceKinds ==
  ASSUME NEW m \in Seq(Byte), NEW i, NEW e, Place(m, i, e)
  PROVE  /\ i \in Nat /\ Len(m) \in Nat
         /\ \/ i = 0 /\ e = 0 /\ CodeAt(m, i, e) = "SOF"
            \/ /\ i = Len(m) + 1 /\ e = 0 /\ i >= 1
               /\ CodeAt(m, i, e) = "EOF" /\ Escaped(m, i) = 0
            \/ /\ i \in 1..Len(m) /\ e = 1 /\ Escaped(m, i) = 1
               /\ CodeAt(m, i, e) = "ESC"
            \/ /\ i \in 1..Len(m) /\ e = 0 /\ Escaped(m, i) = 1
               /\ CodeAt(m, i, e) = m[i]
            \/ /\ i \in 1..Len(m) /\ e = 0 /\ Escaped(m, i) = 0
               /\ CodeAt(m, i, e) = m[i] /\ m[i] \notin Flags
<1>1. i \in 0..(Len(m) + 1) /\ Len(m) \in Nat /\ e \in 0..Escaped(m, i)
  BY DEF Place
<1>2. CASE i \notin 1..Len(m)
  <2>1. Escaped(m, i) = 0 /\ e = 0 /\ (i = 0 \/ i = Len(m) + 1)
    BY <1>1, <1>2 DEF Escaped
  <2>. QED  BY <1>1, <2>1 DEF CodeAt
<1>3. CASE i \in 1..Len(m)
  <2>1. i # 0 /\ i # Len(m) + 1
    BY <1>1, <1>3
  <2>2. CASE m[i] \in Flags
    <3>1. Escaped(m, i) = 1 /\ e \in {0, 1}
      BY <1>1, <1>3, <2>2 DEF Escaped
    <3>. QED  BY <1>1, <1>3, <2>1, <3>1 DEF CodeAt
  <2>3. CASE m[i] \notin Flags
    <3>1. Escaped(m, i) = 0 /\ e = 0
      BY <1>1, <2>3 DEF Escaped
    <3>. QED  BY <1>1, <1>3, <2>1, <2>3, <3>1 DEF CodeAt
  <2>. QED  BY <2>2, <2>3
<1>. QED  BY <1>2, <1>3

LEMMA FlagsDiffer ==
  ASSUME NEW b  PROVE b \notin Flags <=> b # "SOF" /\ b # "EOF" /\ b # "ESC"
BY DEF Flags

\* What feed does with any byte.
LEMMA FeedAny ==
  ASSUME Feed
  PROVE  /\ line # <<>> /\ line' = Tail(line)
         /\ UNCHANGED <<sender, sent, lossLeft, hurt>>
         /\ \/ delivered' = delivered
            \/ delivered' = Append(delivered, [n |-> Head(line).n, body |-> rbuf])
         /\ Incoming = "EOF" => rstate' # "ESCAPING"
<1>1. CASE FeedEscaped
  BY <1>1 DEF FeedEscaped, Take, Keep
<1>2. CASE FeedStart
  BY <1>2 DEF FeedStart, Take
<1>3. CASE FeedEnd
  BY <1>3 DEF FeedEnd, Take
<1>4. CASE FeedEscape
  BY <1>4 DEF FeedEscape, Take
<1>5. CASE FeedByte
  BY <1>5 DEF FeedByte, Take, Keep
<1>6. CASE FeedIgnored
  BY <1>6 DEF FeedIgnored, Take, receiver
<1>. QED  BY <1>1, <1>2, <1>3, <1>4, <1>5, <1>6 DEF Feed

\* What feed does with a byte, by the state and the byte.
LEMMA FeedKinds ==
  ASSUME Feed
  PROVE  /\ rstate = "ESCAPING" => Keep /\ delivered' = delivered
         /\ rstate # "ESCAPING" /\ Incoming = "SOF" =>
              rstate' = "ACTIVE" /\ rbuf' = <<>> /\ delivered' = delivered
         /\ rstate = "ACTIVE" /\ Incoming = "EOF" =>
              delivered' = Append(delivered, [n |-> Head(line).n, body |-> rbuf])
         /\ rstate = "ACTIVE" /\ Incoming = "ESC" =>
              rstate' = "ESCAPING" /\ rbuf' = rbuf /\ delivered' = delivered
         /\ rstate = "ACTIVE" /\ Incoming \notin Flags =>
              Keep /\ delivered' = delivered
         /\ rstate = "IDLE" /\ Incoming # "SOF" =>
              rstate' = "IDLE" /\ delivered' = delivered
<1>. USE FlagsDiffer
<1>1. CASE FeedEscaped
  BY <1>1 DEF FeedEscaped
<1>2. CASE FeedStart
  BY <1>2 DEF FeedStart
<1>3. CASE FeedEnd
  BY <1>3 DEF FeedEnd
<1>4. CASE FeedEscape
  BY <1>4 DEF FeedEscape
<1>5. CASE FeedByte
  BY <1>5 DEF FeedByte
<1>6. CASE FeedIgnored
  BY <1>6 DEF FeedIgnored, receiver
<1>. QED  BY <1>1, <1>2, <1>3, <1>4, <1>5, <1>6 DEF Feed

\* What feed does with the bytes of an undamaged frame.
LEMMA FeedUnhurt ==
  ASSUME Feed, NEW m, NEW i, NEW e, AtPlace(m, i, e),
         i >= 1 => rstate \in States(m, i, e)
  PROVE  /\ i # Len(m) + 1 => delivered' = delivered
         /\ \A j, f : i # Len(m) + 1 /\ After(m, i, e, j, f) =>
              rstate' \in States(m, j, f)
         /\ i = Len(m) + 1 =>
              /\ rstate \in {"ACTIVE", "IDLE"}
              /\ rstate = "ACTIVE" =>
                   delivered' = Append(delivered, [n |-> Here, body |-> rbuf])
         /\ i = 0 /\ rstate # "ESCAPING" => rstate' = "ACTIVE" /\ rbuf' = <<>>
         /\ i >= 1 /\ i # Len(m) + 1 /\ rstate # "IDLE"
            /\ Len(rbuf) = i - 1 /\ Len(m) < InSize =>
              /\ rstate' # "IDLE"
              /\ rbuf' = IF e = 1 THEN rbuf ELSE Append(rbuf, m[i])
<1>0. /\ m \in Seq(Byte) /\ Place(m, i, e) /\ Incoming = CodeAt(m, i, e)
      /\ Here = Head(line).n /\ InSize \in Nat
  BY FramingAssumption DEF AtPlace
<1>1. CASE i = 0 /\ e = 0 /\ CodeAt(m, i, e) = "SOF"
  <2>1. i # Len(m) + 1 /\ ~(i >= 1)
    BY <1>0, <1>1
  <2>2. delivered' = delivered /\ rstate' \in {"ACTIVE", "IDLE"}
    BY <1>0, <1>1, FeedKinds DEF Keep
  <2>3. ASSUME NEW j, NEW f, After(m, i, e, j, f)  PROVE rstate' \in States(m, j, f)
    <3>1. f = Escaped(m, j)
      BY <1>1, <2>3 DEF After
    <3>. QED  BY <2>2, <3>1 DEF States
  <2>. QED  BY <1>0, <1>1, <2>1, <2>2, <2>3, FeedKinds
<1>2. CASE /\ i = Len(m) + 1 /\ e = 0 /\ i >= 1
           /\ CodeAt(m, i, e) = "EOF" /\ Escaped(m, i) = 0
  <2>1. rstate \in {"ACTIVE", "IDLE"} /\ i # 0
    BY <1>0, <1>2 DEF States
  <2>. QED  BY <1>0, <1>2, <2>1, FeedKinds
<1>3. CASE /\ i \in 1..Len(m) /\ e = 1 /\ Escaped(m, i) = 1
           /\ CodeAt(m, i, e) = "ESC"
  <2>1. rstate \in {"ACTIVE", "IDLE"} /\ i # Len(m) + 1 /\ i # 0
    BY <1>0, <1>3 DEF States
  <2>2. /\ delivered' = delivered /\ rstate' \in {"ESCAPING", "IDLE"}
        /\ rstate = "ACTIVE" => rstate' = "ESCAPING" /\ rbuf' = rbuf
    BY <1>0, <1>3, <2>1, FeedKinds
  <2>3. ASSUME NEW j, NEW f, After(m, i, e, j, f)  PROVE rstate' \in States(m, j, f)
    <3>1. j = i /\ f = 0
      BY <1>3, <2>3 DEF After
    <3>. QED  BY <1>3, <2>2, <3>1 DEF States
  <2>. QED  BY <1>3, <2>1, <2>2, <2>3
<1>4. CASE /\ i \in 1..Len(m) /\ e = 0 /\ Escaped(m, i) = 1
           /\ CodeAt(m, i, e) = m[i]
  <2>1. rstate \in {"ESCAPING", "IDLE"} /\ i # Len(m) + 1 /\ i # 0
    BY <1>0, <1>4 DEF States
  <2>2. delivered' = delivered /\ rstate' \in {"ACTIVE", "IDLE"}
    BY <1>0, <1>4, <2>1, FeedKinds DEF Keep
  <2>3. ASSUME NEW j, NEW f, After(m, i, e, j, f)  PROVE rstate' \in States(m, j, f)
    <3>1. f = Escaped(m, j)
      BY <1>4, <2>3 DEF After
    <3>. QED  BY <2>2, <3>1 DEF States
  <2>4. ASSUME rstate # "IDLE", Len(rbuf) = i - 1, Len(m) < InSize
        PROVE  rstate' # "IDLE" /\ rbuf' = Append(rbuf, m[i])
    <3>1. Room(rbuf, InSize)
      BY <1>0, <1>4, <2>4 DEF Room
    <3>. QED  BY <1>0, <1>4, <2>1, <2>4, <3>1, FeedKinds DEF Keep
  <2>. QED  BY <1>4, <2>1, <2>2, <2>3, <2>4
<1>5. CASE /\ i \in 1..Len(m) /\ e = 0 /\ Escaped(m, i) = 0
           /\ CodeAt(m, i, e) = m[i] /\ m[i] \notin Flags
  <2>1. rstate \in {"ACTIVE", "IDLE"} /\ i # Len(m) + 1 /\ i # 0
    BY <1>0, <1>5 DEF States
  <2>2. Incoming \notin Flags /\ Incoming # "SOF" /\ Incoming = m[i]
    BY <1>0, <1>5, FlagsDiffer
  <2>3. delivered' = delivered /\ rstate' \in {"ACTIVE", "IDLE"}
    BY <2>1, <2>2, FeedKinds DEF Keep
  <2>4. ASSUME NEW j, NEW f, After(m, i, e, j, f)  PROVE rstate' \in States(m, j, f)
    <3>1. f = Escaped(m, j)
      BY <1>5, <2>4 DEF After
    <3>. QED  BY <2>3, <3>1 DEF States
  <2>5. ASSUME rstate # "IDLE", Len(rbuf) = i - 1, Len(m) < InSize
        PROVE  rstate' # "IDLE" /\ rbuf' = Append(rbuf, m[i])
    <3>1. Room(rbuf, InSize)
      BY <1>0, <1>5, <2>5 DEF Room
    <3>. QED  BY <2>1, <2>2, <2>5, <3>1, FeedKinds DEF Keep
  <2>. QED  BY <1>5, <2>1, <2>3, <2>4, <2>5
<1>. QED  BY <1>0, <1>1, <1>2, <1>3, <1>4, <1>5, PlaceKinds

Handed == [n : Nat, body : Seq(Byte)]

\* What comes later does not undo what was handed over.
LEMMA HandedOverStays ==
  ASSUME NEW f, HandedOver(f), sent'[f] = sent[f], delivered \in Seq(Handed),
         NEW d, d.n # f,
         delivered' = delivered \/ delivered' = Append(delivered, d)
  PROVE  HandedOver(f)'
<1>1. CASE delivered' = delivered
  BY <1>1 DEF HandedOver
<1>2. CASE delivered' = Append(delivered, d)
  <2>1. PICK i \in 1..Len(delivered) :
          /\ delivered[i] = [n |-> f, body |-> sent[f]]
          /\ \A j \in 1..Len(delivered) : delivered[j].n = f => j = i
    BY DEF HandedOver
  <2>2. /\ Len(delivered') = Len(delivered) + 1 /\ Len(delivered) \in Nat
        /\ \A j \in 1..Len(delivered) : delivered'[j] = delivered[j]
        /\ delivered'[Len(delivered) + 1] = d
    BY <1>2
  <2>3. \A j \in 1..Len(delivered') : j \in 1..Len(delivered) \/ j = Len(delivered) + 1
    BY <2>2
  <2>4. i \in 1..Len(delivered') /\ delivered'[i] = [n |-> f, body |-> sent[f]]
    BY <2>1, <2>2
  <2>5. \A j \in 1..Len(delivered') : delivered'[j].n = f => j = i
    BY <2>1, <2>2, <2>3
  <2>. QED  BY <2>4, <2>5 DEF HandedOver
<1>. QED  BY <1>1, <1>2

\* The frame whose last byte comes is handed over.
LEMMA HandedOverNow ==
  ASSUME NEW f, delivered \in Seq(Handed), sent' = sent,
         \A x \in 1..Len(delivered) : delivered[x].n # f,
         delivered' = Append(delivered, [n |-> f, body |-> sent[f]])
  PROVE  HandedOver(f)'
<1>1. /\ Len(delivered') = Len(delivered) + 1 /\ Len(delivered) \in Nat
      /\ \A j \in 1..Len(delivered) : delivered'[j] = delivered[j]
      /\ delivered'[Len(delivered) + 1] = [n |-> f, body |-> sent[f]]
  OBVIOUS
<1>2. /\ \A j \in 1..Len(delivered') : j \in 1..Len(delivered) \/ j = Len(delivered) + 1
      /\ Len(delivered) + 1 \in 1..Len(delivered')
  BY <1>1
<1>3. \A j \in 1..Len(delivered') : delivered'[j].n = f => j = Len(delivered) + 1
  BY <1>1, <1>2
<1>. QED  BY <1>1, <1>2, <1>3 DEF HandedOver

\* What is in the buffer when the last byte of a frame comes.
LEMMA BufferComplete ==
  ASSUME NEW m, NEW i, NEW e, TypeInv, AtPlace(m, i, e), ReceiverIs(i, e),
         i = Len(m) + 1, Here \notin hurt, Synced(Here), Fits(Here)
  PROVE  rstate = "ACTIVE" /\ rbuf = m
<1>1. /\ m = sent[Here] /\ m \in Seq(Byte) /\ Len(m) \in Nat /\ i >= 1
      /\ rbuf \in Seq(Byte) /\ i - 1 = Len(m) /\ i \notin 1..Len(m)
  <2>1. m = sent[Here] /\ m \in Seq(Byte) /\ rbuf \in Seq(Byte)
    BY DEF AtPlace, TypeInv, TypeOK
  <2>2. Len(m) \in Nat
    BY <2>1
  <2>3. i >= 1 /\ i - 1 = Len(m) /\ i \notin 1..Len(m)
    BY <2>2
  <2>. QED  BY <2>1, <2>2, <2>3
<1>2. rstate # "IDLE" /\ Len(rbuf) = i - 1 /\ \A x \in 1..(i - 1) : rbuf[x] = m[x]
  BY <1>1 DEF ReceiverIs, InStep
<1>3. rstate \in {"ACTIVE", "IDLE"}
  <2>1. Escaped(m, i) = 0
    BY <1>1 DEF Escaped
  <2>2. rstate \in States(m, i, e)
    BY <1>1 DEF ReceiverIs, InPhase
  <2>. QED  BY <2>1, <2>2 DEF States
<1>4. rbuf = m
  <2>1. Len(rbuf) = Len(m) /\ \A x \in 1..Len(m) : rbuf[x] = m[x]
    BY <1>1, <1>2
  <2>. QED  BY <1>1, <2>1
<1>. QED  BY <1>2, <1>3, <1>4

LEMMA PastAfterFeed ==
  ASSUME TypeInv, Feed, NEW m, NEW i, NEW e, NEW j, NEW f, AtPlace(m, i, e),
         Leads(m, i, e, j, f, Here'), ReceiverIs(i, e)
  PROVE  PastInv'
<1>0. /\ delivered \in Seq(Handed) /\ Here \in 1..Len(sent) /\ Here \in Nat
      /\ Here' \in {Here, Here + 1} /\ Here = Head(line).n /\ m = sent[Here]
      /\ rbuf \in Seq(Byte)
  <2>1. delivered \in Seq(Handed)
    BY DEF ReceiverIs, PastInv, Handed
  <2>2. Here \in 1..Len(sent) /\ Here = Head(line).n /\ m = sent[Here]
    BY DEF AtPlace
  <2>3. Here' \in {Here, Here + 1}
    BY DEF Leads
  <2>4. rbuf \in Seq(Byte) /\ Len(sent) \in Nat
    BY DEF TypeInv, TypeOK
  <2>5. Here \in Nat
    BY <2>2, <2>4
  <2>. QED  BY <2>1, <2>2, <2>3, <2>4, <2>5
<1>1. PICK d : d = [n |-> Here, body |-> rbuf]
  OBVIOUS
<1>2. d \in Handed /\ d.n = Here
  BY <1>0, <1>1 DEF Handed
<1>3. /\ sent' = sent /\ lossLeft' = lossLeft /\ hurt' = hurt
      /\ delivered' = delivered \/ delivered' = Append(delivered, d)
  BY <1>0, <1>1, FeedAny
<1>4. Here \notin hurt =>
        /\ i # Len(m) + 1 => delivered' = delivered
        /\ i = Len(m) + 1 /\ rstate = "ACTIVE" => delivered' = Append(delivered, d)
  <2>. SUFFICES ASSUME Here \notin hurt
                PROVE  /\ i # Len(m) + 1 => delivered' = delivered
                       /\ i = Len(m) + 1 /\ rstate = "ACTIVE" =>
                            delivered' = Append(delivered, d)
    OBVIOUS
  <2>1. i >= 1 => rstate \in States(m, i, e)
    BY <1>0 DEF ReceiverIs, InPhase
  <2>. QED  BY <1>1, <2>1, FeedUnhurt
<1>5. delivered' \in Seq(Handed)
  <2>1. Append(delivered, d) \in Seq(Handed)
    BY <1>0, <1>2
  <2>. QED  BY <1>0, <1>3, <2>1
<1>6. \A x \in 1..Len(delivered') :
        /\ delivered'[x].n \in 1..Here
        /\ delivered'[x].n = Here => Here \in hurt \/ i = Len(m) + 1
  <2>1. \A x \in 1..Len(delivered) :
          delivered[x].n \in 1..Here /\ (delivered[x].n = Here => Here \in hurt)
    BY DEF ReceiverIs, PastInv
  <2>2. CASE delivered' = delivered
    BY <2>1, <2>2
  <2>3. CASE delivered' = Append(delivered, d) /\ delivered' # delivered
    <3>1. Here \in hurt \/ i = Len(m) + 1
      BY <1>4, <2>3
    <3>2. \A x \in 1..Len(delivered') :
            \/ x \in 1..Len(delivered) /\ delivered'[x] = delivered[x]
            \/ delivered'[x] = d
      BY <1>0, <1>2, <2>3
    <3>3. d.n \in 1..Here /\ (d.n = Here => Here \in hurt \/ i = Len(m) + 1)
      BY <1>0, <1>2, <3>1
    <3>. QED  BY <2>1, <3>2, <3>3
  <2>. QED  BY <1>3, <2>2, <2>3
<1>7. \A x \in 1..Len(delivered') :
        delivered'[x].n \in 1..Here' /\ (delivered'[x].n = Here' => Here' \in hurt')
  <2>1. CASE Here' = Here
    <3>1. i # Len(m) + 1
      BY <1>0, <2>1 DEF Leads
    <3>. QED  BY <1>3, <1>6, <2>1, <3>1
  <2>2. CASE Here' = Here + 1
    <3>1. \A y \in 1..Here : y \in 1..(Here + 1) /\ y # Here + 1
      BY <1>0
    <3>. QED  BY <1>6, <2>2, <3>1
  <2>. QED  BY <1>0, <2>1, <2>2
<1>8. ASSUME NEW g \in 1..(Here' - 1), g \notin hurt', Synced(g)', Fits(g)'
      PROVE  HandedOver(g)'
  <2>1. g \notin hurt /\ Synced(g) /\ Fits(g)
    BY <1>3, <1>8 DEF Synced, Fits
  <2>2. CASE g \in 1..(Here - 1)
    <3>1. HandedOver(g)
      BY <2>1, <2>2 DEF ReceiverIs, PastInv
    <3>2. g # Here
      BY <1>0, <2>2
    <3>. QED  BY <1>0, <1>2, <1>3, <3>1, <3>2, HandedOverStays
  <2>3. CASE g \notin 1..(Here - 1)
    <3>1. g = Here /\ Here' = Here + 1
      <4>1. Here' = Here + 1
        BY <1>0, <2>3
      <4>2. g \in 1..Here
        BY <1>0, <4>1
      <4>3. ASSUME NEW h \in Nat, NEW k \in 1..h, k \notin 1..(h - 1)  PROVE k = h
        BY <4>3
      <4>. QED  BY <1>0, <2>3, <4>1, <4>2, <4>3
    <3>2. i = Len(m) + 1
      BY <1>0, <3>1 DEF Leads
    <3>3. rstate = "ACTIVE" /\ rbuf = m
      BY <2>1, <3>1, <3>2, BufferComplete
    <3>4. delivered' = Append(delivered, [n |-> g, body |-> sent[g]])
      BY <1>0, <1>1, <1>4, <2>1, <3>1, <3>2, <3>3
    <3>5. \A x \in 1..Len(delivered) : delivered[x].n # g
      BY <2>1, <3>1 DEF ReceiverIs, PastInv
    <3>. QED  BY <1>0, <1>3, <3>4, <3>5, HandedOverNow
  <2>. QED  BY <2>2, <2>3
<1>9. (lossLeft = LossBudget => hurt = {})'
  BY <1>3 DEF ReceiverIs, PastInv
<1>. QED  BY <1>5, <1>7, <1>8, <1>9 DEF PastInv, Handed

\* A byte that is fed.
LEMMA FeedStep ==
  ASSUME TypeInv, Feed, NEW m, NEW i, NEW e, NEW j, NEW f, AtPlace(m, i, e),
         Leads(m, i, e, j, f, Here'), ReceiverIs(i, e)
  PROVE  ReceiverIs(j, f)'
<1>0. /\ m = sent[Here] /\ m \in Seq(Byte) /\ i \in Nat /\ Len(m) \in Nat
      /\ Here \in 1..Len(sent) /\ rbuf \in Seq(Byte)
  BY PlaceKinds DEF AtPlace, TypeInv, TypeOK
<1>1. sent' = sent /\ lossLeft' = lossLeft /\ hurt' = hurt
      /\ (Incoming = "EOF" => rstate' # "ESCAPING")
  BY FeedAny
<1>2. PastInv'
  BY PastAfterFeed
<1>3. CASE i = Len(m) + 1 /\ j = 0 /\ f = 0 /\ Here' = Here + 1
  <2>1. Incoming = "EOF" /\ ~(j >= 1)
    BY <1>0, <1>3 DEF AtPlace, CodeAt
  <2>2. AtStart(j)' /\ InPhase(j, f)' /\ InStep(j)'
    BY <1>1, <2>1 DEF AtStart, InPhase, InStep
  <2>. QED  BY <1>2, <2>2 DEF ReceiverIs
<1>4. CASE i # Len(m) + 1 /\ After(m, i, e, j, f) /\ Here' = Here
  <2>1. j \in Nat \ {0}
    BY <1>0, <1>4, PlaceAfter DEF AtPlace
  <2>2. AtStart(j)'
    BY <2>1 DEF AtStart
  <2>3. CASE Here \in hurt
    <3>1. InPhase(j, f)' /\ InStep(j)'
      BY <1>1, <1>4, <2>3 DEF InPhase, InStep
    <3>. QED  BY <1>2, <2>2, <3>1 DEF ReceiverIs
  <2>4. CASE Here \notin hurt
    <3>1. i >= 1 => rstate \in States(m, i, e)
      BY <1>0, <2>4 DEF ReceiverIs, InPhase
    <3>2. rstate' \in States(m, j, f)
      BY <1>4, <3>1, FeedUnhurt
    <3>3. InPhase(j, f)'
      BY <1>0, <1>1, <1>4, <3>2 DEF InPhase
    <3>4. ASSUME Synced(Here), Len(m) < InSize
          PROVE  /\ rstate' # "IDLE" /\ Len(rbuf') = j - 1
                 /\ \A x \in 1..(j - 1) : rbuf'[x] = m[x]
      <4>1. CASE i = 0
        <5>1. rstate # "ESCAPING"
          BY <3>4, <4>1 DEF ReceiverIs, AtStart
        <5>2. rstate' = "ACTIVE" /\ rbuf' = <<>>
          BY <3>1, <4>1, <5>1, FeedUnhurt
        <5>3. j = 1
          <6>1. e # 1
            BY <1>0, <4>1 DEF AtPlace, Place, Escaped
          <6>. QED  BY <1>4, <4>1, <6>1 DEF After
        <5>. QED  BY <5>2, <5>3
      <4>2. CASE i >= 1
        <5>1. /\ rstate # "IDLE" /\ Len(rbuf) = i - 1
              /\ \A x \in 1..(i - 1) : rbuf[x] = m[x]
          BY <1>0, <2>4, <3>4, <4>2 DEF ReceiverIs, InStep, Fits
        <5>2. /\ rstate' # "IDLE"
              /\ rbuf' = IF e = 1 THEN rbuf ELSE Append(rbuf, m[i])
          BY <1>4, <3>1, <3>4, <4>2, <5>1, FeedUnhurt
        <5>3. CASE e = 1
          BY <1>4, <5>1, <5>2, <5>3 DEF After
        <5>4. CASE e # 1
          <6>1. j = i + 1 /\ rbuf' = Append(rbuf, m[i]) /\ j - 1 = i
            BY <1>0, <1>4, <5>2, <5>4 DEF After
          <6>2. /\ Len(rbuf') = i /\ rbuf'[i] = m[i]
                /\ \A x \in 1..(i - 1) : rbuf'[x] = rbuf[x]
            BY <1>0, <4>2, <5>1, <6>1
          <6>3. \A x \in 1..i : x \in 1..(i - 1) \/ x = i
            BY <1>0
          <6>. QED  BY <5>1, <5>2, <6>1, <6>2, <6>3
        <5>. QED  BY <5>3, <5>4
      <4>. QED  BY <1>0, <4>1, <4>2
    <3>5. InStep(j)'
      BY <1>0, <1>1, <1>4, <3>4 DEF InStep, Synced, Fits
    <3>. QED  BY <1>2, <2>2, <3>3, <3>5 DEF ReceiverIs
  <2>. QED  BY <2>3, <2>4
<1>. QED  BY <1>3, <1>4 DEF Leads

\* A byte that is lost.
LEMMA LoseStep ==
  ASSUME TypeInv, Lose, NEW m, NEW i, NEW e, NEW j, NEW f, AtPlace(m, i, e),
         Leads(m, i, e, j, f, Here'), ReceiverIs(i, e)
  PROVE  ReceiverIs(j, f)'
<1>0. /\ m = sent[Here] /\ m \in Seq(Byte) /\ i \in Nat /\ Len(m) \in Nat
      /\ Here \in 1..Len(sent) /\ Here \in Nat /\ Here = Head(line).n
      /\ Here' \in {Here, Here + 1}
  BY PlaceKinds DEF AtPlace, Leads
<1>1. /\ sent' = sent /\ delivered' = delivered /\ rstate' = rstate /\ rbuf' = rbuf
      /\ hurt' = hurt \cup {Here} /\ lossLeft' = lossLeft - 1
      /\ lossLeft \in 0..LossBudget /\ lossLeft > 0 /\ LossBudget \in Nat
  BY <1>0, FramingAssumption DEF Lose, sender, receiver, TypeInv, TypeOK
<1>2. PastInv'
  <2>1. delivered' \in Seq(Handed)
    BY <1>1 DEF ReceiverIs, PastInv, Handed
  <2>2. \A x \in 1..Len(delivered') :
          delivered'[x].n \in 1..Here' /\ (delivered'[x].n = Here' => Here' \in hurt')
    <3>1. \A y \in 1..Here : y \in 1..(Here + 1) /\ y # Here + 1
      BY <1>0
    <3>2. \A x \in 1..Len(delivered) : delivered[x].n \in 1..Here
      BY DEF ReceiverIs, PastInv
    <3>3. CASE Here' = Here
      BY <1>1, <3>2, <3>3
    <3>4. CASE Here' = Here + 1
      BY <1>1, <3>1, <3>2, <3>4
    <3>. QED  BY <1>0, <3>3, <3>4
  <2>3. ASSUME NEW g \in 1..(Here' - 1), g \notin hurt', Synced(g)', Fits(g)'
        PROVE  HandedOver(g)'
    <3>1. g # Here /\ g \notin hurt
      BY <1>1, <2>3
    <3>2. g \in 1..(Here - 1)
      <4>1. ASSUME NEW h \in Nat, NEW k \in 1..h, k # h  PROVE k \in 1..(h - 1)
        BY <4>1
      <4>2. g \in 1..Here
        <5>1. ASSUME NEW h \in Nat, NEW o \in {h, h + 1}, NEW k \in 1..(o - 1)
              PROVE  k \in 1..h
          OBVIOUS
        <5>. QED  BY <1>0, <5>1
      <4>. QED  BY <1>0, <3>1, <4>1, <4>2
    <3>3. Synced(g) /\ Fits(g)
      BY <1>1, <2>3 DEF Synced, Fits
    <3>4. HandedOver(g)
      BY <3>1, <3>2, <3>3 DEF ReceiverIs, PastInv
    <3>. QED  BY <1>1, <3>4 DEF HandedOver
  <2>4. lossLeft' # LossBudget
    BY <1>1
  <2>. QED  BY <2>1, <2>2, <2>3, <2>4 DEF PastInv, Handed
<1>3. CASE i = Len(m) + 1 /\ j = 0 /\ f = 0 /\ Here' = Here + 1
  <2>1. ~(j >= 1)
    BY <1>3
  <2>2. ASSUME Synced(Here)'  PROVE rstate' # "ESCAPING"
    <3>1. Here' - 1 \in hurt'
      BY <1>0, <1>1, <1>3
    <3>2. lossLeft' >= LossBudget - 1
      BY <2>2, <3>1 DEF Synced
    <3>3. hurt = {}
      BY <1>1, <3>2 DEF ReceiverIs, PastInv
    <3>4. rstate \in States(m, i, e) /\ Escaped(m, i) = 0
      BY <1>0, <1>3, <3>3 DEF ReceiverIs, InPhase, Escaped
    <3>. QED  BY <1>1, <3>4 DEF States
  <2>3. AtStart(j)' /\ InPhase(j, f)' /\ InStep(j)'
    BY <2>1, <2>2 DEF AtStart, InPhase, InStep
  <2>. QED  BY <1>2, <2>3 DEF ReceiverIs
<1>4. CASE i # Len(m) + 1 /\ After(m, i, e, j, f) /\ Here' = Here
  <2>1. j \in Nat \ {0}
    BY <1>0, <1>4, PlaceAfter DEF AtPlace
  <2>2. Here' \in hurt'
    BY <1>1, <1>4
  <2>3. AtStart(j)' /\ InPhase(j, f)' /\ InStep(j)'
    BY <2>1, <2>2 DEF AtStart, InPhase, InStep
  <2>. QED  BY <1>2, <2>3 DEF ReceiverIs
<1>. QED  BY <1>3, <1>4 DEF Leads
-----------------------------------------------------------------------------
(* Sender, line and receiver together.                                     *)

LEMMA HereType ==
  ASSUME TypeInv, NEW pos, NEW esc, Coded(line, sent, pos, esc)
  PROVE  /\ Here \in 1..(Len(sent) + 1) /\ Len(sent) \in Nat
         /\ pos[1] >= 1 => Here \in 1..Len(sent)
<1>1. Len(sent) \in Nat
  BY DEF TypeInv
<1>2. CASE line = <<>>
  <2>1. Len(line) = 0 /\ 1 \notin 1..0 /\ 0 + 1 = 1
    BY <1>2
  <2>2. pos[1] = 0 /\ Here = Len(sent) + 1
    BY <2>1 DEF Coded, Here, Number
  <2>. QED  BY <1>1, <2>2
<1>3. CASE line # <<>>
  <2>1. Here \in 1..Len(sent)
    BY <1>3, HeadPlace DEF AtPlace
  <2>. QED  BY <1>1, <2>1
<1>. QED  BY <1>2, <1>3

\* The receiver is not concerned by frames that are put behind the others.
LEMMA ReceiverKept ==
  ASSUME NEW i, NEW e, ReceiverIs(i, e), Here' = Here,
         Here \in 1..(Len(sent) + 1), Len(sent) \in Nat,
         i >= 1 => Here \in 1..Len(sent),
         \A k \in 1..Len(sent) : sent'[k] = sent[k],
         UNCHANGED <<receiver, lossLeft, hurt>>
  PROVE  ReceiverIs(i, e)'
<1>1. UNCHANGED <<rstate, rbuf, delivered, lossLeft, hurt>>
  BY DEF receiver
<1>2. \A k \in 1..(Here - 1) : k \in 1..Len(sent)
  OBVIOUS
<1>3. InPhase(i, e)'
  BY <1>1 DEF ReceiverIs, InPhase
<1>4. AtStart(i)'
  BY <1>1 DEF ReceiverIs, AtStart, Synced
<1>5. InStep(i)'
  <2>. SUFFICES ASSUME i >= 1, Here \notin hurt, Synced(Here), Len(sent[Here]) < InSize
                PROVE  /\ rstate # "IDLE" /\ Len(rbuf) = i - 1
                       /\ \A x \in 1..(i - 1) : rbuf[x] = sent[Here][x]
    BY <1>1 DEF InStep, Synced, Fits
  <2>. QED  BY DEF ReceiverIs, InStep, Fits
<1>6. PastInv'
  <2>1. ASSUME NEW k \in 1..(Here - 1), k \notin hurt, Synced(k)', Fits(k)'
        PROVE  HandedOver(k)'
    <3>1. sent'[k] = sent[k]
      BY <1>2
    <3>2. Synced(k) /\ Fits(k)
      BY <1>1, <2>1, <3>1 DEF Synced, Fits
    <3>3. HandedOver(k)
      BY <2>1, <3>2 DEF ReceiverIs, PastInv
    <3>. QED  BY <1>1, <3>1, <3>3 DEF HandedOver
  <2>2. /\ delivered' \in Seq([n : Nat, body : Seq(Byte)])
        /\ \A x \in 1..Len(delivered') :
             /\ delivered'[x].n \in 1..Here'
             /\ delivered'[x].n = Here' => Here' \in hurt'
        /\ lossLeft' = LossBudget => hurt' = {}
    BY <1>1 DEF ReceiverIs, PastInv
  <2>. QED  BY <1>1, <2>1, <2>2 DEF PastInv
<1>. QED  BY <1>3, <1>4, <1>5, <1>6 DEF ReceiverIs

\* A frame that is put behind the others does not change which byte is next.
LEMMA HereKept ==
  ASSUME line \in Seq(TaggedByte), Len(sent) \in Nat,
         NEW w, w \in Seq(Byte), Len(w) >= 1,
         line' = line \o Tagged(w, Len(sent) + 1)
  PROVE  Here' = Here
<1>1. /\ Tagged(w, Len(sent) + 1) \in Seq(TaggedByte)
      /\ Len(Tagged(w, Len(sent) + 1)) = Len(w)
      /\ Tagged(w, Len(sent) + 1)[1].n = Len(sent) + 1
  <2>1. Tagged(w, Len(sent) + 1) \in Seq(TaggedByte)
    BY TaggedType
  <2>2. Tagged(w, Len(sent) + 1) =
          [x \in 1..Len(w) |-> [b |-> w[x], n |-> Len(sent) + 1]]
    BY DEF Tagged
  <2>. QED  BY <2>1, <2>2
<1>2. /\ Len(line') = Len(line) + Len(w) /\ Len(line) \in Nat
      /\ line = <<>> => line'[1].n = Len(sent) + 1
      /\ line # <<>> => line'[1] = line[1]
  <2>1. /\ Len(line') = Len(line) + Len(w)
        /\ \A x \in 1..(Len(line) + Len(w)) : line'[x] =
             IF x <= Len(line) THEN line[x]
             ELSE Tagged(w, Len(sent) + 1)[x - Len(line)]
    <3>1. PICK u \in Seq(TaggedByte) : u = Tagged(w, Len(sent) + 1)
      BY <1>1
    <3>2. /\ Len(line \o u) = Len(line) + Len(u)
          /\ \A x \in 1..(Len(line) + Len(u)) : (line \o u)[x] =
               IF x <= Len(line) THEN line[x] ELSE u[x - Len(line)]
      BY <3>1, ConcatProperties
    <3>3. Len(u) = Len(w) /\ line' = line \o u
      BY <1>1, <3>1
    <3>4. /\ Len(line') = Len(line) + Len(w)
          /\ \A x \in 1..(Len(line) + Len(w)) : line'[x] =
               IF x <= Len(line) THEN line[x] ELSE u[x - Len(line)]
      BY <3>2, <3>3, Zenon
    <3>. QED  BY <3>1, <3>4, Zenon
  <2>2. Len(line) \in Nat /\ Len(w) \in Nat /\ 1 \in 1..(Len(line) + Len(w))
    OBVIOUS
  <2>3. CASE line = <<>>
    <3>1. Len(line) = 0 /\ ~(1 <= 0) /\ 1 - 0 = 1
      BY <2>3
    <3>. QED  BY <1>1, <2>1, <2>2, <2>3, <3>1
  <2>4. CASE line # <<>>
    <3>1. 1 <= Len(line)
      BY <2>4
    <3>. QED  BY <2>1, <2>2, <2>4, <3>1
  <2>. QED  BY <2>1, <2>2, <2>3, <2>4
<1>3. Here' = Here
  <2>1. 1 \in 1..Len(line') /\ (line # <<>> => 1 \in 1..Len(line))
    BY <1>2
  <2>2. line = <<>> => 1 \notin 1..Len(line)
    OBVIOUS
  <2>. QED  BY <1>2, <2>1, <2>2 DEF Here, Number
<1>. QED  BY <1>3

FramingInv ==
  /\ TypeInv /\ (building => RefusedMeansFull) /\ SenderInv /\ SentInv
  /\ ReceiverInv

LEMMA EndReceiver ==
  ASSUME FramingInv, EndFrame  PROVE ReceiverInv'
<1>1. PICK pos, esc : Coded(line, sent, pos, esc) /\ ReceiverIs(pos[1], esc[1])
  BY DEF FramingInv, ReceiverInv
<1>2. /\ TypeInv /\ line \in Seq(TaggedByte) /\ sent \in Seq(Seq(Byte))
      /\ UNCHANGED <<receiver, lossLeft, hurt>>
  BY DEF FramingInv, TypeInv, TypeOK, EndFrame
<1>3. /\ Here \in 1..(Len(sent) + 1) /\ Len(sent) \in Nat
      /\ pos[1] >= 1 => Here \in 1..Len(sent)
  BY <1>1, <1>2, HereType
<1>4. CASE UNCHANGED <<sent, line>>
  <2>1. Here' = Here
    BY <1>4 DEF Here
  <2>2. ReceiverIs(pos[1], esc[1])'
    BY <1>1, <1>2, <1>3, <1>4, <2>1, ReceiverKept
  <2>. QED  BY <1>1, <1>4, <2>2 DEF ReceiverInv
<1>5. ASSUME sent' = Append(sent, msg), msg \in Seq(Byte),
             NEW w, BegunTo(w, msg, Len(msg) + 1, 0),
             line' = line \o Tagged(w, Len(sent) + 1)
      PROVE  ReceiverInv'
  <2>1. PICK p, q : Coded(line', sent', p, q) /\ p[1] = pos[1] /\ q[1] = esc[1]
    BY <1>1, <1>2, <1>5, CodedAppend
  <2>2. w \in Seq(Byte) /\ Len(w) >= 1
    BY <1>5 DEF BegunTo, Begun
  <2>3. Here' = Here
    BY <1>2, <1>3, <1>5, <2>2, HereKept
  <2>4. \A k \in 1..Len(sent) : sent'[k] = sent[k]
    BY <1>2, <1>5
  <2>5. ReceiverIs(pos[1], esc[1])'
    BY <1>1, <1>2, <1>3, <2>3, <2>4, ReceiverKept
  <2>6. ReceiverIs(p[1], q[1])'
    BY <2>1, <2>5
  <2>. QED  BY <2>1, <2>6 DEF ReceiverInv
<1>6. \/ UNCHANGED <<sent, line>>
      \/ /\ sent' = Append(sent, msg) /\ msg \in Seq(Byte)
         /\ \E w : /\ BegunTo(w, msg, Len(msg) + 1, 0)
                   /\ line' = line \o Tagged(w, Len(sent) + 1)
  BY <1>2, EndStep DEF FramingInv
<1>. QED  BY <1>4, <1>5, <1>6

LEMMA ReceiverStep ==
  ASSUME FramingInv, [Next]_vars  PROVE ReceiverInv'
<1>1. PICK pos, esc : Coded(line, sent, pos, esc) /\ ReceiverIs(pos[1], esc[1])
  BY DEF FramingInv, ReceiverInv
<1>2. TypeInv /\ line \in Seq(TaggedByte) /\ sent \in Seq(Seq(Byte))
  BY DEF FramingInv, TypeInv, TypeOK
<1>3. CASE Feed \/ Lose
  <2>1. line # <<>> /\ line' = Tail(line) /\ sent' = sent
    BY <1>3, FeedAny DEF Lose
  <2>2. PICK p, q : Coded(line', sent', p, q) /\ p[1] = pos[2] /\ q[1] = esc[2]
    BY <1>1, <1>2, <2>1, CodedTail
  <2>3. Here' = Number(Tail(line), sent, 1)
    BY <2>1 DEF Here
  <2>4. /\ AtPlace(sent[Here], pos[1], esc[1])
        /\ Leads(sent[Here], pos[1], esc[1], pos[2], esc[2], Here')
    BY <1>1, <1>2, <2>1, <2>3, HeadPlace
  <2>5. ReceiverIs(pos[2], esc[2])'
    <3>1. CASE Feed
      BY <1>1, <1>2, <2>4, <3>1, FeedStep
    <3>2. CASE Lose
      BY <1>1, <1>2, <2>4, <3>2, LoseStep
    <3>. QED  BY <1>3, <3>1, <3>2
  <2>6. ReceiverIs(p[1], q[1])'
    BY <2>2, <2>5
  <2>. QED  BY <2>2, <2>6 DEF ReceiverInv
<1>4. CASE EndFrame
  BY <1>4, EndReceiver
<1>5. CASE BeginFrame \/ AppendByte \/ UNCHANGED vars
  <2>1. UNCHANGED <<sent, line, receiver, lossLeft, hurt>>
    BY <1>5 DEF BeginFrame, AppendByte, vars
  <2>2. Here' = Here
    BY <2>1 DEF Here
  <2>3. /\ Here \in 1..(Len(sent) + 1) /\ Len(sent) \in Nat
        /\ pos[1] >= 1 => Here \in 1..Len(sent)
    BY <1>1, <1>2, HereType
  <2>4. ReceiverIs(pos[1], esc[1])'
    BY <1>1, <2>1, <2>2, <2>3, ReceiverKept
  <2>. QED  BY <1>1, <2>1, <2>4 DEF ReceiverInv
<1>. QED  BY <1>3, <1>4, <1>5 DEF Next, Sender

LEMMA FramingInit == Init => FramingInv
<1>. SUFFICES ASSUME Init  PROVE FramingInv
  OBVIOUS
<1>1. /\ building = FALSE /\ line = <<>> /\ sent = <<>> /\ rstate = "IDLE"
      /\ hurt = {} /\ delivered = <<>>
  BY DEF Init
<1>2. (building => RefusedMeansFull) /\ SenderInv /\ SentInv
  BY <1>1 DEF SenderInv, SentInv
<1>3. ReceiverInv
  <2>1. PICK p : p = [x \in 1..1 |-> 0]
    OBVIOUS
  <2>2. p \in [1..1 -> Nat] /\ p \in [1..1 -> {0, 1}] /\ p[1] = 0
    BY <2>1
  <2>3. Len(line) = 0 /\ Len(sent) = 0 /\ 0 + 1 = 1 /\ 1 \notin 1..0 /\ 1..0 = {}
    BY <1>1
  <2>4. Coded(line, sent, p, p)
    BY <2>2, <2>3 DEF Coded
  <2>5. Here = 1 /\ 1 - 1 = 0 /\ ~(0 >= 1)
    BY <2>3 DEF Here, Number
  <2>6. PastInv
    <3>1. delivered \in Seq([n : Nat, body : Seq(Byte)]) /\ Len(delivered) = 0
      BY <1>1
    <3>. QED  BY <1>1, <2>3, <2>5, <3>1 DEF PastInv
  <2>7. ReceiverIs(p[1], p[1])
    BY <1>1, <2>2, <2>5, <2>6 DEF ReceiverIs, InPhase, AtStart, InStep
  <2>. QED  BY <2>4, <2>7 DEF ReceiverInv
<1>. QED  BY <1>2, <1>3, TypeInvInit DEF FramingInv

LEMMA FramingStep == FramingInv /\ [Next]_vars => FramingInv'
<1>. SUFFICES ASSUME FramingInv, [Next]_vars  PROVE FramingInv'
  OBVIOUS
<1>1. /\ TypeInv /\ (building => RefusedMeansFull) /\ SenderInv /\ SentInv
      /\ TypeOK
  BY DEF FramingInv, TypeInv
<1>2. TypeInv' /\ (building => RefusedMeansFull)'
  BY <1>1, TypeInvStep, RefusedStep
<1>3. SenderInv' /\ SentInv' /\ ReceiverInv'
  BY <1>1, SenderStep, SentStep, ReceiverStep
<1>. QED  BY <1>2, <1>3 DEF FramingInv

LEMMA FramingInvHolds == Spec => []FramingInv
BY FramingInit, FramingStep, PTL DEF Spec

\* Frames whose bytes have all left the line are those before the head's.
LEMMA ArrivedFrames ==
  ASSUME TypeInv  PROVE Arrived = 1..(Here - 1)
<1>1. line \in Seq(TaggedByte) /\ Len(sent) \in Nat /\ sent \in Seq(Seq(Byte))
  BY DEF TypeInv, TypeOK
<1>2. CASE line = <<>>
  <2>1. Here = Len(sent) + 1 /\ (Len(sent) + 1) - 1 = Len(sent)
    BY <1>1, <1>2 DEF Here, Number
  <2>. QED  BY <1>2, <2>1 DEF Arrived
<1>3. CASE line # <<>>
  <2>1. 1 \in 1..Len(line) /\ Head(line) = line[1]
    BY <1>1, <1>3
  <2>. QED  BY <1>3, <2>1 DEF Arrived, Here, Number
<1>. QED  BY <1>2, <1>3

LEMMA PromisedFrames ==
  ASSUME FramingInv, NEW k \in Arrived, k \notin hurt, Fits(k), Synced(k)
  PROVE  HandedOver(k)
<1>1. k \in 1..(Here - 1)
  BY ArrivedFrames DEF FramingInv
<1>. QED  BY <1>1 DEF FramingInv, ReceiverInv, ReceiverIs, PastInv

\* One lost byte, wherever it is, spoils the frame it belongs to and no other:
\* the next SOF is never taken for data.  Any messages and sizes.
THEOREM OneLossCostsOneFrame == Spec => []OneLossOneFrame
<1>1. FramingInv => OneLossOneFrame
  BY PromisedFrames DEF OneLossOneFrame, Synced
<1>. QED  BY <1>1, FramingInvHolds, PTL

\* However many bytes are lost, and however many frames are too long for the
\* receiver: it is in step after one undamaged frame.
THEOREM IntactFrameResyncs == Spec => []IntactAfterIntact
<1>1. FramingInv => IntactAfterIntact
  BY PromisedFrames DEF IntactAfterIntact, Synced
<1>. QED  BY <1>1, FramingInvHolds, PTL

-----------------------------------------------------------------------------
(* On a line without losses.                                               *)

\* A frame is put behind those under way.
LEMMA QueueGrows ==
  ASSUME NEW S, NEW s \in Seq(S), NEW m \in S, NEW n \in Nat, n <= Len(s)
  PROVE  SubSeq(Append(s, m), n + 1, Len(Append(s, m))) =
           Append(SubSeq(s, n + 1, Len(s)), m)
<1>. DEFINE a == SubSeq(Append(s, m), n + 1, Len(s) + 1)
            q == SubSeq(s, n + 1, Len(s))
<1>1. /\ Append(s, m) \in Seq(S) /\ Len(Append(s, m)) = Len(s) + 1
      /\ Len(s) \in Nat /\ Append(s, m)[Len(s) + 1] = m
      /\ \A x \in 1..Len(s) : Append(s, m)[x] = s[x]
  OBVIOUS
<1>2. /\ q \in Seq(S) /\ Len(q) = Len(s) - n
      /\ \A x \in 1..(Len(s) - n) : q[x] = s[n + x]
  OBVIOUS
<1>3. /\ a \in Seq(S) /\ Len(a) = (Len(s) - n) + 1
      /\ \A x \in 1..((Len(s) - n) + 1) : a[x] = Append(s, m)[n + x]
  BY <1>1
<1>4. /\ Append(q, m) \in Seq(S) /\ Len(Append(q, m)) = (Len(s) - n) + 1
      /\ Append(q, m)[(Len(s) - n) + 1] = m
      /\ \A x \in 1..(Len(s) - n) : Append(q, m)[x] = q[x]
  BY <1>2
<1>5. ASSUME NEW x \in 1..((Len(s) - n) + 1)  PROVE a[x] = Append(q, m)[x]
  <2>1. CASE x \in 1..(Len(s) - n)
    <3>1. n + x \in 1..Len(s)
      BY <1>1, <2>1
    <3>. QED  BY <1>1, <1>2, <1>3, <1>4, <1>5, <2>1, <3>1
  <2>2. CASE x = (Len(s) - n) + 1
    <3>1. n + x = Len(s) + 1
      BY <1>1, <2>2
    <3>. QED  BY <1>1, <1>3, <1>4, <1>5, <2>2, <3>1
  <2>. QED  BY <1>1, <1>5, <2>1, <2>2
<1>6. a = Append(q, m)
  BY <1>3, <1>4, <1>5, SeqEqual
<1>. QED  BY <1>1, <1>6

\* The first of them leaves.
LEMMA QueueShrinks ==
  ASSUME NEW S, NEW s \in Seq(S), NEW n \in Nat, n < Len(s)
  PROVE  /\ SubSeq(s, n + 1, Len(s)) # <<>>
         /\ Head(SubSeq(s, n + 1, Len(s))) = s[n + 1]
         /\ Tail(SubSeq(s, n + 1, Len(s))) = SubSeq(s, (n + 1) + 1, Len(s))
<1>1. PICK x, y, q : x = n + 1 /\ y = Len(s) /\ q = SubSeq(s, n + 1, Len(s))
  OBVIOUS
<1>2. x \in 1..Len(s) /\ y \in x..Len(s)
  BY <1>1
<1>3. Len(q) = Len(s) - n /\ q \in Seq(S) /\ Len(s) \in Nat
  BY <1>1
<1>4. q # <<>>
  BY <1>3
<1>5. Head(SubSeq(s, x, y)) = s[x] /\ Tail(SubSeq(s, x, y)) = SubSeq(s, x + 1, y)
  BY <1>2, HeadTailOfSubSeq
<1>. QED  BY <1>1, <1>4, <1>5, Zenon

\* One more is handed over.
LEMMA GotGrows ==
  ASSUME NEW d \in Seq(Handed), NEW h \in Handed
  PROVE  [x \in 1..Len(Append(d, h)) |-> Append(d, h)[x].body] =
           Append([x \in 1..Len(d) |-> d[x].body], h.body)
<1>. DEFINE g == [x \in 1..Len(d) |-> d[x].body]
<1>1. /\ Len(d) \in Nat /\ Len(Append(d, h)) = Len(d) + 1
      /\ Append(d, h)[Len(d) + 1] = h
      /\ \A x \in 1..Len(d) : Append(d, h)[x] = d[x]
      /\ \A x \in 1..Len(d) : d[x] \in Handed
  OBVIOUS
<1>2. h.body \in Seq(Byte) /\ \A x \in 1..Len(d) : d[x].body \in Seq(Byte)
  BY <1>1 DEF Handed
<1>3. g \in Seq(Seq(Byte)) /\ Len(g) = Len(d)
  BY <1>1, <1>2
<1>4. Append(g, h.body) =
        [x \in 1..(Len(d) + 1) |-> IF x = Len(d) + 1 THEN h.body ELSE d[x].body]
  BY <1>1, <1>2, <1>3
<1>5. \A x \in 1..(Len(d) + 1) :
        Append(d, h)[x].body = IF x = Len(d) + 1 THEN h.body ELSE d[x].body
  BY <1>1
<1>. QED  BY <1>1, <1>4, <1>5, Zenon

\* Without losses the frames handed over are those before the one under way.
LinkInv ==
  /\ Len(delivered) = Here - 1
  /\ \A x \in 1..Len(delivered) : delivered[x].body = sent[x]

LosslessAssumption == LossBudget = 0 /\ OutSize <= InSize + 2

\* Nothing is lost, and every frame that is sent fits.
LEMMA Lossless ==
  ASSUME FramingInv, LosslessAssumption
  PROVE  /\ hurt = {} /\ ~Lose /\ PastInv
         /\ \A k \in 1..Len(sent) : Synced(k) /\ Fits(k)
<1>1. PastInv
  BY DEF FramingInv, ReceiverInv, ReceiverIs
<1>2. lossLeft = 0 /\ LossBudget = 0
  BY DEF FramingInv, TypeInv, TypeOK, LosslessAssumption
<1>3. hurt = {} /\ ~Lose
  BY <1>1, <1>2 DEF PastInv, Lose
<1>4. ASSUME NEW k \in 1..Len(sent)  PROVE Synced(k) /\ Fits(k)
  <2>1. Synced(k)
    BY <1>3 DEF Synced
  <2>2. sent[k] \in Seq(Byte) /\ Len(sent[k]) + 2 < OutSize
    BY DEF FramingInv, TypeInv, SentInv
  <2>3. Fits(k)
    BY <2>2, FramingAssumption DEF Fits, LosslessAssumption
  <2>. QED  BY <2>1, <2>3
<1>. QED  BY <1>1, <1>3, <1>4

\* Every byte but a frame's last leaves the receiver's deliveries alone, and
\* that one hands its frame over.
LEMMA LosslessFeed ==
  ASSUME FramingInv, LosslessAssumption, Feed
  PROVE  /\ Here \in 1..Len(sent) /\ sent' = sent
         /\ \/ Here' = Here /\ delivered' = delivered
            \/ /\ Here' = Here + 1
               /\ delivered' = Append(delivered, [n |-> Here, body |-> sent[Here]])
<1>1. PICK pos, esc : Coded(line, sent, pos, esc) /\ ReceiverIs(pos[1], esc[1])
  BY DEF FramingInv, ReceiverInv
<1>2. TypeInv /\ line # <<>> /\ line' = Tail(line) /\ sent' = sent
  BY FeedAny DEF FramingInv
<1>. DEFINE m == sent[Here]
            i == pos[1]
            e == esc[1]
<1>3. Here' = Number(Tail(line), sent, 1)
  BY <1>2 DEF Here
<1>4. AtPlace(m, i, e) /\ Leads(m, i, e, pos[2], esc[2], Here')
  BY <1>1, <1>2, <1>3, HeadPlace
<1>5. Here \in 1..Len(sent) /\ Here \notin hurt /\ Synced(Here) /\ Fits(Here)
  BY <1>4, Lossless DEF AtPlace
<1>6. i >= 1 => rstate \in States(m, i, e)
  BY <1>1, <1>5 DEF ReceiverIs, InPhase
<1>7. CASE i = Len(m) + 1
  <2>1. rstate = "ACTIVE" /\ rbuf = m
    BY <1>1, <1>2, <1>4, <1>5, <1>7, BufferComplete
  <2>2. delivered' = Append(delivered, [n |-> Here, body |-> rbuf])
    BY <1>4, <1>6, <1>7, <2>1, FeedUnhurt
  <2>3. Here' = Here + 1
    BY <1>4, <1>7 DEF Leads
  <2>. QED  BY <1>2, <1>5, <2>1, <2>2, <2>3
<1>8. CASE i # Len(m) + 1
  <2>1. delivered' = delivered
    BY <1>4, <1>6, <1>8, FeedUnhurt
  <2>2. Here' = Here
    BY <1>4, <1>8 DEF Leads
  <2>. QED  BY <1>2, <1>5, <2>1, <2>2
<1>. QED  BY <1>7, <1>8

\* end_frame: the frame joins the queue, or nothing happens.
LEMMA LosslessEnd ==
  ASSUME FramingInv, EndFrame
  PROVE  /\ Here' = Here /\ delivered' = delivered
         /\ \/ sent' = sent
            \/ sent' = Append(sent, msg) /\ msg \in Message /\ msg \in Seq(Byte)
<1>1. /\ TypeInv /\ SenderInv /\ (building => RefusedMeansFull)
      /\ line \in Seq(TaggedByte) /\ Len(sent) \in Nat /\ delivered' = delivered
  BY DEF FramingInv, TypeInv, TypeOK, EndFrame, receiver
<1>2. CASE UNCHANGED <<sent, line>>
  BY <1>1, <1>2 DEF Here
<1>3. ASSUME sent' = Append(sent, msg), msg \in Message, msg \in Seq(Byte),
             NEW w, BegunTo(w, msg, Len(msg) + 1, 0),
             line' = line \o Tagged(w, Len(sent) + 1)
      PROVE  Here' = Here
  <2>1. w \in Seq(Byte) /\ Len(w) >= 1
    BY <1>3 DEF BegunTo, Begun
  <2>. QED  BY <1>1, <1>3, <2>1, HereKept
<1>. QED  BY <1>1, <1>2, <1>3, EndStep

\* What a step of the layer is to the queue of frames.
LinkKept == Here' = Here /\ UNCHANGED <<sent, delivered>>

LinkSends ==
  /\ Here' = Here /\ delivered' = delivered
  /\ sent' = Append(sent, msg) /\ msg \in Message /\ msg \in Seq(Byte)

LinkDelivers ==
  /\ Here' = Here + 1 /\ sent' = sent /\ Here \in 1..Len(sent)
  /\ delivered' = Append(delivered, [n |-> Here, body |-> sent[Here]])

LEMMA LinkKinds ==
  ASSUME FramingInv, LosslessAssumption, [Next]_vars
  PROVE  LinkKept \/ LinkSends \/ LinkDelivers
<1>1. CASE Feed
  BY <1>1, LosslessFeed DEF LinkKept, LinkDelivers
<1>2. CASE EndFrame
  BY <1>2, LosslessEnd DEF LinkKept, LinkSends
<1>3. CASE BeginFrame \/ AppendByte \/ UNCHANGED vars
  <2>1. UNCHANGED <<sent, line, delivered>>
    BY <1>3 DEF BeginFrame, AppendByte, vars, receiver
  <2>. QED  BY <2>1 DEF LinkKept, Here
<1>4. CASE Lose
  BY <1>4, Lossless
<1>. QED  BY <1>1, <1>2, <1>3, <1>4 DEF Next, Sender

LEMMA LinkInvStep ==
  ASSUME FramingInv, LinkInv, LinkKept \/ LinkSends \/ LinkDelivers
  PROVE  LinkInv'
<1>1. /\ sent \in Seq(Seq(Byte)) /\ delivered \in Seq(Handed)
      /\ Len(delivered) = Here - 1 /\ Here \in 1..(Len(sent) + 1)
      /\ \A x \in 1..Len(delivered) : delivered[x].body = sent[x]
  BY HereType DEF FramingInv, TypeInv, ReceiverInv, ReceiverIs, PastInv, Handed,
     LinkInv
<1>2. Len(delivered) <= Len(sent) /\ Len(sent) \in Nat /\ Len(delivered) \in Nat
  BY <1>1
<1>3. \A x \in 1..Len(delivered) : x \in 1..Len(sent)
  BY <1>2
<1>4. CASE LinkKept
  BY <1>1, <1>4 DEF LinkKept, LinkInv
<1>5. CASE LinkSends
  <2>1. \A x \in 1..Len(sent) : sent'[x] = sent[x]
    BY <1>1, <1>5 DEF LinkSends
  <2>. QED  BY <1>1, <1>3, <1>5, <2>1 DEF LinkSends, LinkInv
<1>6. CASE LinkDelivers
  <2>1. /\ delivered' = Append(delivered, [n |-> Here, body |-> sent[Here]])
        /\ Here' = Here + 1 /\ sent' = sent /\ Len(delivered) + 1 = Here
    BY <1>1, <1>6 DEF LinkDelivers
  <2>2. /\ Len(delivered') = Len(delivered) + 1
        /\ \A x \in 1..Len(delivered) : delivered'[x] = delivered[x]
        /\ delivered'[Len(delivered) + 1] = [n |-> Here, body |-> sent[Here]]
    BY <1>1, <2>1
  <2>3. \A x \in 1..Len(delivered') :
          x \in 1..Len(delivered) \/ x = Len(delivered) + 1
    BY <1>2, <2>2
  <2>4. \A x \in 1..Len(delivered') : delivered'[x].body = sent'[x]
    BY <1>1, <2>1, <2>2, <2>3
  <2>5. Len(delivered') = Here' - 1
    BY <1>1, <1>2, <2>1, <2>2
  <2>. QED  BY <2>4, <2>5 DEF LinkInv
<1>. QED  BY <1>4, <1>5, <1>6

LEMMA LinkStep ==
  ASSUME FramingInv, LinkInv, LinkKept \/ LinkSends \/ LinkDelivers
  PROVE  [Link!LNext]_<<SubSeq(sent, Len(delivered) + 1, Len(sent)),
                        [i \in 1..Len(delivered) |-> delivered[i].body]>>
<1>1. /\ sent \in Seq(Seq(Byte)) /\ delivered \in Seq(Handed)
      /\ Len(delivered) = Here - 1 /\ Here \in 1..(Len(sent) + 1)
  BY HereType DEF FramingInv, TypeInv, ReceiverInv, ReceiverIs, PastInv, Handed,
     LinkInv
<1>2. Len(delivered) <= Len(sent) /\ Len(sent) \in Nat /\ Len(delivered) \in Nat
  BY <1>1
<1>3. CASE LinkKept
  BY <1>3 DEF LinkKept
<1>4. CASE LinkSends
  <2>1. /\ sent' = Append(sent, msg) /\ delivered' = delivered
        /\ msg \in Message /\ msg \in Seq(Byte)
    BY <1>4 DEF LinkSends
  <2>2. SubSeq(Append(sent, msg), Len(delivered) + 1, Len(Append(sent, msg))) =
          Append(SubSeq(sent, Len(delivered) + 1, Len(sent)), msg)
    BY <1>1, <1>2, <2>1, QueueGrows
  <2>3. Link!Send
    BY <2>1, <2>2, Zenon DEF Link!Send
  <2>. QED  BY <2>3 DEF Link!LNext
<1>5. CASE LinkDelivers
  <2>1. PICK h : h = [n |-> Here, body |-> sent[Here]]
    OBVIOUS
  <2>2. /\ delivered' = Append(delivered, h) /\ sent' = sent
        /\ Here \in 1..Len(sent) /\ Here \in Nat /\ Len(delivered) + 1 = Here
        /\ h.body = sent[Here]
    BY <1>1, <1>5, <2>1 DEF LinkDelivers
  <2>3. h \in Handed
    <3>1. sent[Here] \in Seq(Byte)
      BY <1>1, <2>2
    <3>. QED  BY <2>1, <2>2, <3>1 DEF Handed
  <2>4. /\ SubSeq(sent, Len(delivered) + 1, Len(sent)) # <<>>
        /\ Head(SubSeq(sent, Len(delivered) + 1, Len(sent))) = h.body
        /\ Tail(SubSeq(sent, Len(delivered) + 1, Len(sent))) =
             SubSeq(sent, (Len(delivered) + 1) + 1, Len(sent))
    <3>1. Len(delivered) < Len(sent)
      BY <1>2, <2>2
    <3>2. sent[Len(delivered) + 1] = h.body
      BY <2>2
    <3>3. /\ SubSeq(sent, Len(delivered) + 1, Len(sent)) # <<>>
          /\ Head(SubSeq(sent, Len(delivered) + 1, Len(sent))) =
               sent[Len(delivered) + 1]
          /\ Tail(SubSeq(sent, Len(delivered) + 1, Len(sent))) =
               SubSeq(sent, (Len(delivered) + 1) + 1, Len(sent))
      BY <1>1, <1>2, <3>1, QueueShrinks
    <3>. QED  BY <3>2, <3>3, Zenon
  <2>5. Len(delivered') = Len(delivered) + 1
    BY <1>1, <2>2
  <2>6. [i \in 1..Len(delivered') |-> delivered'[i].body] =
          Append([i \in 1..Len(delivered) |-> delivered[i].body], h.body)
    <3>1. [x \in 1..Len(Append(delivered, h)) |-> Append(delivered, h)[x].body] =
            Append([x \in 1..Len(delivered) |-> delivered[x].body], h.body)
      BY <1>1, <2>3, GotGrows
    <3>. QED  BY <2>2, <3>1, Zenon
  <2>7. Link!Deliver
    BY <2>2, <2>4, <2>5, <2>6, Zenon DEF Link!Deliver
  <2>. QED  BY <2>7 DEF Link!LNext
<1>. QED  BY <1>3, <1>4, <1>5

LEMMA LinkInit ==
  ASSUME Init  PROVE LinkInv /\ Link!LInit
<1>1. sent = <<>> /\ delivered = <<>> /\ line = <<>>
  BY DEF Init
<1>2. Len(delivered) = 0 /\ Len(sent) = 0 /\ 1..0 = {} /\ Len(line) = 0
  BY <1>1
<1>3. LinkInv
  BY <1>2 DEF LinkInv, Here, Number
<1>4. SubSeq(sent, Len(delivered) + 1, Len(sent)) = <<>>
  BY <1>1, <1>2
<1>5. [i \in 1..Len(delivered) |-> delivered[i].body] = <<>>
  BY <1>2
<1>. QED  BY <1>3, <1>4, <1>5 DEF Link!LInit

\* On a line that loses nothing, framing.c is a queue of frames: every frame that
\* end_frame sent is handed to on_incoming_frame_cb once, whole and in order,
\* whatever bytes it carries.  The buffers are of one size in telemetry_core.h.
THEOREM FramingRefinesLink ==
  ASSUME LosslessAssumption  PROVE Spec => Link!LSafe
<1>1. Init => LinkInv /\ Link!LInit
  BY LinkInit
<1>2. FramingInv /\ LinkInv /\ [Next]_vars => LinkInv'
  BY LinkKinds, LinkInvStep
<1>3. FramingInv /\ LinkInv /\ [Next]_vars =>
        [Link!LNext]_<<SubSeq(sent, Len(delivered) + 1, Len(sent)),
                       [i \in 1..Len(delivered) |-> delivered[i].body]>>
  BY LinkKinds, LinkStep
<1>. QED  BY <1>1, <1>2, <1>3, FramingInvHolds, PTL DEF Spec, Link!LSafe
=============================================================================
