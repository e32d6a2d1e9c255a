--------------------------- MODULE PublishProofs ---------------------------
(***************************************************************************)
(* Proofs about Publish, for any set of publishing tasks, any frames and   *)
(* any buffer: how far concurrent publishing can overrun the buffer, that  *)
(* two tasks cannot, and that a publish nobody overlaps is sound.          *)
(***************************************************************************)
EXTENDS Publish, FiniteSetTheorems, TLAPS

Tasks == Cardinality(Publishers)

\* The tasks that have found room and not yet advanced the cursor.
Waiting == {p \in Publishers : pc[p] = "advance"}

Types ==
  /\ cursor \in Nat
  /\ pc \in [Publishers -> Points]
  /\ done \in [Publishers -> Nat]
  /\ \A p \in Publishers :
       /\ done[p] <= Length[p]
       /\ pc[p] \in {"append", "advance", "put"} => done[p] < Length[p]
       /\ pc[p] \notin {"append", "advance", "put"} => done[p] = 0
  /\ reg \in [Publishers -> Nat] /\ size \in [Publishers -> Nat]
  /\ left \in [Publishers -> 0..Budget]
  /\ alone \in [Publishers -> BOOLEAN]
  /\ buf \in [Slots -> {Nothing} \cup (Publishers \X Nat)]

\* Every task that waits to advance may do so without another test.
RoomInv ==
  /\ cursor + Cardinality(Waiting) <= OutSize - 2 + Tasks
  /\ \A p \in Publishers :
       /\ pc[p] = "advance" => reg[p] <= OutSize - 2
       /\ pc[p] = "put" => reg[p] <= OutSize - 3 + Tasks
       /\ size[p] <= OutSize - 2 + Tasks

LEMMA TypesInit == Init => Types
  BY PublishAssumption DEF Init, Types, Points

LEMMA TypesStep ==
  ASSUME Types, [Next]_vars  PROVE Types'
<1>. USE PublishAssumption DEF Types, Points, Goto
<1>1. ASSUME NEW p \in Publishers, BeginFrame(p)  PROVE Types'
  BY <1>1 DEF BeginFrame
<1>2. ASSUME NEW p \in Publishers, Accept(p)  PROVE Types'
  BY <1>2 DEF Accept
<1>3. ASSUME NEW p \in Publishers, Refuse(p)  PROVE Types'
  BY <1>3 DEF Refuse
<1>4. ASSUME NEW p \in Publishers, GiveUp(p)  PROVE Types'
  BY <1>4 DEF GiveUp
<1>5. ASSUME NEW p \in Publishers, Advance(p)  PROVE Types'
  BY <1>5 DEF Advance
<1>6. ASSUME NEW p \in Publishers, Put(p)  PROVE Types'
  <2>1. buf' \in [Slots -> {Nothing} \cup (Publishers \X Nat)]
    BY <1>6 DEF Put
  <2>2. /\ done' \in [Publishers -> Nat]
        /\ \A q \in Publishers :
             /\ done'[q] <= Length[q]
             /\ pc'[q] \in {"append", "advance", "put"} => done'[q] < Length[q]
             /\ pc'[q] \notin {"append", "advance", "put"} => done'[q] = 0
    BY <1>6 DEF Put
  <2>. QED  BY <1>6, <2>1, <2>2 DEF Put
<1>7. ASSUME NEW p \in Publishers, EndFrame(p)  PROVE Types'
  BY <1>7 DEF EndFrame
<1>8. ASSUME NEW p \in Publishers, Send(p)  PROVE Types'
  BY <1>8 DEF Send
<1>9. CASE UNCHANGED vars
  BY <1>9 DEF vars
<1>. QED
  BY <1>1, <1>2, <1>3, <1>4, <1>5, <1>6, <1>7, <1>8, <1>9 DEF Next, Task

\* How the set of waiting tasks counts.
LEMMA WaitingCount ==
  /\ Tasks \in Nat
  /\ IsFiniteSet(Waiting) /\ Cardinality(Waiting) \in Nat
  /\ Cardinality(Waiting) <= Tasks
<1>1. Waiting \subseteq Publishers /\ IsFiniteSet(Publishers)
  BY PublishAssumption DEF Waiting
<1>. QED  BY <1>1, FS_Subset, FS_CardinalityType DEF Tasks

LEMMA WaitingGrows ==
  ASSUME NEW p \in Publishers, Waiting' = Waiting \cup {p}, p \notin Waiting
  PROVE  Cardinality(Waiting') = Cardinality(Waiting) + 1
BY WaitingCount, FS_AddElement

LEMMA WaitingShrinks ==
  ASSUME NEW p \in Publishers, Waiting' = Waiting \ {p}, p \in Waiting
  PROVE  /\ Cardinality(Waiting') = Cardinality(Waiting) - 1
         /\ Cardinality(Waiting) >= 1
<1>1. /\ Cardinality(Waiting') = Cardinality(Waiting) - 1
      /\ IsFiniteSet(Waiting')
  BY WaitingCount, FS_RemoveElement
<1>2. Cardinality(Waiting') \in Nat
  BY <1>1, FS_CardinalityType
<1>. QED  BY <1>1, <1>2, WaitingCount

LEMMA RoomStep ==
  ASSUME Types, RoomInv, [Next]_vars  PROVE RoomInv'
<1>. USE PublishAssumption, WaitingCount DEF Types, RoomInv
<1>1. ASSUME NEW p \in Publishers, BeginFrame(p)  PROVE RoomInv'
  <2>1. Waiting' = Waiting
    BY <1>1 DEF BeginFrame, Goto, Waiting
  <2>2. Cardinality(Waiting) <= OutSize - 2 + Tasks
    OBVIOUS
  <2>. QED  BY <1>1, <2>1, <2>2 DEF BeginFrame, Goto
<1>2. ASSUME NEW p \in Publishers, Accept(p)  PROVE RoomInv'
  <2>1. Waiting' = Waiting \cup {p} /\ p \notin Waiting
    BY <1>2 DEF Accept, Goto, Waiting
  <2>2. Waiting' \subseteq Publishers
    BY <2>1 DEF Waiting
  <2>3. Cardinality(Waiting') = Cardinality(Waiting) + 1
    BY <2>1, WaitingGrows
  <2>4. Cardinality(Waiting') <= Tasks
    BY <2>2, FS_Subset DEF Tasks
  <2>5. cursor' = cursor /\ cursor <= OutSize - 2
    BY <1>2 DEF Accept, Room
  <2>. QED  BY <1>2, <2>3, <2>4, <2>5 DEF Accept, Goto
<1>3. ASSUME NEW p \in Publishers, Refuse(p) \/ GiveUp(p)  PROVE RoomInv'
  <2>1. Waiting' = Waiting
    BY <1>3 DEF Refuse, GiveUp, Goto, Waiting
  <2>. QED  BY <1>3, <2>1 DEF Refuse, GiveUp, Goto
<1>4. ASSUME NEW p \in Publishers, Advance(p)  PROVE RoomInv'
  <2>1. Waiting' = Waiting \ {p} /\ p \in Waiting
    BY <1>4 DEF Advance, Goto, Waiting
  <2>2. /\ Cardinality(Waiting') = Cardinality(Waiting) - 1
        /\ Cardinality(Waiting) >= 1
    BY <2>1, WaitingShrinks
  <2>3. PICK c \in {reg[p], cursor} :
          reg' = [reg EXCEPT ![p] = c] /\ cursor' = c + 1
    BY <1>4 DEF Advance
  <2>4. c \in Nat /\ c <= OutSize - 3 + Tasks
    <3>1. CASE c = reg[p]
      BY <1>4, <2>2, <3>1 DEF Advance
    <3>2. CASE c = cursor
      BY <2>2, <3>2
    <3>. QED  BY <2>3, <3>1, <3>2
  <2>5. cursor' + Cardinality(Waiting') <= OutSize - 2 + Tasks
    <3>1. CASE c = reg[p]
      BY <1>4, <2>2, <2>3, <3>1 DEF Advance
    <3>2. CASE c = cursor
      BY <2>2, <2>3, <3>2
    <3>. QED  BY <2>3, <3>1, <3>2
  <2>. QED  BY <1>4, <2>3, <2>4, <2>5 DEF Advance, Goto
<1>5. ASSUME NEW p \in Publishers, Put(p)  PROVE RoomInv'
  <2>1. Waiting' = Waiting
    BY <1>5 DEF Put, Goto, Waiting
  <2>. QED  BY <1>5, <2>1 DEF Put, Goto
<1>6. ASSUME NEW p \in Publishers, EndFrame(p)  PROVE RoomInv'
  <2>1. Waiting' = Waiting
    BY <1>6 DEF EndFrame, Goto, Waiting
  <2>. QED  BY <1>6, <2>1 DEF EndFrame, Goto
<1>7. ASSUME NEW p \in Publishers, Send(p)  PROVE RoomInv'
  <2>1. Waiting' = Waiting
    BY <1>7 DEF Send, Goto, Waiting
  <2>2. Tasks \in Nat \ {0}
    BY FS_EmptySet DEF Tasks
  <2>. QED  BY <1>7, <2>1, <2>2 DEF Send, Goto
<1>8. CASE UNCHANGED vars
  <2>1. Waiting' = Waiting
    BY <1>8 DEF vars, Waiting
  <2>. QED  BY <1>8, <2>1 DEF vars
<1>. QED
  BY <1>1, <1>2, <1>3, <1>4, <1>5, <1>6, <1>7, <1>8 DEF Next, Task

LEMMA RoomInit == Init => RoomInv
<1>. SUFFICES ASSUME Init  PROVE RoomInv
  OBVIOUS
<1>1. Waiting = {}
  BY DEF Init, Waiting
<1>2. Cardinality(Waiting) = 0
  BY <1>1, FS_EmptySet
<1>. QED  BY <1>2, WaitingCount, PublishAssumption DEF Init, RoomInv

LEMMA RoomAlways == Spec => [](Types /\ RoomInv)
  BY TypesInit, TypesStep, RoomInit, RoomStep, PTL DEF Spec

\* The variables keep their types, and the cursor stays within Tasks - 2 of
\* the size of the buffer (safe_append's test, framing.c:176).
THEOREM PublishTypeCorrect == Spec => []TypeOK
<1>1. Types /\ RoomInv => TypeOK
  BY WaitingCount, PublishAssumption DEF Types, RoomInv, TypeOK, Tasks
<1>. QED  BY <1>1, RoomAlways, PTL

\* However many tasks publish, the store of safe_append (framing.c:179) lands
\* at most Cardinality(Publishers) - 2 places behind the buffer.
THEOREM OverrunIsBounded == Spec => []OverrunBounded
<1>1. RoomInv => OverrunBounded
  BY DEF RoomInv, OverrunBounded, Tasks
<1>. QED  BY <1>1, RoomAlways, PTL

\* With at most two publishing tasks no store leaves the buffer and no write
\* reads behind it.
THEOREM TwoStayInBounds ==
  ASSUME Cardinality(Publishers) <= 2
  PROVE  Spec => []InBounds
<1>1. Types /\ RoomInv => InBounds
  BY WaitingCount, PublishAssumption
     DEF Types, RoomInv, InBounds, Tasks, Slots
<1>. QED  BY <1>1, RoomAlways, PTL

-----------------------------------------------------------------------------
\* The first n bytes of p's frame are in place.
Prefix(p, n) == \A i \in 0..(n - 1) : i \in Slots /\ buf[i] = <<p, i + 1>>

\* How a publish stands that nobody overlaps.
AloneInv ==
  \A p \in Publishers : alone[p] =>
    /\ pc[p] # "idle" /\ \A q \in Publishers \ {p} : pc[q] = "idle"
    /\ pc[p] = "append" =>
         ~Room \/ (cursor = done[p] /\ Prefix(p, done[p]))
    /\ pc[p] = "advance" =>
         Room /\ reg[p] = cursor /\ cursor = done[p] /\ Prefix(p, done[p])
    /\ pc[p] = "put" =>
         /\ reg[p] = done[p] /\ cursor = done[p] + 1 /\ cursor < OutSize
         /\ Prefix(p, done[p])
    /\ pc[p] = "end" => cursor = Length[p] /\ Prefix(p, Length[p])
    /\ pc[p] = "send" => size[p] = Length[p] /\ Prefix(p, Length[p])

LEMMA AloneStep ==
  ASSUME Types, AloneInv, [Next]_vars  PROVE AloneInv'
<1>. USE PublishAssumption DEF Types, AloneInv
<1>1. ASSUME NEW p \in Publishers, BeginFrame(p)  PROVE AloneInv'
  BY <1>1 DEF BeginFrame, Goto, Prefix
<1>2. ASSUME NEW p \in Publishers, Accept(p)  PROVE AloneInv'
  BY <1>2 DEF Accept, Goto, Prefix, Room
<1>3. ASSUME NEW p \in Publishers, Refuse(p)  PROVE AloneInv'
  BY <1>3 DEF Refuse, Goto, Prefix, Room
<1>4. ASSUME NEW p \in Publishers, GiveUp(p)  PROVE AloneInv'
  BY <1>4 DEF GiveUp, Goto, Prefix
<1>5. ASSUME NEW p \in Publishers, Advance(p)  PROVE AloneInv'
  BY <1>5 DEF Advance, Goto, Prefix, Room
<1>6. ASSUME NEW p \in Publishers, Put(p)  PROVE AloneInv'
  <2>. SUFFICES ASSUME NEW q \in Publishers, alone'[q]
                PROVE  /\ q = p
                       /\ \A o \in Publishers \ {p} : pc[o] = "idle"
                       /\ alone[p] /\ reg[p] \in Slots
                       /\ \A i \in 0..done[p] :
                            i \in Slots /\ buf'[i] = <<p, i + 1>>
    BY <1>6 DEF Put, Goto, Prefix
  <2>1. q = p /\ alone[p] /\ \A o \in Publishers \ {p} : pc[o] = "idle"
    BY <1>6 DEF Put
  <2>2. reg[p] = done[p] /\ reg[p] \in Slots /\ Prefix(p, done[p])
    BY <1>6, <2>1 DEF Put, Slots
  <2>3. buf' = [buf EXCEPT ![done[p]] = <<p, done[p] + 1>>]
    BY <1>6, <2>2 DEF Put
  <2>4. ASSUME NEW i \in 0..done[p]
        PROVE  i \in Slots /\ buf'[i] = <<p, i + 1>>
    <3>1. i \in Slots /\ done[p] \in Nat
      BY <2>2, <2>4 DEF Slots
    <3>2. CASE i = done[p]
      BY <2>2, <2>3, <3>1, <3>2
    <3>3. CASE i # done[p]
      <4>1. i \in 0..(done[p] - 1)
        BY <2>4, <3>1, <3>3
      <4>. QED  BY <2>2, <2>3, <3>1, <3>3, <4>1 DEF Prefix
    <3>. QED  BY <3>2, <3>3
  <2>. QED  BY <2>1, <2>2, <2>4
<1>7. ASSUME NEW p \in Publishers, EndFrame(p)  PROVE AloneInv'
  BY <1>7 DEF EndFrame, Goto, Prefix
<1>8. ASSUME NEW p \in Publishers, Send(p)  PROVE AloneInv'
  BY <1>8 DEF Send, Goto, Prefix
<1>9. CASE UNCHANGED vars
  BY <1>9 DEF vars, Prefix, Room
<1>. QED
  BY <1>1, <1>2, <1>3, <1>4, <1>5, <1>6, <1>7, <1>8, <1>9 DEF Next, Task

\* A publish that no other overlaps writes its frame, whatever state earlier
\* overlaps left the shared cursor and buffer in (begin_frame resets).
THEOREM LonePublishIntact == Spec => []AloneIntact
<1>1. Init => AloneInv
  BY DEF Init, AloneInv
<1>2. Types /\ AloneInv /\ [Next]_vars => AloneInv'
  BY AloneStep
<1>3. Types /\ AloneInv => AloneIntact
  <2>. SUFFICES ASSUME Types, AloneInv, NEW p \in Publishers,
                       pc[p] = "send", alone[p]
                PROVE  Output(p) = Frame(p)
    BY DEF AloneIntact
  <2>1. size[p] = Length[p] /\ Prefix(p, Length[p])
    BY DEF AloneInv
  <2>2. ASSUME NEW i \in 1..Length[p]
        PROVE  i - 1 \in Slots /\ buf[i - 1] = <<p, i>>
    <3>1. i - 1 \in 0..(Length[p] - 1) /\ (i - 1) + 1 = i
      BY PublishAssumption
    <3>. QED  BY <2>1, <3>1 DEF Prefix
  <2>. QED  BY <2>1, <2>2 DEF Output, Frame
<1>. QED  BY <1>1, <1>2, <1>3, TypesInit, TypesStep, PTL DEF Spec
=============================================================================
