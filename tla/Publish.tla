------------------------------- MODULE Publish -------------------------------
(***************************************************************************)
(* Publishing from several tasks: publish_u8 and publish_f32 of            *)
(* lib/telemetry/src/telemetry_core.c are called by pingTask,              *)
(* teleUpdateTask, crane_task and stop_task, and all of them build their   *)
(* frame in the one outgoingStorage of framing.c, without a lock.          *)
(*                                                                         *)
(* Framing models one publisher exactly; here a frame is the string of its *)
(* encoded bytes, each passed to safe_append, and what matters is how the  *)
(* loads and stores of the cursor and the stores into the buffer           *)
(* interleave.  Where the compiler may keep the tested cursor or load it   *)
(* again, both happen.  uart_write_bytes takes the buffer in one step.     *)
(***************************************************************************)
EXTENDS Integers, FiniteSets, Sequences

CONSTANTS
  Publishers,   \* the tasks that publish
  Length,       \* Length[p]: encoded bytes of p's frame, SOF and EOF included
  OutSize,      \* OUTGOING_BUFFER_SIZE
  Budget        \* bound: number of frames each task publishes

ASSUME PublishAssumption ==
  /\ IsFiniteSet(Publishers)
  /\ Length \in [Publishers -> Nat \ {0, 1}]
  /\ OutSize \in Nat /\ OutSize >= 2
  /\ Budget \in Nat

VARIABLES
  cursor,   \* outgoingStorage.cursor
  buf,      \* outgoingBuffer; a byte is <<publisher, position in its frame>>
  pc,       \* per task: control point
  done,     \* per task: bytes of its frame it has been through
  reg,      \* per task: register copy of the cursor
  size,     \* per task: what end_frame returned
  left,     \* per task: frames still to publish
  alone     \* history, per task: no other task published meanwhile

vars == <<cursor, buf, pc, done, reg, size, left, alone>>

Slots == 0..(OutSize - 1)
Nothing == <<>>

\* The encoded frame of p.
Frame(p) == [i \in 1..Length[p] |-> <<p, i>>]

Init ==
  /\ cursor = 0
  /\ buf = [i \in Slots |-> Nothing]
  /\ pc = [p \in Publishers |-> "idle"]
  /\ done = [p \in Publishers |-> 0]
  /\ reg = [p \in Publishers |-> 0]
  /\ size = [p \in Publishers |-> 0]
  /\ left = [p \in Publishers |-> Budget]
  /\ alone = [p \in Publishers |-> FALSE]

Goto(p, l) == pc' = [pc EXCEPT ![p] = l]

\* A frame that starts where the last one ended.
BeginFrameMutant(p) ==
  /\ pc[p] = "idle" /\ left[p] > 0
  /\ left' = [left EXCEPT ![p] = @ - 1]
  /\ alone' = [q \in Publishers |->
                 q = p /\ \A o \in Publishers : pc[o] = "idle"]
  /\ Goto(p, "append")
  /\ UNCHANGED <<cursor, buf, done, reg, size>>

\* begin_frame: outgoingStorage.cursor = 0, whoever is at work there.
BeginFrame(p) ==
  /\ pc[p] = "idle" /\ left[p] > 0
  /\ left' = [left EXCEPT ![p] = @ - 1]
  /\ cursor' = 0
  /\ alone' = [q \in Publishers |->
                 q = p /\ \A o \in Publishers : pc[o] = "idle"]
  /\ Goto(p, "append")
  /\ UNCHANGED <<buf, done, reg, size>>

\* A test that forgets the slot that stays free.
RoomMutant == cursor < OutSize

\* cursor + 1 < size
Room == cursor + 1 < OutSize

\* safe_append: there is room; the byte is not stored yet.
Accept(p) ==
  /\ pc[p] = "append" /\ Room
  /\ reg' = [reg EXCEPT ![p] = cursor]
  /\ Goto(p, "advance")
  /\ UNCHANGED <<cursor, buf, done, size, left, alone>>

\* safe_append: no room; the byte is dropped.
Refuse(p) ==
  /\ pc[p] = "append" /\ ~Room /\ done[p] + 1 < Length[p]
  /\ done' = [done EXCEPT ![p] = @ + 1]
  /\ UNCHANGED <<cursor, buf, pc, reg, size, left, alone>>

\* end_frame finds no room for EOF and returns 0: send does nothing.
GiveUp(p) ==
  /\ pc[p] = "append" /\ ~Room /\ done[p] + 1 = Length[p]
  /\ done' = [done EXCEPT ![p] = 0]
  /\ alone' = [alone EXCEPT ![p] = FALSE]
  /\ Goto(p, "idle")
  /\ UNCHANGED <<cursor, buf, reg, size, left>>

\* s->cursor++
Advance(p) ==
  /\ pc[p] = "advance"
  /\ \E c \in {reg[p], cursor} :
       /\ reg' = [reg EXCEPT ![p] = c]
       /\ cursor' = c + 1
  /\ Goto(p, "put")
  /\ UNCHANGED <<buf, done, size, left, alone>>

\* s->ptr[c] = byte.  A store outside the buffer is not followed further.
Put(p) ==
  /\ pc[p] = "put"
  /\ buf' = IF reg[p] \in Slots
            THEN [buf EXCEPT ![reg[p]] = <<p, done[p] + 1>>] ELSE buf
  /\ reg' = [reg EXCEPT ![p] = 0]
  /\ \/ /\ done[p] + 1 < Length[p]
        /\ done' = [done EXCEPT ![p] = @ + 1] /\ Goto(p, "append")
     \/ /\ done[p] + 1 = Length[p]
        /\ done' = [done EXCEPT ![p] = 0] /\ Goto(p, "end")
  /\ UNCHANGED <<cursor, size, left, alone>>

\* end_frame returns outgoingStorage.cursor, loaded once more.
EndFrame(p) ==
  /\ pc[p] = "end"
  /\ size' = [size EXCEPT ![p] = cursor]
  /\ Goto(p, "send")
  /\ UNCHANGED <<cursor, buf, done, reg, left, alone>>

\* The bytes send hands to uart_write_bytes: what is in the buffer now.
Output(p) == [i \in 1..size[p] |->
                IF i - 1 \in Slots THEN buf[i - 1] ELSE Nothing]

\* send: with a size other than 0 it waits for the UART (uart_mywriteable, up
\* to 100 ticks), then writes Output(p).
Send(p) ==
  /\ pc[p] = "send"
  /\ size' = [size EXCEPT ![p] = 0]
  /\ alone' = [alone EXCEPT ![p] = FALSE]
  /\ Goto(p, "idle")
  /\ UNCHANGED <<cursor, buf, done, reg, left>>

Task(p) ==
  \/ BeginFrame(p) \/ Accept(p) \/ Refuse(p) \/ GiveUp(p) \/ Advance(p)
  \/ Put(p) \/ EndFrame(p) \/ Send(p)

Next == \E p \in Publishers : Task(p)

Spec == Init /\ [][Next]_vars

-----------------------------------------------------------------------------
Points == {"idle", "append", "advance", "put", "end", "send"}

\* The types; the cursor itself never gets far behind the end.
TypeOK ==
  /\ cursor \in 0..(OutSize - 2 + Cardinality(Publishers))
  /\ pc \in [Publishers -> Points]
  /\ \A p \in Publishers : done[p] \in 0..Length[p]
  /\ reg \in [Publishers -> Nat] /\ size \in [Publishers -> Nat]
  /\ left \in [Publishers -> 0..Budget]
  /\ alone \in [Publishers -> BOOLEAN]

(* "Not enough space for 1 more character" (framing.c:175) is tested       *)
(* before the cursor is advanced, so tasks can pass the test together: the *)
(* last byte can land Cardinality(Publishers) - 2 places behind the end,   *)
(* but no further.  With two publishers every store is in the buffer.      *)
OverrunBounded ==
  \A p \in Publishers :
    pc[p] = "put" => reg[p] <= OutSize - 3 + Cardinality(Publishers)

(* No store leaves the buffer, and no write reads behind it, as long as    *)
(* no more than two tasks publish.                                         *)
InBounds ==
  \A p \in Publishers :
    /\ pc[p] = "put" => reg[p] \in Slots
    /\ pc[p] = "send" => size[p] <= OutSize

(* A publish that no other overlaps puts exactly its frame on the line,    *)
(* in whatever state earlier overlaps left cursor and buffer; one that is  *)
(* too long puts nothing.                                                  *)
AloneIntact ==
  \A p \in Publishers :
    pc[p] = "send" /\ alone[p] /\ size[p] > 0 => Output(p) = Frame(p)

(* "complete frame", "send data" (telemetry_core.c:211, 214): what a       *)
(* publish writes is the frame it was asked for.                           *)
OwnFrame ==
  \A p \in Publishers : pc[p] = "send" /\ size[p] > 0 => Output(p) = Frame(p)
=============================================================================
