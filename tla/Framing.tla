------------------------------ MODULE Framing ------------------------------
(***************************************************************************)
(* The framing layer of the telemetry link (lib/telemetry/src/framing.c):  *)
(* one task that builds frames in outgoingStorage (begin_frame, append,    *)
(* end_frame) and hands them to the UART, the line, which may lose bytes,  *)
(* and the receiver that is fed one byte at a time.                        *)
(*                                                                         *)
(* A buffer is the sequence of the bytes below its cursor.  A byte is SOF, *)
(* EOF, ESC or a member of Data; nothing depends on more.  A receiver that *)
(* is started while a frame is coming in is one that lost its beginning.   *)
(***************************************************************************)
EXTENDS Naturals, Sequences

CONSTANTS
  Data,        \* the bytes that are no flags
  OutSize,     \* OUTGOING_BUFFER_SIZE of the sending side
  InSize,      \* INCOMING_BUFFER_SIZE
  Message,     \* the frame contents tried
  MaxFrames,   \* bound: number of frames tried
  LossBudget   \* bound: number of bytes lost

Flags == {"SOF", "EOF", "ESC"}
Byte  == Flags \cup Data

ASSUME FramingAssumption ==
  /\ Data \cap Flags = {}
  /\ OutSize \in Nat /\ InSize \in Nat /\ OutSize >= 2 /\ InSize >= 1
  /\ Message \subseteq Seq(Byte)
  /\ MaxFrames \in Nat /\ LossBudget \in Nat

VARIABLES
  building,    \* the sender is between begin_frame and end_frame
  msg, todo,   \* what it sends, what of it is still to be appended
  out,         \* outgoingStorage
  tries,       \* frames begun so far
  line,        \* bytes on the line: [b |-> byte, n |-> number of the frame]
  rstate,      \* incoming_state
  rbuf,        \* incomingStorage
  lossLeft,    \* bytes that may still be lost
  sent,        \* history: contents of the frames sent
  refused,     \* history: safe_append refused a byte of this frame
  hurt,        \* history: numbers of the frames that lost a byte
  delivered    \* history: what on_incoming_frame got, with the frame's number

sender   == <<building, msg, todo, out, tries, refused>>
receiver == <<rstate, rbuf, delivered>>
vars == <<sender, sent, line, receiver, lossLeft, hurt>>

Init ==
  /\ building = FALSE /\ msg = <<>> /\ todo = <<>> /\ out = <<>> /\ tries = 0
  /\ line = <<>>
  /\ rstate = "IDLE" /\ rbuf = <<>>
  /\ lossLeft = LossBudget
  /\ sent = <<>> /\ refused = FALSE /\ hurt = {} /\ delivered = <<>>

\* A comparison that lets the cursor reach the size.
RoomMutant(buf, size) == Len(buf) < size

\* safe_append has room: one slot always stays unused.
Room(buf, size) == Len(buf) + 1 < size

-----------------------------------------------------------------------------
(* The sender.                                                             *)

BeginFrame ==
  /\ ~building /\ tries < MaxFrames
  /\ \E m \in Message : msg' = m /\ todo' = m
  /\ out' = IF Room(<<>>, OutSize) THEN <<"SOF">> ELSE <<>>
  /\ building' = TRUE /\ tries' = tries + 1 /\ refused' = FALSE
  /\ UNCHANGED <<sent, line, receiver, lossLeft, hurt>>

\* append() without the escape.
AppendByteMutant ==
  /\ building /\ todo # <<>>
  /\ todo' = Tail(todo)
  /\ out' = IF Room(out, OutSize) THEN Append(out, Head(todo)) ELSE out
  /\ refused' = (refused \/ ~Room(out, OutSize))
  /\ UNCHANGED <<building, msg, tries, sent, line, receiver, lossLeft, hurt>>

\* append(byte): a flag is escaped; a full buffer swallows the byte, or the
\* byte behind its ESC, without a word.
AppendByte ==
  /\ building /\ todo # <<>>
  /\ todo' = Tail(todo)
  /\ \/ /\ ~Room(out, OutSize)
        /\ UNCHANGED out /\ refused' = TRUE
     \/ /\ Room(out, OutSize) /\ Head(todo) \notin Flags
        /\ out' = Append(out, Head(todo)) /\ UNCHANGED refused
     \/ /\ Room(out, OutSize) /\ Head(todo) \in Flags
        /\ IF Room(Append(out, "ESC"), OutSize)
           THEN /\ out' = Append(Append(out, "ESC"), Head(todo))
                /\ UNCHANGED refused
           ELSE out' = Append(out, "ESC") /\ refused' = TRUE
  /\ UNCHANGED <<building, msg, tries, sent, line, receiver, lossLeft, hurt>>

Tagged(bytes, k) == [i \in 1..Len(bytes) |-> [b |-> bytes[i], n |-> k]]

\* A frame that ends where the buffer ends, with the EOF in place of a byte.
EndFrameMutant ==
  /\ building /\ todo = <<>>
  /\ building' = FALSE
  /\ sent' = Append(sent, msg)
  /\ line' = line \o Tagged(Append(out, "EOF"), Len(sent) + 1)
  /\ UNCHANGED <<msg, todo, out, tries, refused, receiver, lossLeft, hurt>>

\* end_frame and send: without room for EOF the length is 0 and nothing goes.
EndFrame ==
  /\ building /\ todo = <<>>
  /\ building' = FALSE
  /\ \/ /\ Room(out, OutSize)
        /\ out' = Append(out, "EOF")
        /\ sent' = Append(sent, msg)
        /\ line' = line \o Tagged(out', Len(sent) + 1)
     \/ ~Room(out, OutSize) /\ UNCHANGED <<out, sent, line>>
  /\ UNCHANGED <<msg, todo, tries, refused, receiver, lossLeft, hurt>>

-----------------------------------------------------------------------------
(* The receiver: feed(byte).                                               *)

Incoming == Head(line).b

Take ==
  /\ line # <<>>
  /\ line' = Tail(line)
  /\ UNCHANGED <<sender, sent, lossLeft, hurt>>

\* safe_append into incomingStorage; when it is full the frame is given up.
Keep ==
  \/ /\ Room(rbuf, InSize)
     /\ rbuf' = Append(rbuf, Incoming) /\ rstate' = "ACTIVE"
  \/ ~Room(rbuf, InSize) /\ rstate' = "IDLE" /\ UNCHANGED rbuf

FeedEscaped ==
  Take /\ rstate = "ESCAPING" /\ Keep /\ UNCHANGED delivered

\* A start flag inside a frame taken for a byte of it.
FeedStartMutant ==
  /\ Take /\ rstate # "ESCAPING" /\ Incoming = "SOF"
  /\ \/ rstate = "IDLE" /\ rstate' = "ACTIVE" /\ rbuf' = <<>>
     \/ rstate = "ACTIVE" /\ Keep
  /\ UNCHANGED delivered

\* A start flag that leaves the cursor where the last frame ended.
FeedStartCursorMutant ==
  /\ Take /\ rstate # "ESCAPING" /\ Incoming = "SOF"
  /\ rstate' = "ACTIVE" /\ UNCHANGED <<rbuf, delivered>>

\* An unescaped start flag starts over, also inside a frame.
FeedStart ==
  /\ Take /\ rstate # "ESCAPING" /\ Incoming = "SOF"
  /\ rstate' = "ACTIVE" /\ rbuf' = <<>>
  /\ UNCHANGED delivered

\* on_incoming_frame_cb gets the bytes below the cursor.
FeedEnd ==
  /\ Take /\ rstate = "ACTIVE" /\ Incoming = "EOF"
  /\ rstate' = "IDLE" /\ UNCHANGED rbuf
  /\ delivered' = Append(delivered, [n |-> Head(line).n, body |-> rbuf])

FeedEscape ==
  /\ Take /\ rstate = "ACTIVE" /\ Incoming = "ESC"
  /\ rstate' = "ESCAPING" /\ UNCHANGED <<rbuf, delivered>>

FeedByte ==
  Take /\ rstate = "ACTIVE" /\ Incoming \notin Flags /\ Keep
       /\ UNCHANGED delivered

FeedIgnored ==
  Take /\ rstate = "IDLE" /\ Incoming # "SOF" /\ UNCHANGED receiver

Feed ==
  \/ FeedEscaped \/ FeedStart \/ FeedEnd \/ FeedEscape \/ FeedByte
  \/ FeedIgnored

\* A byte the UART never hands over.
Lose ==
  /\ line # <<>> /\ lossLeft > 0
  /\ lossLeft' = lossLeft - 1
  /\ hurt' = hurt \cup {Head(line).n}
  /\ line' = Tail(line)
  /\ UNCHANGED <<sender, sent, receiver>>

Sender == BeginFrame \/ AppendByte \/ EndFrame

Next == Sender \/ Feed \/ Lose

\* teleUpdateTask polls the UART once per tick and feeds all that is there.
Spec == Init /\ [][Next]_vars /\ WF_vars(Feed)

-----------------------------------------------------------------------------
TaggedByte == [b : Byte, n : Nat]

\* The values; in particular neither cursor ever reaches the buffer's size.
TypeOK ==
  /\ building \in BOOLEAN /\ refused \in BOOLEAN
  /\ msg \in Seq(Byte) /\ todo \in Seq(Byte)
  /\ out \in Seq(Byte) /\ Len(out) < OutSize
  /\ tries \in 0..MaxFrames
  /\ line \in Seq(TaggedByte)
  /\ rstate \in {"IDLE", "ESCAPING", "ACTIVE"}
  /\ rbuf \in Seq(Byte) /\ Len(rbuf) < InSize
  /\ lossLeft \in 0..LossBudget

\* Frames all of whose bytes have left the line.
Arrived == 1..(IF line = <<>> THEN Len(sent) ELSE Head(line).n - 1)

Fits(k) == Len(sent[k]) < InSize

\* Frame k is handed over once and as it was sent.
HandedOver(k) ==
  \E i \in 1..Len(delivered) :
    /\ delivered[i] = [n |-> k, body |-> sent[k]]
    /\ \A j \in 1..Len(delivered) : delivered[j].n = k => j = i

(* However many bytes are lost, and however often frames are too long for  *)
(* the receiver: one undamaged frame brings it back into step, the next    *)
(* undamaged one that fits is handed over, once and unchanged.  (The first *)
(* may be spoilt: when the last byte before it was lost behind an ESC, its *)
(* SOF is taken for data.)                                                 *)
IntactAfterIntact ==
  \A k \in Arrived :
    k \notin hurt /\ k - 1 \notin hurt /\ Fits(k) => HandedOver(k)

(* A single lost byte costs the frame it belongs to and no other.          *)
OneLossOneFrame ==
  lossLeft >= LossBudget - 1 =>
    \A k \in Arrived : k \notin hurt /\ Fits(k) => HandedOver(k)

(* append() drops bytes silently when the buffer is full, but a frame that *)
(* lacks a byte is never put on the line: end_frame finds no room either.  *)
TruncatedNeverSent == [][sent' # sent => ~refused]_vars

(* On a line without losses the layer is a queue of frames.                *)
Link == INSTANCE FrameLink WITH
  queue <- SubSeq(sent, Len(delivered) + 1, Len(sent)),
  got   <- [i \in 1..Len(delivered) |-> delivered[i].body]

LinkSpec == Link!LSpec
=============================================================================
