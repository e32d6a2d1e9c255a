--------------------------- MODULE TelemetryCore ---------------------------
(***************************************************************************)
(* The telemetry core (lib/telemetry/src/telemetry_core.c) on top of the   *)
(* dictionary: tasks attach variables to topics, the update task takes     *)
(* what feed hands it for a frame, checks it, looks the topic up and       *)
(* stores the payload in the variable.                                     *)
(*                                                                         *)
(* Frames are bytes here, without flags and escapes, which Framing deals   *)
(* with.  The line damages a byte, loses one or makes a flag of one; the   *)
(* check sum is the program's.  Messages are published by another program  *)
(* with the same library.                                                  *)
(***************************************************************************)
EXTENDS Dictionary, Crc16, SequencesExt

CONSTANTS
  Receiver,  \* the task that calls update_telemetry
  Plan,      \* Plan[t]: the topics and types task t attaches, in order
  Text,      \* Text[k]: the characters of topic k
  Code,      \* Code[ty]: the TM_type of ty
  Width,     \* Width[ty]: the bytes emplace_<type> copies
  Messages   \* what is published: topic, type and data

ASSUME TelemetryAssumption ==
  /\ Receiver \in Tasks
  /\ Text \in [Keys -> Seq(Bytes \ {0})] /\ \A k \in Keys : Text[k] # <<>>
  /\ \A k, l \in Keys : Text[k] = Text[l] => k = l
  /\ Code \in [Types -> 0..7] /\ \A u, v \in Types : Code[u] = Code[v] => u = v
  /\ Width \in [Types -> 1..4]
  /\ Plan \in [Tasks -> Seq(Keys \X Types)]
  /\ \A m \in Messages : /\ m.topic \in Keys /\ m.type \in Types
                         /\ m.data \in Seq(Bytes) /\ Len(m.data) = Width[m.type]

VARIABLES
  calls,     \* per task: number of attach calls made
  packet,    \* the TM_msg in try_update_hashtable: type and buffer
  value,     \* the attached variables, by topic and type
  published, \* history: the messages published so far
  attached,  \* history: attach calls that succeeded
  known      \* history: attached when the lookup in progress began

telemetry == <<calls, packet, value, published, attached, known>>
vars == <<dvars, telemetry>>

Pairs     == Keys \X Types
Untouched == <<>>
NoPacket  == [type |-> NULL, buffer |-> <<>>]

Init ==
  /\ DInit
  /\ calls = [t \in Tasks |-> 0]
  /\ packet = NoPacket
  /\ value = [p \in Pairs |-> Untouched]
  /\ published = {} /\ attached = {} /\ known = {}

-----------------------------------------------------------------------------
(* Frames.                                                                 *)

\* frame(): header, topic with its NULL character, payload, crc.
Frame(m) ==
  LET content == <<Code[m.type], 0>> \o Text[m.topic] \o <<0>> \o m.data
  IN content \o CrcBytes(content)

\* One byte lost; or what comes before or behind a byte that was taken for a
\* flag, because a bit of it was inverted or its ESC was lost.
Shortened(f) ==
  {RemoveAt(f, i) : i \in DOMAIN f}
    \cup {SubSeq(f, 1, i - 1) : i \in DOMAIN f}
    \cup {SubSeq(f, i + 1, Len(f)) : i \in DOMAIN f}

\* One bit of one byte inverted, or a part of the frame only.
Damaged(f) ==
  {ReplaceAt(f, i, Flip(f[i], j)) : i \in DOMAIN f, j \in 0..7} \cup Shortened(f)

\* Bytes before the first NULL character behind the header.
TopicSize(f) ==
  LET ends == {i \in 3..Len(f) : f[i] = 0}
  IN IF ends = {} THEN Len(f) - 2 ELSE Min(ends) - 3

PayloadSize(f) == Len(f) - 2 - TopicSize(f) - 1 - 2

\* The early returns of on_incoming_frame.
Accepted(f) ==
  /\ Len(f) >= 2 /\ TopicSize(f) # 0 /\ PayloadSize(f) > 0
  /\ CrcBytes(SubSeq(f, 1, Len(f) - 2)) = SubSeq(f, Len(f) - 1, Len(f))

Topic(f)  == SubSeq(f, 3, 2 + TopicSize(f))
Head16(f) == f[1] + 256 * f[2]
\* The buffer of the packet: the payload and what follows it.
Buffer(f) == SubSeq(f, 4 + TopicSize(f), Len(f))

\* What an accepted frame is taken for; topics and types nobody knows find no
\* entry or no case of the switch and change nothing.
Packets(f) ==
  {[topic |-> k, type |-> ty, buffer |-> Buffer(f)] :
     k \in {x \in Keys : Text[x] = Topic(f)},
     ty \in {x \in Types : Code[x] = Head16(f)}}

\* What can reach the receiver of message m.
Arrivals == [m \in Messages |->
  UNION {Packets(f) : f \in {g \in {Frame(m)} \cup Damaged(Frame(m)) :
                               Accepted(g)}}]

-----------------------------------------------------------------------------
(* The tasks.                                                              *)

\* attach_<type>.  helloSender waits a second for teleUpdateTask to be through
\* with its calls (tasks.c:31).
Attach(t) ==
  /\ calls[t] < Len(Plan[t])
  /\ t # Receiver => calls[Receiver] = Len(Plan[Receiver])
                     /\ job[Receiver].op # "install"
  /\ LET p == Plan[t][calls[t] + 1] IN Begin(t, "install", p[1], p[2])
  /\ calls' = [calls EXCEPT ![t] = @ + 1]
  /\ UNCHANGED <<packet, value, published, attached, known>>

\* A step of install or lookup.
Dictionary(t) ==
  /\ InCall(t)
  /\ attached' = IF pc[t] = "set"
                 THEN attached \cup {<<job[t].key, job[t].type>>} ELSE attached
  /\ UNCHANGED <<calls, packet, value, published, known>>

\* update_telemetry, feed, on_incoming_frame up to the lookup.
OnIncomingFrame ==
  /\ calls[Receiver] = Len(Plan[Receiver])
  /\ \E m \in Messages :
       /\ published' = published \cup {m}
       /\ \E a \in Arrivals[m] :
            /\ Begin(Receiver, "lookup", a.topic, a.type)
            /\ packet' = [type |-> a.type, buffer |-> a.buffer]
  /\ known' = attached
  /\ UNCHANGED <<calls, value, attached>>

\* emplace_<type>: as many bytes as the type has, however long the payload is.
Emplace(ty, buffer) == SubSeq(buffer, 1, Width[ty])

\* The rest of try_update_hashtable: the switch and emplace_<type>.
TryUpdate ==
  LET n == np[Receiver] ty == packet.type IN
  /\ pc[Receiver] = "found"
  /\ IF n # NULL /\ ty \in ptr[n]
     THEN value' = [value EXCEPT ![<<key[n], ty>>] = Emplace(ty, packet.buffer)]
     ELSE UNCHANGED value
  /\ packet' = NoPacket /\ known' = {}
  /\ Finish(Receiver)
  /\ UNCHANGED <<memory, calls, published, attached>>

Next ==
  \/ \E t \in Tasks : Attach(t) \/ Dictionary(t)
  \/ OnIncomingFrame
  \/ TryUpdate

Spec == Init /\ [][Next]_vars

-----------------------------------------------------------------------------
\* The types of the table and of the core's variables.
TypeOK ==
  /\ DTypeOK
  /\ \A t \in Tasks : calls[t] \in 0..Len(Plan[t])
  /\ packet.type \in Types \cup {NULL}
  /\ value \in [Pairs -> Seq(Bytes)]
  /\ published \subseteq Messages
  /\ attached \subseteq Pairs /\ known \subseteq attached

(* An attached variable holds what somebody published for its topic and    *)
(* its type, whatever the line did to the frames and whichever calls of    *)
(* attach were in progress.                                                *)
OnlyPublished ==
  \A p \in Pairs : value[p] # Untouched =>
    \E m \in published : <<m.topic, m.type>> = p /\ m.data = value[p]

(* A message is not dropped because another task is installing an entry:   *)
(* if attach had returned when its lookup began, the entry is found.       *)
AttachedIsFound ==
  pc[Receiver] = "found" /\ <<job[Receiver].key, packet.type>> \in known =>
    np[Receiver] # NULL /\ packet.type \in ptr[np[Receiver]]

-----------------------------------------------------------------------------
(* What the proofs assume besides.                                         *)

\* Two tasks attach, teleUpdateTask and helloSender (tasks.c:55, :32).
TwoTasks == \A t, u \in Tasks \ {Receiver} : t = u

\* No part of a frame is taken for a message: the check sum finds the loss, or
\* the topic or the type is nobody's.  For an inverted bit this is proved, for
\* a loss it depends on the messages.
LossesDetected ==
  \A m \in Messages : \A g \in Shortened(Frame(m)) : Accepted(g) => Packets(g) = {}
=============================================================================
