----------------------------- MODULE FrameLink -----------------------------
(***************************************************************************)
(* What the framing layer promises on a line that loses nothing: every     *)
(* frame that was sent is handed over once, whole and in order.            *)
(***************************************************************************)
EXTENDS Naturals, Sequences

CONSTANT Message
VARIABLES queue,  \* frames under way
          got     \* frames handed over

LInit == queue = <<>> /\ got = <<>>

Send == \E m \in Message : queue' = Append(queue, m) /\ UNCHANGED got

Deliver ==
  /\ queue # <<>>
  /\ got' = Append(got, Head(queue))
  /\ queue' = Tail(queue)

LNext == Send \/ Deliver

\* What may happen, and what happens in the end.
LSafe == LInit /\ [][LNext]_<<queue, got>>
LSpec == LSafe /\ WF_<<queue, got>>(Deliver)
=============================================================================
