----------------------------- MODULE MCFraming -----------------------------
(* Values for the constants of Framing: one ordinary byte, messages that    *)
(* hold every flag, and one that is too long for the buffer.                *)
EXTENDS Framing

CONSTANT a

MixedMessages == {<<a>>, <<"SOF", a>>, <<"ESC", "EOF">>, <<a, "SOF", a>>}
LosslessMessages == MixedMessages \cup {<<a, "SOF", "ESC">>}
=============================================================================
