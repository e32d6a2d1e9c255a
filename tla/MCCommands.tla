----------------------------- MODULE MCCommands -----------------------------
(* Two control blocks, so that they are used again.                         *)
EXTENDS Commands

CONSTANTS b1, b2
=============================================================================
