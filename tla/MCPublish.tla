----------------------------- MODULE MCPublish -----------------------------
(* Values for the constants of Publish.  Each frame fits the buffer, two   *)
(* that are built together may not.                                         *)
EXTENDS Publish, TLC

CONSTANTS pPing, pTele, pCrane

TwoLengths == (pPing :> 3) @@ (pTele :> 5)
ThreeLengths == (pPing :> 2) @@ (pTele :> 3) @@ (pCrane :> 2)
=============================================================================
