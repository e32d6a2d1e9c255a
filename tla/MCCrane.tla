------------------------------ MODULE MCCrane ------------------------------
(* Values for the constants of Crane: the angles of the source, the orders  *)
(* of the winch scaled down as in MCWinch.                                  *)
EXTENDS Crane, TLC

CONSTANTS m1, m2

OneUnload == [m \in {m1} |-> "unload_task"]
Fresh == [m \in {m1} |-> {}]

CraneAndUnload == (m1 :> "crane_task") @@ (m2 :> "unload_task")
OneThenTheOther == (m1 :> {}) @@ (m2 :> {m1})
=============================================================================
