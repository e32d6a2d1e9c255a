------------------------------ MODULE MCWinch ------------------------------
(* Values for the constants of Winch: orders scaled down, their proportions *)
(* kept (0 < StepsMax - StepsPart2 < StepsPart < StepsPart2 < StepsMax).     *)
EXTENDS Winch, TLC

CONSTANTS m1, m2

CraneAndUnload == (m1 :> "crane_task") @@ (m2 :> "unload_task")
=============================================================================
