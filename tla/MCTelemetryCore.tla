-------------------------- MODULE MCTelemetryCore --------------------------
(* Values for the constants of TelemetryCore: topics of one or two letters, *)
(* all in one chain, one of them attached with two types, one never.        *)
EXTENDS TelemetryCore, TLC

CONSTANTS teleUpdateTask, helloSender, stop, motorrpm, hello, u8, i32

MCText  == (stop :> <<115>>) @@ (motorrpm :> <<109, 114>>) @@ (hello :> <<104>>)
MCPlan  == (teleUpdateTask :> <<<<stop, u8>>, <<motorrpm, i32>>, <<stop, i32>>>>)
             @@ (helloSender :> <<<<hello, u8>>>>)
OneChain == [k \in {stop, motorrpm, hello} |-> 0]
MCCode  == (u8 :> 1) @@ (i32 :> 6)
MCWidth == (u8 :> 1) @@ (i32 :> 4)
Msg(k, ty, d) == [topic |-> k, type |-> ty, data |-> d]
MCMessages == {Msg(stop, u8, <<1>>), Msg(stop, u8, <<2>>),
               Msg(motorrpm, i32, <<44, 1, 0, 0>>), Msg(hello, u8, <<0>>),
               Msg(stop, i32, <<0, 1, 0, 0>>), Msg(motorrpm, u8, <<7>>)}

\* What the proofs assume of the constants holds for these.
ASSUME ProofAssumption == TwoTasks /\ LossesDetected
=============================================================================
