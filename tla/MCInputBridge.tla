---------------------------- MODULE MCInputBridge ----------------------------
(* Two pads, the controls a mode change can catch split between them. *)
EXTENDS InputBridge, TLC

CONSTANTS P1, P2

MCPads == {P1, P2}
MCUses == (P1 :> {"select", "accept", "dpad_left", "R2"})
       @@ (P2 :> {"dpad_right", "L1", "stick"})
=============================================================================
