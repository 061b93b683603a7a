----------------------------- MODULE MCPumpLoop -----------------------------
(* Instances of PumpLoop for TLC. *)
EXTENDS PumpLoop, TLC

CONSTANTS c1, c2
=============================================================================
