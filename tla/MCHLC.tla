-------------------------------- MODULE MCHLC --------------------------------
(* An instance of HLC for TLC. *)
EXTENDS HLC, TLC

CONSTANTS ana, bo, t1, t2

\* A thread on each of two nodes.
TwoNodes == t1 :> ana @@ t2 :> bo
=============================================================================
