------------------------------- MODULE MCReach -------------------------------
(* Instances of Reach for TLC: who serves what, and who may open it. *)
EXTENDS Reach, TLC

CONSTANTS ana, bo, c1, c2

\* ana only asks; bo serves the whole relay.
SoloServes == ana :> <<>> @@ bo :> <<c1, c2>>

\* A relay from ana to bo.  ana also serves c2, which is outside its light-cone.
HandoffServes == ana :> <<c1, c2>> @@ bo :> <<c2>>

\* ana's light-cone holds c1 only.
Opened == ana :> {c1} @@ bo :> {c1, c2}

\* No restarts; one restart of bo, the node that serves.
NoCrash == [n \in Node |-> 0]
BoCrashes == [n \in Node |-> IF n = bo THEN 1 ELSE 0]
=============================================================================
