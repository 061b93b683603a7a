------------------------------- MODULE MCPlane -------------------------------
(* An instance of Plane for TLC. *)
EXTENDS Plane, TLC

CONSTANTS ana, d1, d2, l1

\* One node alone with two folders: a file it finds torn is its own, of a put
\* a crash cut short.
Alone == ana :> <<d1, d2>>
=============================================================================
