--------------------------- MODULE MCStoreCarrier ---------------------------
(* Instances of StoreCarrier for TLC. *)
EXTENDS StoreCarrier, TLC

CONSTANTS r1, r2, r3, w1, w2, p1, p2
=============================================================================
