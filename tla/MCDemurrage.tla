----------------------------- MODULE MCDemurrage -----------------------------
(* An instance of Demurrage for TLC. *)
EXTENDS Demurrage

HeatSpec == DemurrageInit /\ [][DemurrageNext]_demurrageVars

\* Halvings: two in a frame at the faster clock, one at the slower.
Halvings == [tau \in {1, 2} |-> [dt \in 0..3 |-> 2^(dt * (2 \div tau))]]
=============================================================================
