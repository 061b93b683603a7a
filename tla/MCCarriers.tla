------------------------------ MODULE MCCarriers ------------------------------
(***************************************************************************)
(* The two kinds of carrier, folders and a lattice store, each on a small   *)
(* instance, one per behaviour.                                             *)
(***************************************************************************)
EXTENDS Plane, StoreCarrier, TLC

CONSTANTS ana, bo, cy, d1, d2, d3

VARIABLE part

CarriersInit ==
  /\ part \in {"plane", "store"} /\ Init /\ StoreInit
  /\ part = "plane" => numbered

CarriersNext ==
  \/ part = "plane" /\ Next /\ UNCHANGED <<part, carrierVars>>
  \/ part = "store" /\ StoreNext /\ UNCHANGED <<part, vars>>

carriersVars == <<part, vars, carrierVars>>

\* What a node began it finishes, and it reconciles time and again.
PlaneFairness ==
  \A n \in Node : /\ WF_vars(part = "plane" /\ Working(n))
                 /\ SF_vars(part = "plane" /\ BeginReconcile(n))

\* A poll that was called is run to its end, and polls are called again and
\* again (PumpLoop polls once per consumer per tick).
StoreFairness ==
  \A t \in Poller : /\ WF_carrierVars(part = "store" /\ Ask(t))
                   /\ WF_carrierVars(part = "store" /\ PollStep(t))

CarriersSpec ==
  CarriersInit /\ [][CarriersNext]_carriersVars /\ PlaneFairness /\ StoreFairness

\* Three nodes: ana reconciles three folders, bo and cy two of them, so that two
\* may write the same leaf to d2 while the third reads it there.
Hub == ana :> <<d1, d2, d3>> @@ bo :> <<d1, d2>> @@ cy :> <<d2, d3>>
=============================================================================
