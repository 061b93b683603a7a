------------------------------- MODULE PathLedger -------------------------------
(***************************************************************************)
(* The certificate of a signal's journey: each element absorbs some of the  *)
(* energy that reaches it and transmits the rest, and the journey balances  *)
(* when all of it was absorbed or emitted.  (conservation.py)              *)
(*                                                                          *)
(* A frame is its energy, a number of quanta that a float represents, so    *)
(* that the derived tolerance is zero.                                      *)
(***************************************************************************)
EXTENDS Integers, Sequences

CONSTANTS Quanta,       \* what a frame may carry
          NotEmitted,   \* _emitted is None
          MaxHops       \* bound: absorptions

ASSUME PathAssumption == Quanta \subseteq Nat /\ NotEmitted \notin Quanta /\ MaxHops \in Nat

VARIABLES e0, hops, residual, emitted

pathVars == <<e0, hops, residual, emitted>>

PathInit == e0 \in Quanta /\ hops = <<>> /\ residual = e0 /\ emitted = NotEmitted

\* absorb: the ledger measures the frames themselves, which need not add up to
\* what reached the element.
Absorb(absorbed, transmitted) ==
  /\ Len(hops) < MaxHops
  /\ hops' = Append(hops, [absorbed |-> absorbed, transmitted |-> transmitted,
                           incident |-> residual])
  /\ residual' = transmitted
  /\ UNCHANGED <<e0, emitted>>

\* emit, at any point of the journey: whatever travels then is handed back.
Emit == emitted # residual /\ emitted' = residual /\ UNCHANGED <<e0, hops, residual>>

PathNext == (\E a, t \in Quanta : Absorb(a, t)) \/ Emit

(***************************************************************************)
(* The certificate.                                                         *)
(***************************************************************************)
\* What the first k elements absorbed, summed as the walk goes.
Absorbed[k \in 0..Len(hops)] == IF k = 0 THEN 0 ELSE Absorbed[k - 1] + hops[k].absorbed

\* Mutant: only the end of the path is checked.
MutEndpointsOnly == Absorbed[Len(hops)] + residual = e0

\* The prefix identity, at every hop.
PrefixIdentity == \A k \in 1..Len(hops) : Absorbed[k] + hops[k].transmitted = e0
Terminated == emitted # NotEmitted \/ residual = 0
Lost == e0 - (Absorbed[Len(hops)] + IF emitted # NotEmitted THEN emitted ELSE residual)
Balanced == PrefixIdentity /\ Terminated /\ Lost = 0

(***************************************************************************)
(* Property.                                                                *)
(***************************************************************************)
\* What a person walking the path would call balanced: no element lost or made
\* energy, and what the elements did not keep was handed back, once the last
\* element that kept any was passed.
NothingLeaks ==
  /\ \A k \in DOMAIN hops : hops[k].incident = hops[k].absorbed + hops[k].transmitted
  /\ \/ emitted = NotEmitted /\ residual = 0
     \/ emitted = residual

\* A balanced certificate is a journey that leaked nowhere, and every such
\* journey is certified: losses that later gains cancel, a residual dropped at
\* the end of the line and an emission followed by more absorption are all
\* refused, silence is not (conservation.py 102-235).
BalancedIsLossless == Balanced <=> NothingLeaks
=============================================================================
