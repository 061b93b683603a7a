-------------------------------- MODULE Minting --------------------------------
(***************************************************************************)
(* Minting: the lift that the beneficiaries of an act attest, weighed by    *)
(* their mass, beyond what the act cost, becomes energy.  (minting.py)      *)
(*                                                                          *)
(* The attestations of one act arrive one by one, in any order, and every   *)
(* node computes the mint from those it holds.  Lift, mass and cost are     *)
(* small integers; the rounding of the sums is left out.                    *)
(***************************************************************************)
EXTENDS Integers, Sequences

CONSTANTS Beneficiary, Actor,   \* origins; Actor is one of them
          NoName,               \* an attestation without a beneficiary
          Lift, BeliefMass,         \* what an attestation may claim and weigh
          Cost,                 \* what the act may have cost its actor
          MaxAttestations       \* bound: attestations

ASSUME MintingAssumption ==
  /\ Actor \in Beneficiary /\ NoName \notin Beneficiary
  /\ Lift \cup BeliefMass \cup Cost \subseteq Int /\ MaxAttestations \in Nat

VARIABLES held, cost    \* the attestations a node holds, the actor's cost

mintVars == <<held, cost>>

MintInit == held = <<>> /\ cost \in Cost

Attest(b, lift, mass) ==
  /\ Len(held) < MaxAttestations
  /\ held' = Append(held, [beneficiary |-> b, lift |-> lift, mass |-> mass])
  /\ UNCHANGED cost

MintNext == \E b \in Beneficiary \cup {NoName}, lift \in Lift, mass \in BeliefMass : Attest(b, lift, mass)

(***************************************************************************)
(* The law.                                                                 *)
(***************************************************************************)
\* Mutant: a claim without weight uses its author's voice up.
MutHeardTooSoon(acc, a) ==
  IF a.beneficiary \in {NoName, Actor} \cup acc.seen THEN acc
  ELSE [seen |-> acc.seen \cup {a.beneficiary},
        usable |-> IF a.lift > 0 /\ a.mass > 0 THEN Append(acc.usable, a) ELSE acc.usable]

\* _valid: one pass, in the order held; `seen` are the voices already counted.
Heard(acc, a) ==
  IF \/ a.beneficiary \in {NoName, Actor} \cup acc.seen
     \/ a.lift <= 0 \/ a.mass <= 0
    THEN acc
    ELSE [seen |-> acc.seen \cup {a.beneficiary}, usable |-> Append(acc.usable, a)]
Pass[k \in 0..Len(held)] ==
  IF k = 0 THEN [seen |-> {}, usable |-> <<>>] ELSE Heard(Pass[k - 1], held[k])
Usable == Pass[Len(held)].usable

Weight(a) == a.lift * a.mass
WeightedLift(list) ==
  LET sum[k \in 0..Len(list)] == IF k = 0 THEN 0 ELSE sum[k - 1] + Weight(list[k])
  IN  sum[Len(list)]

\* residual: the surplus over the cost, and never a debt.
Surplus(x) == IF x < 0 THEN 0 ELSE x
Minted == Surplus(WeightedLift(Usable) - Surplus(cost))

(***************************************************************************)
(* Property.                                                                *)
(***************************************************************************)
\* Something that another than the actor said in earnest of the act, and the
\* first that the same beneficiary did.
Earnest(i) == held[i].beneficiary \in Beneficiary \ {Actor} /\ held[i].lift > 0 /\ held[i].mass > 0
First(i) == Earnest(i) /\ \A j \in 1..(i - 1) : Earnest(j) => held[j].beneficiary # held[i].beneficiary
Attested[k \in 0..Len(held)] ==
  IF k = 0 THEN 0 ELSE Attested[k - 1] + IF First(k) THEN Weight(held[k]) ELSE 0

\* One voice each, the first in earnest, and no voice lost: a node mints what the
\* distinct beneficiaries attested first in the order in which it holds their
\* attestations, less the cost, whatever echoes, empty claims and words of the
\* actor stand between or before them (minting.py 70-129).
OneVoiceEach == Minted = Surplus(Attested[Len(held)] - Surplus(cost))
=============================================================================
