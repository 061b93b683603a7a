------------------------------ MODULE MCMinting ------------------------------
(* Two instances of Minting for TLC: two nodes that hold attestations of one
   act, each in the order they reached it. *)
EXTENDS Minting, SequencesExt

VARIABLE theirs     \* the attestations the other node holds

Other == INSTANCE Minting WITH held <- theirs

TwoNodesSpec ==
  /\ MintInit /\ Other!MintInit
  /\ [][\/ MintNext /\ UNCHANGED theirs
        \/ Other!MintNext /\ UNCHANGED held]_<<mintVars, theirs>>

\* The two hold the same attestations, in whatever order.
SameEvidence == ToBag(held) = ToBag(theirs)

\* "Every node computes the same mint from the same evidence.  Two nodes
\* disagreeing about what was minted would fork the economy" (minting.py 31-32).
MintsAgree == SameEvidence => Minted = Other!Minted
=============================================================================
