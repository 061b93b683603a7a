SPECIFICATION TwoNodesSpec
CONSTANTS
  Beneficiary = {"a", "b"}
  Actor = "a"
  NoName = ""
  Lift = {1, 2}
  BeliefMass = {1}
  Cost = {0, 1}
  MaxAttestations = 2
INVARIANTS
  MintsAgree
CHECK_DEADLOCK FALSE
