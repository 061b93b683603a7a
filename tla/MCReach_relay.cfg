SPECIFICATION Spec
CONSTANTS
  ana = ana
  bo = bo
  c1 = c1
  c2 = c2
  NoCap = NoCap
  Node = {ana, bo}
  Cap = {c1, c2}
  Serves <- HandoffServes
  Opens <- Opened
  MaxAsks = 2
  MaxCrashes <- NoCrash
  MaxFaults = 0
INVARIANTS
  Provenance
  OncePerLife
PROPERTIES
  KeepsPromise
