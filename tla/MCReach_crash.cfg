SPECIFICATION FairSpec
CONSTANTS
  ana = ana
  bo = bo
  c1 = c1
  c2 = c2
  NoCap = NoCap
  Node = {ana, bo}
  Cap = {c1, c2}
  Serves <- SoloServes
  Opens <- Opened
  MaxAsks = 1
  MaxCrashes <- BoCrashes
  MaxFaults = 1
INVARIANTS
  TypeOK
  OncePerLife
  Accounted
  Grounded
PROPERTIES
  WorkedOff
  Collected
  KeepsPromiseInTime
