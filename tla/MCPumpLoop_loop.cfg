SPECIFICATION FairSpec
CONSTANTS
  c1 = c1
  c2 = c2
  Nobody = Nobody
  Control = {c1, c2}
  NReactors = 1
  MaxTicks = 2
  MaxDepth = 2
  JoinTimesOut = TRUE
  MaxRunners = 2
INVARIANTS
  OutboundHolds
PROPERTIES
  ResolveReturns
  StopEnds
