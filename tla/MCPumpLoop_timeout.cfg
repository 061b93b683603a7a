SPECIFICATION Spec
CONSTANTS
  c1 = c1
  c2 = c2
  Nobody = Nobody
  Control = {c1}
  NReactors = 1
  MaxTicks = 2
  MaxDepth = 1
  JoinTimesOut = TRUE
  MaxRunners = 2
INVARIANTS
  OneRunner
