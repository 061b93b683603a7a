SPECIFICATION ClockSpec
CONSTANTS
  ana = ana
  bo = bo
  t1 = t1
  t2 = t2
  Node = {ana, bo}
  Thread = {t1, t2}
  Home <- TwoNodes
  Base = 3
  Width = 1
  MaxWall = 2
  MaxStamps = 3
INVARIANTS
  FirstIsFirstCoupled
CHECK_DEADLOCK FALSE
