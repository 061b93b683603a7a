SPECIFICATION HeatSpec
CONSTANTS
  Taus = {1, 2}
  Cooling <- Halvings
  Unit = 262144
  Unmeasured = Unmeasured
  Mass = {1}
  Work = {1}
  MaxFrame = 3
  MaxUses = 1
PROPERTIES
  StaysEarned
CHECK_DEADLOCK FALSE
