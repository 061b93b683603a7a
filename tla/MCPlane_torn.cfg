SPECIFICATION Spec
CONSTANTS
  ana = ana
  d1 = d1
  d2 = d2
  l1 = l1
  Node = {ana}
  Folder = {d1, d2}
  Leaf = {l1}
  Carriers <- Alone
  MaxCrashes = 1
PROPERTIES
  BothHoldTheUnion
