SPECIFICATION StoreSpec
CONSTANTS
  r1 = r1
  r2 = r2
  r3 = r3
  w1 = w1
  w2 = w2
  p1 = p1
  p2 = p2
  Row = {r1, r2, r3}
  Junk = {r3}
  Writer = {w1, w2}
  Poller = {p1, p2}
  PageSize = 1
  Stores = {TRUE}
  MaxSeq = 4
  MaxRestarts = 0
PROPERTIES
  WholePlane
