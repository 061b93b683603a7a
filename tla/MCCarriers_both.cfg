\* Three nodes and three folders; two pollers and two writers of a store.
SPECIFICATION CarriersSpec
CONSTANTS
  ana = ana
  bo = bo
  cy = cy
  d1 = d1
  d2 = d2
  d3 = d3
  Node = {ana, bo, cy}
  Folder = {d1, d2, d3}
  Leaf = {l1}
  Carriers <- Hub
  MaxCrashes = 1
  Row = {r1, r3}
  Junk = {r3}
  Writer = {w1, w2}
  Poller = {p1, p2}
  PageSize = 2
  Stores = {TRUE, FALSE}
  MaxSeq = 4
  MaxRestarts = 1
INVARIANTS
  NeverSkip
PROPERTIES
  UnionButTorn
  Delivered
  Converges
  WholePlaneAlone
  PollReturns
  EventuallyFolded
