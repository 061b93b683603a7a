\* Every part that shares nothing with another, alone.
SPECIFICATION LocalSpec
CONSTANTS
  Nothing = Nothing
  Vanished = Vanished
  Group = {"a", "b"}
  Seam = {"io"}
  StoreDoc <- MCStoreDoc
  File <- MCFile
  Shipped <- MCShipped
  Artifact <- MCArtifact
  Channels = {}
  Uses <- MCUses
  Short <- MCShort
  Needs <- MCNeeds
  MaxChanges = 4
  Empty = Empty
  Caller = {t1, t2}
  Contract = {"embodiment", "read"}
  Instrument = {"full", "reader"}
  Factory = {"lazyFull", "lazyNone", "lazyReader"}
  Makes <- MCMakes
  Reaches <- MCReaches
  Fills <- MCFills
  Member <- MCMember
  Unset = Unset
  Torn = Torn
  Capability = {"fs", "gpu"}
  Known = {"fs", "gpu"}
  Family <- MCFamily
  Requires <- MCRequires
  ValidBody = {"x1", "x2"}
  CrystalName = {"c", "d"}
  BundleName = {"b"}
  Definition <- MCDefinition
  MaxPosts = 4
  Sender = {s1, s2}
  Receiver = {r1, r2}
  Principal <- MCPrincipal
  Target = {"all", "team"}
  Nested <- MCNested
  Fallback = TRUE
  MaxTick = 2
  MaxFrames = 2
  Taus = {1, 2}
  Cooling <- MCCooling
  Unit = 262144
  Unmeasured = Unmeasured
  Mass <- MCAmounts
  Work <- MCAmounts
  MaxFrame = 3
  MaxUses = 3
  Item = {"i"}
  Hash = {"h", "k"}
  Authority = {"a", "b", "c"}
  NoOrigin = "no"
  Self = "self"
  MaxRows = 4
  Quanta = {0, 1, 2, 3}
  NotEmitted = NotEmitted
  MaxHops = 3
  Beneficiary = {"a", "b", "c"}
  Actor = "a"
  NoName = ""
  Lift = {0, 1, 2}
  BeliefMass = {0, 1, 2}
  Cost <- MCAmounts
  MaxAttestations = 3
  NoChannel = "none"
  Misspelt = "humn"
  MaxWrites = 3
  Vertex = {1, 2, 3}
  Seeds <- MCSeeds
  Edge = {0, 1, 3}
  NoEdge = NoEdge
  Horizons = {3, 9}
  Caps = {1, 3}
  Node = {"ana"}
  Thread = {"t1", "t2"}
  Home <- MCHome
  Base = 3
  Width = 2
  MaxWall = 2
  MaxStamps = 4
INVARIANTS
  ClockTypeOK
  StampsRise
  SortsAsIssued
  OnlyVerifiedRuns
  LastRegistrationAnswers
  GroundedAsPinned
  ManifestComesLast
  LiveOrLetter
  
  BalancedIsLossless
  OneVoiceEach
  GroundedIsEarned
  FiresAtNearest
PROPERTIES
  PinnedForLife
  EchoesAddNothing
CHECK_DEADLOCK FALSE
