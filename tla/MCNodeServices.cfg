CONSTANTS
  n1 = n1
  n2 = n2
  q1 = q1
  q2 = q2
  x1 = x1
  x2 = x2
  x3 = x3
  e1 = e1
  c1 = c1
  c2 = c2
  p1 = p1
  p2 = p2
  w1 = w1
  w2 = w2
  RegNode <- MCAlike
  Entity = {e1}
  Registration = {x1, x2, x3}
  NoEntry = NoEntry
  RegMaxTime = 2
  MaxQueue = 1
  Validator <- MCAlike
  License = {x1, x2, x3}
  Application <- MCApplication
  MaxRevocations = 2
  IntNode <- MCAlike
  Request = {x1, x2}
  MaxPending = 2
  UseNode <- MCAlike
  Stakes <- MCStakes
  Tx = {x1, x2}
  MaxActivity = 2
  Participant <- MCAlike
  Layers <- MCLayers
  MaxUpdates = 2
  CheckInterval = 1
  MaxContributions = 3
  FedMaxTime = 4
  NotRegistered = NotRegistered
  Cid = {c1, c2}
  Peer = {n1}
  MinProviders = 1
  Replicas = 1
  CacheTtl = 1
  RpcMaxTime = 2
  Node <- MCNode
  Proposal <- MCProposal
  Member = {x1, x2}
  Terms <- MCTerms
  Deployments <- MCDeployments
  MaxTime = 1
  FreezePeriod = 0
  MaxRemovals = 1
  TotalSupply = 20
  Whole = 10
  DefaultRatios <- MCDefaultRatios
  CustomRatios <- MCCustomRatios
  PoolThreshold = 3
  MaxFees = 40
  Channel = {c1, c2}
  Message = {x1, x2}
  File = {x1, x2}
  Readable = {x1}
  MaxAge = 0
  MaxHanded = 2
  MsgMaxTime = 2
  BatchModel = {c1, c2}
  InferenceRequest = {x1, x2, x3}
  modelOf <- MCModelOf
  BatchSize = 2
  MaxLatency = 2
  Process <- MCAlike
  MarketCall <- MCMarketCall
  MarketModel = {e1}
  MetadataKey = {c1}
  OtherField = {c2}
  Empty = Empty
  MaxMined = 2
  FusionCall <- MCFusionCall
  Format = {c1, c2}
  Collections <- MCCollections
  User = {n1}
  Nobody = Nobody
  Offer <- MCOffer
  Question <- MCQuestion
  AnyType = AnyType
  NoBudget = NoBudget
  NoPriority = NoPriority
  Preference <- MCPreference
  TopCount = 2
  MaxListed = 3
  Worker <- MCAlike
  StorageModel = {x1, x2}
  Providers = {"short", "mid", "long"}
  Durations = {"mid", "long", "edge"}
  MaxStorageCalls = 3
  CdnNode = {x1, x2, x3}
  Stake = {1, 2}
  CdnContent = {c1}
  Copies = 1
  CdnTimeout = 2
  CdnMaxTime = 2
  Absent = Absent
  Torn = Torn
  RtcPeer <- MCAlike
  DataChannel = {c1, c2}
  TurnUser = {w1}
  Signalled = {x1}
  TextMessage = {x1}
  FileMessage = {x2}
  Unconnected = Unconnected
  NetPeer = {x1, x2, x3}
  Result = {w1, w2}
  Services = {"dao", "registry", "licenses", "integrity", "use", "federated", "rpc",
              "economics", "messages", "files", "batches", "models", "compatibility", "assistant",
              "storage", "cache", "signalling", "channels", "network"}
SPECIFICATION ServicesSpec
SYMMETRY MCSymmetry
INVARIANT ServicesTypeOK
INVARIANT DecisionsStand
INVARIANT HoldsNewest
INVARIANT ValidatorsBacked
INVARIANT FeesAccounted
 
INVARIANT PeersReached
INVARIANT CallersToldTruth
INVARIANT AdviceHolds
PROPERTY RoundsAreSound
PROPERTY OnlyOverlapsHarm
CHECK_DEADLOCK FALSE
