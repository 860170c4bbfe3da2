SPECIFICATION Spec
CONSTANTS
  rec = rec
  col = col
  man = man
  Contract = Contract
  NoOne = NoOne
  Address <- Pair
  RolesOf <- OneRole
  Ttls = {0}
  Durations = {}
  AuctionSpans = {}
  PendingLife = 1
  StartPrice = 21
  Bids = {}
  MaxTime = 1
  MaxWastes = 3
  MaxBatch = 2
  MaxMoves = 1
  MaxPending = 0
  MaxDisputes = 2
  MaxAuctions = 0
INVARIANTS OwnerListed FrozenIffDisputed
