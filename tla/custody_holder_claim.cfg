SPECIFICATION Spec
CONSTANTS
  rec = rec
  col = col
  man = man
  Contract = Contract
  NoOne = NoOne
  Address <- Trio
  RolesOf <- OneRole
  Ttls = {0}
  Durations = {}
  AuctionSpans = {}
  PendingLife = 1
  StartPrice = 21
  Bids = {}
  MaxTime = 1
  MaxWastes = 1
  MaxBatch = 0
  MaxMoves = 2
  MaxPending = 2
  MaxDisputes = 0
  MaxAuctions = 0
PROPERTIES ApprovedFromHolder
