SPECIFICATION Spec
CONSTANTS
  rec = rec
  col = col
  man = man
  Contract = Contract
  NoOne = NoOne
  Address <- Pair
  RolesOf <- OneRole
  Ttls = {0}
  Durations = {}
  AuctionSpans = {}
  PendingLife = 1
  StartPrice = 21
  Bids = {}
  MaxTime = 1
  MaxWastes = 1
  MaxBatch = 1
  MaxMoves = 2
  MaxPending = 0
  MaxDisputes = 1
  MaxAuctions = 0
PROPERTIES FrozenStaysPut
