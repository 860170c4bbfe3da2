SPECIFICATION Spec
CONSTANTS
  rec = rec
  col = col
  man = man
  Contract = Contract
  NoOne = NoOne
  Address <- Pair
  RolesOf <- OneRole
  Ttls = {0}
  Durations = {1}
  AuctionSpans = {1}
  PendingLife = 1
  StartPrice = 21
  Bids = {22, 25}
  MaxTime = 2
  MaxWastes = 1
  MaxBatch = 1
  MaxMoves = 1
  MaxPending = 1
  MaxDisputes = 0
  MaxAuctions = 2
INVARIANTS AuctionedWasteHeld
PROPERTIES HandoversAccounted BidsOnlyRise PausedKeepsHands
