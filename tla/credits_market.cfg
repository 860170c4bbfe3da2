SPECIFICATION Spec
CONSTANTS
  ann = ann  bob = bob
  Address <- Traders  RoleOf <- Jobs  Lots <- Sacks  RateMilli <- Rates
  Amounts = {1, 2}  Prices = {2}  Purse = 2  MaxToken = 3
  MaxMaterials = 2  MaxCarbon = 3  MaxListings = 2
INVARIANTS TypeOK IndexedActive SalesArePaid CreditsBalance
PROPERTY KeepsLedger
CHECK_DEADLOCK FALSE
