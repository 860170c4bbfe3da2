SPECIFICATION Spec
CONSTANTS
  ann = ann  bob = bob  eve = eve
  Address <- Board  AdminLists <- Lists
  Percents = {50, 60}  Items = {1}
  ProposalLife = 1
  MaxTime = 3  MaxAdmins = 3  MaxProposals = 1
CHECK_DEADLOCK FALSE
INVARIANTS TypeOK SharesFit
PROPERTIES ExecutedAgreed AdminsRemain
