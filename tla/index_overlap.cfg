SPECIFICATION FairSpec
CONSTANTS
  Log <- Busy
  StartLedger = 1
  BatchSize = 2
  PageSize = 3
  Runs = {"a", "b"}
INVARIANTS TypeOK NothingLost TransactionsLogged
PROPERTIES LossesRefetched CatchesUp
