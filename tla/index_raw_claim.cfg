SPECIFICATION Spec
CONSTANTS
  Log <- Busy
  StartLedger = 1
  BatchSize = 2
  PageSize = 3
  Runs = {"a"}
INVARIANTS RawExplains
