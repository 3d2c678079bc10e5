SPECIFICATION Spec
CONSTANTS
  Processes = {o1, o2}
  NoLock = NoLock
  NoEntry = NoEntry
  MaxCost = 2
  MaxDay = 2
  MaxCrashes = 1
INVARIANTS
  LedgerMerges
CHECK_DEADLOCK FALSE
