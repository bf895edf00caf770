SPECIFICATION Spec
CONSTANTS
  N = 2
  Qty <- TwoUnits
  Side <- BuyThenSell
  ReduceOnly = {2}
  Tasks = {t1}
  Overlap = 1
  MaxOpen = 1
  MaxMoves = 2
  MaxFeed = 2
  MaxFaults = 1

INVARIANTS TypeOK FillsAreExecutions LineageIsExact
PROPERTIES InSyncIsTrue RepairsWhatItCan
