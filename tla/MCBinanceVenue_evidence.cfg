SPECIFICATION Spec
CONSTANTS
  N = 1
  Qty <- Units
  Side <- BuyThenSell
  ReduceOnly = {}
  Tasks = {t1}
  Overlap = 1
  MaxOpen = 1
  MaxMoves = 2
  MaxFeed = 2
  MaxFaults = 0

INVARIANT EvidenceIsCurrent
