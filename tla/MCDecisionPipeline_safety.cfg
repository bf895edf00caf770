\* The decision pipeline in both execution modes.
CONSTANTS
  Enabled = {"grid"}
  GridQty = 36000
  MaxGridLevels = 2
  Step = 1000
  MinNotional = 20000000
  Modes = {"TESTNET", "LIVE"}
  Books <- FlatBook
  Marks = {2500}
  Depths = {100000}
  Equities = {100, 95}
  Start = 100
  MaxUpsets = 1
  MaxMoves = 2
  MaxSwings = 1
SPECIFICATION FairSpec
INVARIANT ExposureIsBounded
PROPERTIES ToxicNeverAdds 
