\* A MARKET order priced by a mark price.
CONSTANTS
  Enabled = {"grid"}
  GridQty = 28000
  MaxGridLevels = 1
  Step = 1000
  MinNotional = 20000000
  Modes = {"TESTNET"}
  Books <- OneBook
  Marks = {2500}
  Depths = {100000}
  Equities = {100, 95}
  Start = 100
  MaxUpsets = 1
  MaxMoves = 2
  MaxSwings = 1
SPECIFICATION Spec
INVARIANT QuoteIsExecutable
