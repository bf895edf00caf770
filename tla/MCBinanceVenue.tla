--------------------------- MODULE MCBinanceVenue ---------------------------
(* Instances of BinanceVenue for TLC.                                      *)
EXTENDS BinanceVenue

\* Every order one unit; or the first own order two.
Units == [o \in All |-> 1]
TwoUnits == [o \in All |-> IF o = 1 THEN 2 ELSE 1]

\* The second own order sells what the first bought.
BuyThenSell == [o \in All |-> IF o = 2 THEN -1 ELSE 1]
=============================================================================
