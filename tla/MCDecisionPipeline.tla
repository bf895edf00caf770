------------------------- MODULE MCDecisionPipeline -------------------------
(***************************************************************************)
(* Instances of DecisionPipeline.  A price of 2500 and a grid order of     *)
(* 0.028 make one grid order 28 or 56 USDC, above the minimum of 20, and   *)
(* let the total limit of 100 admit one order more than the grid allows.   *)
(***************************************************************************)
EXTENDS DecisionPipeline

OneBook == {<<2500, 2501>>}

FlatBook == {<<2500, 2500>>}
=============================================================================
