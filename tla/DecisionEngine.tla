--------------------------- MODULE DecisionEngine ---------------------------
(***************************************************************************)
(* What one market event makes of the account: the strategy intents, their *)
(* allocation, the exposure recovery, the risk governor and the clamp.     *)
(* These are the pure functions of the decision pipeline; the worker that  *)
(* calls them is in DecisionPipeline.                                      *)
(*                                                                         *)
(* Quantities are signed, in units of 10^-6 of the base asset; prices are  *)
(* in the quote asset, so a notional is in 10^-6 of it.  Scores are the    *)
(* percentages of the code.                                                *)
(***************************************************************************)
EXTENDS Integers

CONSTANTS
  Enabled,       \* the strategies of the active configuration
  GridQty,       \* GridStrategyEngine.base_order_qty
  MaxGridLevels, \* GridStrategyEngine.max_grid_levels
  Step,          \* LOT_SIZE stepSize and minQty
  MinNotional    \* MIN_NOTIONAL

ASSUME EngineAssumption ==
  /\ GridQty \in Nat /\ MinNotional \in Nat
  /\ MaxGridLevels \in Nat \ {0} /\ Step \in Nat \ {0}

Sgn(x) == IF x > 0 THEN 1 ELSE IF x < 0 THEN -1 ELSE 0
Abs(x) == IF x < 0 THEN -x ELSE x
Least(x, y) == IF x < y THEN x ELSE y

----------------------------------------------------------------------------
(* The strategies.                                                         *)

\* InstrumentTracker.process and MarketStateClassifier.classify, as far as a
\* strategy can tell: a regime, whether a swing was swept and reclaimed, the
\* sign of the velocity.  R5 is a shock; without one and without a trend, a
\* sweep is R0.
classify ==
  {s \in [regime : {"R0", "R1", "R2", "R3", "R4", "R5"},
          swept : BOOLEAN, reclaiming : BOOLEAN, rising : BOOLEAN] :
     /\ s.reclaiming => s.swept
     /\ s.regime = "R0" => s.swept
     /\ s.regime \in {"R1", "R2"} => ~s.swept}

\* A position without grid lineage is fully capped; orders counts the grid
\* orders with fills and, when there is one, the open one.
observed_depth(qty, open, orders) ==
  IF qty = 0 /\ ~open THEN 0
  ELSE IF orders = 0 THEN MaxGridLevels ELSE Least(MaxGridLevels, orders)

\* Each strategy's desired delta times its confidence and score.
grid_evaluate(s, depth) ==
  IF /\ s.regime \in {"R0", "R1"}
     /\ depth < MaxGridLevels
     /\ s.reclaiming
  THEN (GridQty * (MaxGridLevels - depth) * (IF s.regime = "R0" THEN 81 ELSE 40))
         \div (100 * MaxGridLevels)
  ELSE 0

trend_evaluate(s) ==
  IF s.regime \in {"R3", "R4"} THEN (IF s.rising THEN 112000 ELSE -112000) ELSE 0

shock_evaluate(s) ==
  IF s.regime = "R5" \/ s.swept
  THEN (IF s.swept \/ s.rising THEN 162000 ELSE -162000) ELSE 0

\* Its score lies between a half and one once the net yield is sufficient.
carry_evaluate(funding) ==
  IF funding = "none" THEN 0 ELSE IF funding = "longs_pay" THEN -42500 ELSE 85000

intent(strategy, delta) == IF strategy \in Enabled THEN delta ELSE 0

\* MetaAllocator.allocate, with its gross cap of 5 units.
allocate(grid, trend, shock, carry) ==
  LET net == grid + trend + shock + carry
      gross == Abs(grid) + Abs(trend) + Abs(shock) + Abs(carry)
  IN IF gross > 5000000 THEN (net * 5000000) \div gross ELSE net

\* What the strategies can make of an event at a grid depth: the net intent,
\* and whether the grid takes part in it.
Intents ==
  [depth \in 0..MaxGridLevels |->
     {LET grid == intent("grid", grid_evaluate(s, depth)) IN
      [grid |-> grid # 0,
       net |-> allocate(grid, intent("trend", trend_evaluate(s)),
                        intent("shock", shock_evaluate(s)), intent("carry", carry_evaluate(funding)))]
      : s \in classify, funding \in {"none", "longs_pay", "shorts_pay"}}]

----------------------------------------------------------------------------
(* The account's risk: [peak, equity, safe].  safe stands for a positive   *)
(* available balance, leverage and margin below their limits and a known   *)
(* liquidation distance.                                                   *)

\* current_drawdown_pct >= pct
DrawdownReaches(risk, pct) == 100 * (risk.peak - risk.equity) >= pct * risk.peak

\* Seeded fault: recovery waits for the governor's own limit.
GovernorLimit(risk) == DrawdownReaches(risk, 6)

Toxic(risk) == DrawdownReaches(risk, 2)

\* _derive_testnet_risk_state is NO_NEW_RISK, or the governor's own limits.
RiskOff(risk) == ~risk.safe \/ DrawdownReaches(risk, 6)

\* _determine_action and the delta process makes of it; net never has the
\* sign of the position here.
Recovery(net, risk, pos) ==
  LET part(pct) == -Sgn(pos) * ((Abs(pos) * pct) \div 100) IN
  IF DrawdownReaches(risk, 5) THEN -pos
  ELSE IF DrawdownReaches(risk, 3) THEN part(25)
  ELSE IF net # 0 THEN net ELSE part(30)

\* ExposureRecoveryEngine.process.  is_active changes nothing it returns.
process(net, risk, pos) ==
  IF ~Toxic(risk) THEN net
  ELSE IF pos = 0 THEN 0
  ELSE Recovery(IF Sgn(net) = Sgn(pos) THEN 0 ELSE net, risk, pos)

_classify_risk(delta, pos) ==
  IF pos = 0 THEN "NEW_RISK"
  ELSE IF Sgn(delta) # -Sgn(pos) THEN "INCREASE_RISK"
  ELSE IF Abs(delta) > Abs(pos) THEN "CROSSES_ZERO"
  ELSE IF Abs(delta) = Abs(pos) THEN "CLOSE" ELSE "REDUCE_RISK"

Increasing(class) == class \in {"NEW_RISK", "INCREASE_RISK"}
Reducing(class) == class \in {"REDUCE_RISK", "CLOSE"}

\* RiskGovernor.evaluate; 0 is the NOOP decision.
evaluate(delta, risk, pos) ==
  LET class == _classify_risk(delta, pos) IN
  IF \/ Abs(delta) < 1000
     \/ class = "CROSSES_ZERO"
     \/ RiskOff(risk) /\ ~Reducing(class)
  THEN 0 ELSE delta

\* What the event's net intent becomes.
Decision(net, risk, pos) == evaluate(process(net, risk, pos), risk, pos)

----------------------------------------------------------------------------
(* The clamp.                                                              *)

normalize_quantity(qty) == (qty \div Step) * Step

Within(qty, price, single) ==
  /\ qty >= Step
  /\ qty * price >= MinNotional
  /\ qty * price <= single

\* _clamp_order_notional_if_needed, of an order that is not reduce-only.
clamp(qty, price, single) ==
  LET est == qty * price
      target == Least((single \div 10) * 9, 45000000)
      clamped == normalize_quantity(target \div price)
      bumped == normalize_quantity(Least((MinNotional \div 4) * 5, target) \div price)
  IN IF est > single
     THEN IF Within(clamped, price, single) THEN clamped ELSE qty
     ELSE IF est < MinNotional /\ Within(bumped, price, single) THEN bumped ELSE qty
=============================================================================
