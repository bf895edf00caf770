----------------------- MODULE DecisionPipelineProofs -----------------------
(***************************************************************************)
(* What the operators of DecisionEngine return, and the proofs that no     *)
(* order decided in a drawdown grows the position, and that the position   *)
(* exceeds the total limit at most by what an IN_SYNC verdict missed.      *)
(***************************************************************************)
EXTENDS DecisionPipeline, TLAPS

----------------------------------------------------------------------------
(* The engine.                                                             *)

\* The helpers on integers.
LEMMA SgnAbs ==
  ASSUME NEW x \in Int
  PROVE  /\ Sgn(x) \in {-1, 0, 1}
         /\ Abs(x) \in Nat
         /\ Sgn(x) = 0 <=> x = 0
         /\ x = Sgn(x) * Abs(x)
  BY DEF Sgn, Abs

\* A quantity with the sign of another.
LEMMA SignedQuantity ==
  ASSUME NEW x \in Int, NEW q \in Int, q > 0
  PROVE  Sgn(x) * q \in Int /\ Sgn(Sgn(x) * q) = Sgn(x)
  BY DEF Sgn

\* RiskGovernor._classify_risk knows five classes.
LEMMA Classes ==
  ASSUME NEW delta \in Int, NEW pos \in Int
  PROVE  _classify_risk(delta, pos) \in
           {"NEW_RISK", "INCREASE_RISK", "CROSSES_ZERO", "CLOSE", "REDUCE_RISK"}
  BY DEF _classify_risk

Risk == [peak : Nat, equity : Nat, safe : BOOLEAN]

\* ExposureRecoveryEngine.process and RiskGovernor.evaluate return a quantity,
\* never one that crosses zero.
LEMMA DecisionType ==
  ASSUME NEW net \in Int, NEW risk \in Risk, NEW pos \in Int
  PROVE  /\ Decision(net, risk, pos) \in Int
         /\ Decision(net, risk, pos) # 0 =>
              _classify_risk(Decision(net, risk, pos), pos) # "CROSSES_ZERO"
<1> DEFINE n == IF Sgn(net) = Sgn(pos) THEN 0 ELSE net
           d == process(net, risk, pos)
<1>1. n \in Int
  OBVIOUS
<1>2. -Sgn(pos) * ((Abs(pos) * 25) \div 100) \in Int /\ -Sgn(pos) * ((Abs(pos) * 30) \div 100) \in Int
  BY DEF Sgn, Abs
<1>3. Recovery(n, risk, pos) \in Int
  BY <1>1, <1>2 DEF Recovery
<1>4. d \in Int
  BY <1>3 DEF process
<1>5. evaluate(d, risk, pos) \in {0, d}
      /\ (evaluate(d, risk, pos) # 0 => _classify_risk(d, pos) # "CROSSES_ZERO")
  BY DEF evaluate
<1> QED
  BY <1>4, <1>5 DEF Decision

\* ExposureRecoveryEngine.process and RiskGovernor.evaluate together: in a
\* drawdown of 2% or more a decision that is not NOOP reduces the position.
THEOREM ToxicReduces ==
  ASSUME NEW net \in Int, NEW risk \in Risk, NEW pos \in Int,
         Toxic(risk), Decision(net, risk, pos) # 0
  PROVE  Reducing(_classify_risk(Decision(net, risk, pos), pos))
<1> DEFINE n == IF Sgn(net) = Sgn(pos) THEN 0 ELSE net
           d == process(net, risk, pos)
           part(pct) == -Sgn(pos) * ((Abs(pos) * pct) \div 100)
<1>1. d # 0 /\ Decision(net, risk, pos) = d /\ _classify_risk(d, pos) # "CROSSES_ZERO"
  BY SgnAbs DEF Decision, evaluate, Abs
<1>2. pos # 0 /\ d = Recovery(n, risk, pos)
  BY <1>1 DEF process
<1>3. d \in {-pos, part(25), n, part(30)}
  BY <1>2 DEF Recovery
<1>4. \A pct \in {25, 30} : part(pct) \in Int /\ Sgn(part(pct)) \in {0, -Sgn(pos)}
  <2>1. ASSUME NEW m \in Nat
        PROVE  -Sgn(pos) * m \in Int /\ Sgn(-Sgn(pos) * m) \in {0, -Sgn(pos)}
    <3>1. CASE pos > 0
      BY <3>1 DEF Sgn
    <3>2. CASE pos < 0
      <4>1. Sgn(pos) = -1
        BY <3>2 DEF Sgn
      <4>2. -Sgn(pos) * m = m
        BY <4>1
      <4>3. Sgn(m) \in {0, 1}
        BY DEF Sgn
      <4> QED
        BY <4>1, <4>2, <4>3
    <3> QED
      BY <3>1, <3>2, <1>2
  <2>2. (Abs(pos) * 25) \div 100 \in Nat /\ (Abs(pos) * 30) \div 100 \in Nat
    BY SgnAbs
  <2> QED
    BY <2>1, <2>2
<1>5. n \in Int /\ Sgn(n) \in {0, -Sgn(pos)}
  <2>1. CASE Sgn(net) = Sgn(pos)
    BY <2>1 DEF Sgn
  <2>2. CASE Sgn(net) # Sgn(pos)
    <3>1. n = net
      BY <2>2
    <3>2. Sgn(net) \in {-1, 0, 1} /\ Sgn(pos) \in {-1, 1}
      BY <1>2, SgnAbs
    <3> QED
      BY <3>1, <3>2, <2>2
  <2> QED
    BY <2>1, <2>2
<1>6. d \in Int /\ Sgn(d) = -Sgn(pos)
  <2>1. CASE d = -pos
    BY <2>1 DEF Sgn
  <2>2. CASE d = n
    BY <2>2, <1>5, <1>1 DEF Sgn
  <2>3. CASE d \in {part(25), part(30)}
    BY <2>3, <1>4, <1>1, SgnAbs
  <2> QED
    BY <1>3, <2>1, <2>2, <2>3
<1> QED
  BY <1>1, <1>2, <1>6 DEF _classify_risk, Reducing

\* _clamp_order_notional_if_needed leaves a positive quantity positive.
LEMMA ClampPositive ==
  ASSUME NEW qty \in Int, qty > 0, NEW price \in Int, price > 0, NEW single \in Nat
  PROVE  clamp(qty, price, single) \in Int /\ clamp(qty, price, single) > 0
<1> USE EngineAssumption
<1>1. ASSUME NEW x \in Int PROVE normalize_quantity(x) \in Int
  BY <1>1 DEF normalize_quantity
<1>2. ASSUME NEW x \in Int, Within(x, price, single) PROVE x > 0
  BY <1>2 DEF Within
<1> DEFINE target == Least((single \div 10) * 9, 45000000)
           low == Least((MinNotional \div 4) * 5, target)
<1>3. target \in Int /\ low \in Int
  BY DEF Least
<1>4. target \div price \in Int /\ low \div price \in Int
  BY <1>3
<1> HIDE DEF target, low
<1> DEFINE clamped == normalize_quantity(target \div price)
           bumped == normalize_quantity(low \div price)
<1>5. clamped \in Int /\ bumped \in Int
  BY <1>1, <1>4
<1>6. clamp(qty, price, single) \in {qty, clamped, bumped}
      /\ (clamp(qty, price, single) # qty =>
            \/ clamp(qty, price, single) = clamped /\ Within(clamped, price, single)
            \/ clamp(qty, price, single) = bumped /\ Within(bumped, price, single))
  BY DEF clamp, target, low
<1> QED
  BY <1>2, <1>5, <1>6

\* What the strategies make of an event is an integer.
LEMMA IntentType ==
  ASSUME NEW depth \in 0..MaxGridLevels, NEW i \in Intents[depth]
  PROVE  i.net \in Int /\ i.grid \in BOOLEAN
<1> USE EngineAssumption
<1>1. ASSUME NEW s \in classify PROVE grid_evaluate(s, depth) \in Int
  <2>1. GridQty * (MaxGridLevels - depth) \in Int
    OBVIOUS
  <2>2. \A x \in Int, k \in {81, 40} : (x * k) \div (100 * MaxGridLevels) \in Int
    OBVIOUS
  <2> QED
    BY <2>1, <2>2 DEF grid_evaluate
<1>2. ASSUME NEW a \in Int, NEW b \in Int, NEW c \in Int, NEW d \in Int
      PROVE  allocate(a, b, c, d) \in Int
  BY <1>2 DEF allocate, Abs
<1>3. ASSUME NEW x \in Int, NEW g PROVE intent(g, x) \in Int
  BY <1>3 DEF intent
<1>4. PICK s \in classify, funding \in {"none", "longs_pay", "shorts_pay"} :
        i = [grid |-> intent("grid", grid_evaluate(s, depth)) # 0,
             net |-> allocate(intent("grid", grid_evaluate(s, depth)),
                              intent("trend", trend_evaluate(s)),
                              intent("shock", shock_evaluate(s)),
                              intent("carry", carry_evaluate(funding)))]
  BY DEF Intents
<1>5. trend_evaluate(s) \in Int /\ shock_evaluate(s) \in Int /\ carry_evaluate(funding) \in Int
  BY DEF trend_evaluate, shock_evaluate, carry_evaluate
<1>6. /\ intent("grid", grid_evaluate(s, depth)) \in Int
      /\ intent("trend", trend_evaluate(s)) \in Int
      /\ intent("shock", shock_evaluate(s)) \in Int
      /\ intent("carry", carry_evaluate(funding)) \in Int
  BY <1>1, <1>3, <1>5
<1> QED
  BY <1>2, <1>4, <1>6

----------------------------------------------------------------------------
(* The inductive invariant.                                                *)

Task ==
  [pc : {"idle", "reconcile", "lock", "quote", "post", "settle", "kill"},
   net : Int, grid : BOOLEAN, qty : Int, last : Nat, toxic : BOOLEAN,
   class : {"NOOP", "NEW_RISK", "INCREASE_RISK", "CROSSES_ZERO", "CLOSE", "REDUCE_RISK"}]

\* What holds of the order in the handler.  Only a reduction asks for a quote.
TaskOK(t) ==
  /\ t \in Task
  /\ t.pc = "reconcile" => t.last > 0
  /\ t.pc \in {"lock", "quote", "post"} =>
       /\ Increasing(t.class) \/ Reducing(t.class)
       /\ t.toxic => Reducing(t.class)
  /\ t.pc = "quote" => Reducing(t.class)

Snapshot == [fresh : BOOLEAN, equity : Nat, loss : Int, safe : BOOLEAN]
Ledger == [qty : Int, mark : Marks, filled : Nat, open : BOOLEAN]
Account == [equity : Nat, open : Nat, position : Int, foreign : BOOLEAN]
Orders == [qty : Int, reduce : BOOLEAN, grid : BOOLEAN, toxic : BOOLEAN]
Read == [done : BOOLEAN, position : Int, equity : Nat, loss : Int, seen : BOOLEAN,
         foreign : BOOLEAN]
Echoes == [pending : BOOLEAN, ended : BOOLEAN]
Reading == [{"handler", "other"} -> Read]

\* Every price an order may be gated at is one of the market's.
Priced(m) ==
  /\ m \in [bid : Nat, ask : Nat, fresh : BOOLEAN, depth : Depths]
  /\ m.bid <= m.ask /\ \E p \in Prices : p <= m.bid

\* A position of n passes the limit at most by what was missed.
Fits(n, miss, limit) == \A p \in Prices : Cheapest(p) => n * p <= limit + miss * p

\* An order may be gated on the ledger only while no order rests, and the
\* ledger shows all of the position but what was missed.
Evidence(s, a, l, pos, miss) ==
  s.fresh /\ a = "READY" /\ ~l.open => Abs(pos) <= Abs(l.qty) + miss

Types ==
  /\ account \in Account /\ rest \in Orders /\ ledger \in Ledger /\ snapshot \in Snapshot
  /\ echo \in Echoes /\ reads \in Reading /\ Priced(market)
  /\ peak \in Nat /\ filled \in Nat /\ missed \in Nat

\* The order at the exchange: it is open in the ledger, its end has not been
\* reported, and it only reduces when it was decided in a drawdown.
RestOK ==
  /\ Resting => ledger.open /\ ~echo.ended
  /\ rest.toxic => rest.reduce

\* What the position can become without another decision.
Exposed ==
  /\ Fits(Abs(account.position), missed, max_total_open_notional)
  /\ Resting /\ ~rest.reduce =>
       Fits(Abs(account.position) + Abs(rest.qty), missed, max_total_open_notional)
  /\ task.pc = "post" /\ Increasing(task.class) =>
       /\ ~Resting
       /\ Fits(Abs(account.position) + Abs(task.qty), missed, max_total_open_notional)

Inv ==
  /\ Types
  /\ TaskOK(task)
  /\ RestOK
  /\ Evidence(snapshot, adapter, ledger, account.position, missed)
  /\ Exposed

----------------------------------------------------------------------------
(* Arithmetic of the limit.                                                *)

\* The prices are positive.
LEMMA PricesPositive == \A p \in Prices : p \in Nat /\ p > 0
  BY PipelineAssumption DEF Prices

\* The limit of either mode.
LEMMA LimitType == max_total_open_notional \in Nat /\ max_single_order_notional \in Nat
  BY DEF max_total_open_notional, max_single_order_notional

\* A smaller position fits, and so it does when more was missed.
LEMMA FitsLess ==
  ASSUME NEW n \in Nat, NEW k \in Nat, k <= n,
         NEW m \in Nat, NEW l \in Nat, m <= l,
         NEW limit \in Nat, Fits(n, m, limit)
  PROVE  Fits(k, l, limit)
<1> SUFFICES ASSUME NEW p \in Prices, Cheapest(p)
             PROVE  k * p <= limit + l * p
  BY DEF Fits
<1>1. p \in Nat
  BY PricesPositive
<1>2. n * p <= limit + m * p
  BY DEF Fits
<1>3. k * p <= n * p /\ m * p <= l * p
  <2>1. \A x \in Nat, y \in Nat : x <= y => x * p <= y * p
    BY <1>1
  <2> QED
    BY <2>1
<1>4. k * p \in Nat /\ n * p \in Nat /\ m * p \in Nat /\ l * p \in Nat
  BY <1>1
<1> QED
  BY <1>2, <1>3, <1>4

\* What OrderExecutionGate.check admits fits: the position it counts and the
\* order, each at a price no lower than the lowest.
LEMMA FitsSum ==
  ASSUME NEW n \in Nat, NEW k \in Nat, NEW q \in Nat, NEW m \in Nat, n <= k + m,
         NEW limit \in Nat,
         NEW mark \in Marks, NEW price \in Nat, \E b \in Prices : b <= price,
         k * mark + q * price <= limit
  PROVE  Fits(n + q, m, limit)
<1> SUFFICES ASSUME NEW p \in Prices, Cheapest(p)
             PROVE  (n + q) * p <= limit + m * p
  BY DEF Fits
<1>1. p \in Nat /\ mark \in Nat
  BY PricesPositive, PipelineAssumption
<1>2. p <= mark /\ p <= price
  <2>1. p <= mark
    BY DEF Cheapest, Prices
  <2>2. PICK b \in Prices : b <= price
    OBVIOUS
  <2>3. p <= b /\ b \in Nat
    BY PricesPositive DEF Cheapest
  <2> QED
    BY <1>1, <2>1, <2>2, <2>3
<1>3. \A x \in Nat, y \in Nat, z \in Nat : y <= z => x * y <= x * z
  OBVIOUS
<1>4. k * p <= k * mark /\ q * p <= q * price
  BY <1>1, <1>2, <1>3
<1>5. (n + q) * p <= (k + m + q) * p
  <2>1. p * (n + q) <= p * (k + m + q)
    BY <1>1, <1>3
  <2> QED
    BY <1>1, <2>1
<1>6. (k + m + q) * p = k * p + m * p + q * p
  BY <1>1
<1>7. /\ k * p \in Nat /\ m * p \in Nat /\ q * p \in Nat /\ k * mark \in Nat
      /\ q * price \in Nat /\ (n + q) * p \in Nat
  BY <1>1
<1> QED
  BY <1>4, <1>5, <1>6, <1>7

----------------------------------------------------------------------------
(* The parts of a step.                                                    *)

\* A match takes the position no further than the order, and an order that
\* only reduces takes it no further at all.
LEMMA Matched ==
  ASSUME account \in Account, NEW order \in Orders
  PROVE  /\ FilledTo(order) \in Int
         /\ Abs(FilledTo(order)) <= Abs(account.position) + Abs(order.qty)
         /\ order.reduce => Abs(FilledTo(order)) <= Abs(account.position)
<1> DEFINE P == account.position
           q == order.qty
<1>1. P \in Int /\ q \in Int /\ order.reduce \in BOOLEAN
  BY DEF Account, Orders
<1>2. CASE ~order.reduce
  BY <1>1, <1>2 DEF FilledTo, Abs
<1>3. CASE order.reduce /\ Sgn(P) # -Sgn(q)
  BY <1>1, <1>3 DEF FilledTo, Abs
<1>4. CASE order.reduce /\ Sgn(P) = -Sgn(q)
  <2>1. FilledTo(order) = P + Sgn(q) * Least(Abs(q), Abs(P))
    BY <1>4 DEF FilledTo
  <2> HIDE DEF P, q
  <2>2. P + Sgn(q) * Least(Abs(q), Abs(P)) \in Int
        /\ Abs(P + Sgn(q) * Least(Abs(q), Abs(P))) <= Abs(P)
    BY <1>1, <1>4 DEF Sgn, Abs, Least
  <2>3. Abs(P) \in Nat /\ Abs(q) \in Nat /\ Abs(P + Sgn(q) * Least(Abs(q), Abs(P))) \in Nat
    BY <1>1, <2>2, SgnAbs
  <2>4. Abs(P + Sgn(q) * Least(Abs(q), Abs(P))) <= Abs(P) + Abs(q)
    BY <2>2, <2>3
  <2> QED
    BY <2>1, <2>2, <2>4, <1>4 DEF P, q
<1> QED
  BY <1>1, <1>2, <1>3, <1>4

\* The handler at rest, and waiting for the kill switch's reconciliation.
LEMMA IdleOK ==
  /\ Idle \in Task /\ Idle.pc = "idle" /\ TaskOK(Idle)
  /\ TaskOK([Idle EXCEPT !.pc = "kill"]) /\ [Idle EXCEPT !.pc = "kill"].pc = "kill"
<1>1. Idle \in Task /\ Idle.pc = "idle"
  BY DEF Task, Idle
<1>2. [Idle EXCEPT !.pc = "kill"] \in Task /\ [Idle EXCEPT !.pc = "kill"].pc = "kill"
  BY <1>1 DEF Task
<1> QED
  BY <1>1, <1>2 DEF TaskOK

RiskOf(sn) ==
  [peak |-> IF sn.equity > peak THEN sn.equity ELSE peak, equity |-> sn.equity, safe |-> sn.safe]

\* The order handle_market_event hands to the mutation lock.
Decided(net, grid, last, risk, qty, single) ==
  LET delta == Decision(net, risk, qty)
      class == _classify_risk(delta, qty)
      order == IF Reducing(class) THEN delta
               ELSE Sgn(delta) * clamp(Abs(delta), last, single)
  IN [Idle EXCEPT !.pc = "lock", !.class = class, !.qty = order,
                  !.grid = grid /\ Increasing(class), !.toxic = DrawdownReaches(risk, 2)]

\* It increases the position or reduces it, and reduces it in a drawdown,
\* whatever the position it was decided on.
LEMMA DecidedOK ==
  ASSUME NEW net \in Int, NEW grid \in BOOLEAN, NEW last \in Nat, last > 0,
         NEW risk \in Risk, NEW qty \in Int, NEW single \in Nat,
         Decision(net, risk, qty) # 0
  PROVE  /\ TaskOK(Decided(net, grid, last, risk, qty, single))
         /\ Decided(net, grid, last, risk, qty, single).pc = "lock"
<1> DEFINE delta == Decision(net, risk, qty)
           class == _classify_risk(delta, qty)
           order == IF Reducing(class) THEN delta
                    ELSE Sgn(delta) * clamp(Abs(delta), last, single)
           g == grid /\ Increasing(class)
           t == [Idle EXCEPT !.pc = "lock", !.class = class, !.qty = order, !.grid = g,
                             !.toxic = DrawdownReaches(risk, 2)]
<1>1. delta \in Int /\ delta # 0 /\ class # "CROSSES_ZERO"
  BY DecisionType
<1>2. class \in {"NEW_RISK", "INCREASE_RISK", "CLOSE", "REDUCE_RISK"}
  <2> HIDE DEF delta
  <2> QED
    BY <1>1, Classes
<1>3. DrawdownReaches(risk, 2) => Reducing(class)
  BY <1>1, ToxicReduces DEF Toxic
<1>4. order \in Int
  <2> HIDE DEF delta
  <2>1. Abs(delta) \in Int /\ Abs(delta) > 0
    BY <1>1 DEF Abs
  <2>2. clamp(Abs(delta), last, single) \in Int /\ clamp(Abs(delta), last, single) > 0
    BY <2>1, ClampPositive
  <2> QED
    BY <1>1, <2>2, SignedQuantity
<1>5. DrawdownReaches(risk, 2) \in BOOLEAN /\ g \in BOOLEAN
  BY DEF DrawdownReaches, Risk, Increasing
<1>6. Increasing(class) \/ Reducing(class)
  BY <1>2 DEF Increasing, Reducing
<1> HIDE DEF class, order, g
<1>7. /\ t \in Task /\ t.pc = "lock" /\ t.class = class /\ t.toxic = DrawdownReaches(risk, 2)
  BY <1>2, <1>4, <1>5, IdleOK DEF Task
<1> HIDE DEF delta, t
<1>8. TaskOK(t)
  BY <1>3, <1>6, <1>7 DEF TaskOK
<1> QED
  BY <1>7, <1>8 DEF delta, class, order, g, t, Decided

\* handle_market_event, from the account snapshot to the mutation lock.
LEMMA DecideOK ==
  ASSUME NEW net \in Int, NEW grid \in BOOLEAN, NEW last \in Nat, last > 0,
         NEW a, NEW c, NEW sn \in Snapshot, NEW m, NEW qty \in Int, peak \in Nat,
         Decide(net, grid, last, a, c, sn, m, qty)
  PROVE  peak' \in Nat /\ TaskOK(task') /\ task'.pc # "post"
<1>1. RiskOf(sn) \in Risk /\ RiskOf(sn).peak \in Nat
  BY DEF Risk, Snapshot, RiskOf
<1>2. /\ peak' = RiskOf(sn).peak
      /\ \/ task' = Idle
         \/ /\ Decision(net, RiskOf(sn), qty) # 0
            /\ task' = Decided(net, grid, last, RiskOf(sn), qty, max_single_order_notional)
  BY DEF Decide, Decided, RiskOf
<1> QED
  BY <1>1, <1>2, IdleOK, DecidedOK, LimitType

\* A step that adds nothing to what is exposed: no order is accepted or
\* matched, none comes past the gate, and the evidence still shows the position.
LEMMA Kept ==
  ASSUME Inv, Types', TaskOK(task'), UNCHANGED <<mode, rest>>,
         Abs(account'.position) <= Abs(account.position), missed <= missed',
         Resting => ledger'.open /\ ~echo'.ended,
         task'.pc = "post" => task' = task,
         Evidence(snapshot, adapter, ledger, account.position, missed)'
  PROVE  Inv'
<1>1. /\ account.position \in Int /\ account'.position \in Int /\ rest.qty \in Int
      /\ missed \in Nat /\ missed' \in Nat /\ task.qty \in Int
  BY DEF Inv, Types, Account, Orders, TaskOK, Task
<1>2. /\ Abs(account.position) \in Nat /\ Abs(account'.position) \in Nat
      /\ Abs(rest.qty) \in Nat /\ Abs(task.qty) \in Nat
  BY <1>1, SgnAbs
<1>3. Resting' <=> Resting
  BY DEF Resting
<1>4. RestOK'
  BY <1>3 DEF Inv, RestOK
<1>5. max_total_open_notional' = max_total_open_notional /\ max_total_open_notional \in Nat
  BY LimitType DEF max_total_open_notional, max_single_order_notional
<1> DEFINE limit == max_total_open_notional
           pos == Abs(account.position)
           pos1 == Abs(account'.position)
<1>6. \A d \in Nat : Fits(pos + d, missed, limit) => Fits(pos1 + d, missed', limit)
  <2> HIDE DEF limit, pos, pos1
  <2> TAKE d \in Nat
  <2> HAVE Fits(pos + d, missed, limit)
  <2>1. pos \in Nat /\ pos1 \in Nat /\ pos1 <= pos /\ limit \in Nat
    BY <1>2, <1>5 DEF pos, pos1, limit
  <2>2. pos + d \in Nat /\ pos1 + d \in Nat /\ pos1 + d <= pos + d
    BY <2>1
  <2> QED
    BY <1>1, <2>1, <2>2, FitsLess
<1>7. Fits(pos1, missed', limit)
  BY <1>1, <1>2, <1>5, FitsLess DEF Inv, Exposed
<1>8. Resting /\ ~rest.reduce => Fits(pos1 + Abs(rest.qty), missed', limit)
  BY <1>2, <1>6 DEF Inv, Exposed
<1>9. task'.pc = "post" /\ Increasing(task'.class) =>
        ~Resting /\ Fits(pos1 + Abs(task'.qty), missed', limit)
  BY <1>2, <1>6 DEF Inv, Exposed
<1>10. Exposed'
  BY <1>3, <1>5, <1>7, <1>8, <1>9 DEF Exposed
<1> QED
  BY <1>4, <1>10 DEF Inv

\* What a reconciliation has read, what it writes of it, and what an error
\* leaves are well typed.
LEMMA ReadTypes ==
  ASSUME Types
  PROVE  /\ Observed \in Read /\ NoRead \in Read /\ NoSnapshot \in Snapshot
         /\ ~NoSnapshot.fresh
         /\ \A by \in {"handler", "other"}, safe \in BOOLEAN : Taken(by, safe) \in Snapshot
         /\ \A by \in {"handler", "other"}, x \in Read : [reads EXCEPT ![by] = x] \in Reading
<1>1. Observed \in Read
  BY DEF Types, Observed, Read, Account, Resting
<1>2. NoRead \in Read /\ NoSnapshot \in Snapshot /\ ~NoSnapshot.fresh
  BY DEF NoRead, Read, NoSnapshot, Snapshot
<1>3. \A by \in {"handler", "other"}, safe \in BOOLEAN : Taken(by, safe) \in Snapshot
  BY DEF Types, Reading, Read, Taken, Snapshot
<1>4. \A by \in {"handler", "other"}, x \in Read : [reads EXCEPT ![by] = x] \in Reading
  BY DEF Types, Reading
<1> QED
  BY <1>1, <1>2, <1>3, <1>4

\* A step without a verdict.
LEMMA Quiet ==
  ASSUME Inv, UNCHANGED <<mode, rest, ledger, filled, missed>>,
         account' \in Account, Abs(account'.position) <= Abs(account.position),
         peak' \in Nat, Priced(market'), reads' \in Reading, echo' \in Echoes,
         \/ snapshot' = NoSnapshot
         \/ snapshot' = snapshot /\ (adapter' = "READY" => adapter = "READY"),
         Resting => ~echo'.ended, TaskOK(task'), task'.pc = "post" => task' = task
  PROVE  Inv'
<1>1. NoSnapshot \in Snapshot /\ ~NoSnapshot.fresh
  BY DEF NoSnapshot, Snapshot
<1>2. Types'
  BY <1>1 DEF Inv, Types
<1>3. Resting => ledger'.open
  BY DEF Inv, RestOK
<1>4. Evidence(snapshot, adapter, ledger, account.position, missed)'
  <2>1. /\ Abs(account.position) \in Nat /\ Abs(account'.position) \in Nat
        /\ Abs(ledger.qty) \in Nat /\ missed \in Nat
    BY SgnAbs DEF Inv, Types, Account, Ledger
  <2> QED
    BY <1>1, <2>1 DEF Inv, Evidence
<1>5. missed <= missed'
  BY DEF Inv, Types
<1> QED
  BY <1>2, <1>3, <1>4, <1>5, Kept

\* A verdict of IN_SYNC: what it misses of the position is accounted for.
LEMMA ReconcileKeeps ==
  ASSUME Inv, NEW by \in {"handler", "other"}, NEW open \in BOOLEAN, NEW safe \in BOOLEAN,
         NEW mark \in Marks, reconcile(by, open, safe, mark),
         UNCHANGED <<mode, market, venue>>, snapshot' \in Snapshot, peak' \in Nat,
         TaskOK(task'), task'.pc = "post" => task' = task
  PROVE  Inv'
<1> DEFINE r == reads[by]
           lag == Abs(account.position) - Abs(r.position)
<1>1. /\ account.position \in Int /\ r.position \in Int /\ missed \in Nat /\ filled \in Nat
  BY DEF Inv, Types, Account, Reading, Read
<1>2. Abs(account.position) \in Nat /\ Abs(r.position) \in Nat /\ lag \in Int
  BY <1>1, SgnAbs
<1>3. /\ ledger' = [qty |-> r.position, mark |-> mark, filled |-> filled, open |-> open]
      /\ reads' = [reads EXCEPT ![by] = NoRead]
      /\ missed' = IF ~open /\ lag > missed THEN lag ELSE missed
      /\ IF open THEN r.seen /\ ledger.open ELSE ~Resting
      /\ UNCHANGED <<account, rest, echo, filled>>
  BY DEF reconcile, venue
<1> HIDE DEF r, lag
<1>4. missed' \in Nat /\ missed <= missed' /\ (~open => lag <= missed')
  BY <1>1, <1>2, <1>3
<1>5. ledger' \in Ledger /\ ledger'.qty = r.position /\ ledger'.open = open
  BY <1>1, <1>3 DEF Ledger
<1>6. Types'
  BY <1>3, <1>4, <1>5, ReadTypes DEF Inv, Types
<1>7. Resting => ledger'.open /\ ~echo'.ended
  BY <1>3, <1>5 DEF Inv, RestOK
<1>8. Evidence(snapshot, adapter, ledger, account.position, missed)'
  BY <1>2, <1>3, <1>4, <1>5 DEF Evidence, lag
<1>9. Abs(account'.position) <= Abs(account.position)
  BY <1>2, <1>3
<1> QED
  BY <1>3, <1>4, <1>6, <1>7, <1>8, <1>9, Kept

\* A verdict that is not IN_SYNC: no order is gated on what it leaves.
LEMMA UnreconciledKeeps ==
  ASSUME Inv, NEW by \in {"handler", "other"}, NEW seeded \in BOOLEAN, NEW mark \in Marks,
         Unreconciled(by, seeded, mark), UNCHANGED <<mode, market, venue, peak>>,
         \/ snapshot' = NoSnapshot
         \/ snapshot' = snapshot /\ adapter' # "READY",
         TaskOK(task'), task'.pc = "post" => task' = task
  PROVE  Inv'
<1> DEFINE r == reads[by]
<1>1. /\ r.position \in Int /\ filled \in Nat /\ ledger \in Ledger /\ ledger.open \in BOOLEAN
      /\ Resting \in BOOLEAN /\ missed \in Nat /\ Abs(account.position) \in Nat
  BY SgnAbs DEF Inv, Types, Reading, Read, Ledger, Account, Resting
<1>2. /\ ledger' = IF seeded
                   THEN [qty |-> r.position, mark |-> mark, filled |-> filled,
                         open |-> ledger.open /\ Resting]
                   ELSE ledger
      /\ reads' = [reads EXCEPT ![by] = NoRead]
      /\ UNCHANGED <<missed, account, rest, echo, filled>>
  BY DEF Unreconciled, venue
<1> HIDE DEF r
<1>3. ledger' \in Ledger /\ (Resting /\ ledger.open => ledger'.open)
  BY <1>1, <1>2 DEF Ledger
<1>4. NoSnapshot \in Snapshot /\ ~NoSnapshot.fresh
  BY DEF NoSnapshot, Snapshot
<1>5. Types'
  BY <1>2, <1>3, <1>4, ReadTypes DEF Inv, Types
<1>6. Resting => ledger'.open /\ ~echo'.ended
  BY <1>2, <1>3 DEF Inv, RestOK
<1>7. Evidence(snapshot, adapter, ledger, account.position, missed)'
  BY <1>4 DEF Evidence
<1>8. Abs(account'.position) <= Abs(account.position) /\ missed <= missed'
  BY <1>1, <1>2
<1> QED
  BY <1>2, <1>5, <1>6, <1>7, <1>8, Kept

\* The reads of a reconciliation.
LEMMA FetchKeeps ==
  ASSUME Inv, NEW by \in {"handler", "other"}, Fetch(by)
  PROVE  Inv'
<1>1. /\ reads' = [reads EXCEPT ![by] = Observed] /\ adapter' = Unverified(adapter)
      /\ UNCHANGED <<mode, rest, ledger, filled, missed, account, peak, market, snapshot, echo,
                     task>>
  BY DEF Fetch, venue
<1>2. reads' \in Reading
  BY <1>1, ReadTypes DEF Inv
<1>3. Abs(account.position) \in Nat /\ adapter' # "READY"
  BY <1>1, SgnAbs DEF Inv, Types, Account, Unverified
<1> QED
  BY <1>1, <1>2, <1>3, Quiet DEF Inv, Types, RestOK

\* The ends of a handler without a verdict.
LEMMA EndsKeep ==
  ASSUME Inv, UNCHANGED <<mode, venue, ledger, peak, reads, missed>>, Priced(market'),
         \/ \E state : FailClosedTo(state)
         \/ Returns(adapter)
  PROVE  Inv'
<1>1. UNCHANGED <<mode, rest, ledger, filled, missed, account, peak, reads, echo>>
  BY DEF venue
<1>2. Abs(account.position) \in Nat
  BY SgnAbs DEF Inv, Types, Account
<1>3. CASE \E state : FailClosedTo(state)
  <2>1. task' = [Idle EXCEPT !.pc = "kill"] /\ snapshot' = NoSnapshot
    BY <1>3 DEF FailClosedTo
  <2> QED
    BY <1>1, <1>2, <2>1, IdleOK, Quiet DEF Inv, Types, RestOK
<1>4. CASE task' = Idle /\ UNCHANGED <<adapter, snapshot>>
  BY <1>1, <1>2, <1>4, IdleOK, Quiet DEF Inv, Types, RestOK
<1> QED
  BY <1>3, <1>4 DEF Returns, FailClosed

----------------------------------------------------------------------------
(* The handler.                                                            *)

\* The quotes the market cache can hold.
LEMMA MarketPriced ==
  /\ \A event \in parse_payload, timely \in BOOLEAN :
       Priced(market) => Priced(record_market_event(event, timely))
  /\ \A b \in Books, d \in Depths : Priced(_record_rest_market_sample(b, d))
  /\ \A event \in parse_payload : event.last \in Nat /\ event.last > 0
<1>1. \A event \in parse_payload :
        /\ event.bid \in Nat /\ event.ask \in Nat /\ event.bid <= event.ask
        /\ event.bid \in Prices /\ event.last = event.bid
  BY PipelineAssumption DEF parse_payload, Prices
<1>2. ASSUME NEW event \in parse_payload, NEW timely \in BOOLEAN, Priced(market)
      PROVE  Priced(record_market_event(event, timely))
  <2> DEFINE m == record_market_event(event, timely)
  <2>1. event.bid \in Nat /\ event.ask \in Nat
    BY <1>1
  <2>2. /\ m \in [bid : Nat, ask : Nat, fresh : BOOLEAN, depth : Depths]
        /\ m.bid = event.bid /\ m.ask = event.ask
    BY <1>2, <2>1 DEF Priced, record_market_event
  <2> HIDE DEF m
  <2>3. m.bid <= m.ask /\ m.bid \in Prices /\ m.bid <= m.bid
    BY <1>1, <2>1, <2>2
  <2> QED
    BY <2>2, <2>3 DEF Priced, m
<1>3. ASSUME NEW b \in Books, NEW d \in Depths PROVE Priced(_record_rest_market_sample(b, d))
  BY PipelineAssumption DEF Priced, _record_rest_market_sample, Prices
<1> QED
  BY <1>1, <1>2, <1>3, PricesPositive

\* handle_market_event decides, or begins the automatic reconciliation.
LEMMA EventKeeps == ASSUME Inv, NEW timely \in BOOLEAN, Event(timely) PROVE Inv'
<1> DEFINE orders == ledger.filled + (IF ledger.open THEN 1 ELSE 0)
           depth == observed_depth(ledger.qty, ledger.open, orders)
<1>1. PICK event \in parse_payload, i \in Intents[depth] : handle_market_event(event, timely, i)
  BY DEF Event
<1>2. /\ UNCHANGED <<mode, rest, ledger, filled, missed, account, snapshot, echo>>
      /\ market' = record_market_event(event, timely) /\ task.pc = "idle"
  BY <1>1 DEF handle_market_event, venue
<1>3. depth \in 0..MaxGridLevels
  <2>1. orders \in Nat
    BY DEF Inv, Types, Ledger
  <2> HIDE DEF orders
  <2> QED
    BY <2>1, EngineAssumption DEF observed_depth, Least
<1> HIDE DEF depth
<1>4. i.net \in Int /\ i.grid \in BOOLEAN /\ event.last \in Nat /\ event.last > 0
  BY <1>3, IntentType, MarketPriced
<1>5. /\ Priced(market') /\ Abs(account.position) \in Nat /\ peak \in Nat
      /\ snapshot \in Snapshot /\ ledger.qty \in Int
  BY <1>2, MarketPriced, SgnAbs DEF Inv, Types, Account, Ledger
<1>6. CASE snapshot.fresh
  <2>1. /\ Decide(i.net, i.grid, event.last, adapter, copy, snapshot,
                  record_market_event(event, timely), ledger.qty)
        /\ UNCHANGED <<adapter, reads>>
    BY <1>1, <1>6 DEF handle_market_event, is_account_snapshot_ready
  <2>2. peak' \in Nat /\ TaskOK(task') /\ task'.pc # "post"
    BY <1>4, <1>5, <2>1, DecideOK
  <2> QED
    BY <1>2, <1>5, <2>1, <2>2, Quiet DEF Inv, Types, RestOK
<1>7. CASE ~snapshot.fresh
  <2> DEFINE t == [Idle EXCEPT !.pc = "reconcile", !.net = i.net, !.grid = i.grid,
                               !.last = event.last]
  <2>1. /\ task' = t /\ reads' = [reads EXCEPT !["handler"] = Observed]
        /\ adapter' = Unverified(adapter) /\ UNCHANGED peak
    BY <1>1, <1>7 DEF handle_market_event, is_account_snapshot_ready
  <2>2. t \in Task /\ t.pc = "reconcile" /\ t.last = event.last
    BY <1>4, IdleOK DEF Task
  <2> HIDE DEF t
  <2>3. TaskOK(task') /\ task'.pc # "post"
    BY <1>4, <2>1, <2>2 DEF TaskOK
  <2>4. reads' \in Reading /\ adapter' # "READY"
    BY <2>1, ReadTypes DEF Inv, Unverified
  <2> QED
    BY <1>2, <1>5, <2>1, <2>3, <2>4, Quiet DEF Inv, Types, RestOK
<1> QED
  BY <1>1, <1>6, <1>7 DEF handle_market_event, is_account_snapshot_ready

\* The automatic reconciliation, and the decision after it.
LEMMA AutoReconcileKeeps ==
  ASSUME Inv, NEW open \in BOOLEAN, NEW safe \in BOOLEAN, NEW mark \in Marks,
         AutoReconcile(open, safe, mark)
  PROVE  Inv'
<1>1. /\ task.pc = "reconcile" /\ reconcile("handler", open, safe, mark)
      /\ snapshot' = Taken("handler", safe)
      /\ Decide(task.net, task.grid, task.last, InSync(adapter), InSync(copy),
                Taken("handler", safe), market, reads["handler"].position)
      /\ UNCHANGED <<mode, market, venue>>
  BY DEF AutoReconcile
<1>2. /\ task.net \in Int /\ task.grid \in BOOLEAN /\ task.last \in Nat /\ task.last > 0
      /\ reads["handler"].position \in Int /\ peak \in Nat
  BY <1>1 DEF Inv, Types, TaskOK, Task, Reading, Read
<1>3. Taken("handler", safe) \in Snapshot
  BY ReadTypes DEF Inv
<1>4. peak' \in Nat /\ TaskOK(task') /\ task'.pc # "post"
  BY <1>1, <1>2, <1>3, DecideOK
<1> QED
  BY <1>1, <1>3, <1>4, ReconcileKeeps

\* OrderExecutionGate.check at the price m: what it admits fits the limit.
LEMMA PriceKeeps ==
  ASSUME Inv, task.pc \in {"lock", "quote"}, NEW m, Priced(m), Priced(market'),
         UNCHANGED <<mode, venue, ledger, peak, reads, missed>>,
         Increasing(task.class) => snapshot.fresh /\ adapter = "READY",
         Price(m)
  PROVE  Inv'
<1>1. CASE ~order_gate_price(task.class, task.qty, m)
  BY <1>1, EndsKeep DEF Price
<1>2. CASE order_gate_price(task.class, task.qty, m)
  <2> DEFINE q == normalize_quantity(Abs(task.qty))
             v == Sgn(task.qty) * q
             P == Abs(account.position)
             L == Abs(ledger.qty)
  <2>1. /\ task' = [task EXCEPT !.pc = "post", !.qty = v]
        /\ UNCHANGED <<adapter, snapshot, account, rest, echo, filled>>
    BY <1>2 DEF Price, venue
  <2>2. task.qty \in Int /\ task \in Task
    BY DEF Inv, TaskOK, Task
  <2>3. q \in Nat /\ q >= Step
    <3>1. q \in Int
      BY <2>2, SgnAbs, EngineAssumption DEF normalize_quantity
    <3>2. q >= Step
      BY <1>2 DEF order_gate_price
    <3> QED
      BY <3>1, <3>2, EngineAssumption
  <2>4. Increasing(task.class) =>
          ~ledger.open /\ L * ledger.mark + q * Quoted(m, task.qty) <= max_total_open_notional
    BY <1>2 DEF order_gate_price
  <2> HIDE DEF q
  <2>5. v \in Int /\ Abs(v) \in Nat /\ Abs(v) <= q
    <3>1. Sgn(task.qty) \in {-1, 0, 1}
      BY <2>2, SgnAbs
    <3> QED
      BY <2>3, <3>1 DEF Abs
  <2> HIDE DEF v
  <2>6. /\ task' \in Task /\ task'.pc = "post" /\ task'.qty = v /\ task'.class = task.class
        /\ task'.toxic = task.toxic
    BY <2>1, <2>2, <2>5 DEF Task
  <2>7. TaskOK(task')
    BY <2>6 DEF Inv, TaskOK
  <2>8. /\ P \in Nat /\ L \in Nat /\ missed \in Nat /\ ledger.mark \in Marks
        /\ max_total_open_notional \in Nat
    BY SgnAbs, LimitType DEF Inv, Types, Account, Ledger
  <2>9. Increasing(task.class) => ~Resting /\ P <= L + missed
    BY <2>4 DEF Inv, RestOK, Evidence
  <2>10. /\ Quoted(m, task.qty) \in Nat
         /\ \E b \in Prices : b <= Quoted(m, task.qty)
    <3>1. PICK b \in Prices : b <= m.bid
      BY DEF Priced
    <3>2. b \in Nat /\ m.bid \in Nat /\ m.ask \in Nat /\ m.bid <= m.ask
      BY PricesPositive DEF Priced
    <3> QED
      BY <3>1, <3>2 DEF Quoted
  <2> HIDE DEF P, L
  <2>11. Increasing(task.class) => Fits(P + q, missed, max_total_open_notional)
    BY <2>3, <2>4, <2>8, <2>9, <2>10, FitsSum
  <2>12. Increasing(task.class) => Fits(P + Abs(v), missed, max_total_open_notional)
    <3>1. P + q \in Nat /\ P + Abs(v) \in Nat /\ P + Abs(v) <= P + q
      BY <2>3, <2>5, <2>8
    <3> QED
      BY <2>8, <2>11, <3>1, FitsLess
  <2>13. max_total_open_notional' = max_total_open_notional /\ (Resting' <=> Resting)
    BY <2>1 DEF max_total_open_notional, Resting
  <2>14. Exposed'
    BY <2>1, <2>6, <2>9, <2>12, <2>13 DEF Inv, Exposed, P
  <2>15. Types' /\ RestOK' /\ Evidence(snapshot, adapter, ledger, account.position, missed)'
    BY <2>1, <2>13 DEF Inv, Types, RestOK, Evidence
  <2> QED
    BY <2>7, <2>14, <2>15 DEF Inv
<1> QED
  BY <1>1, <1>2

\* A new order at the exchange: the ledger has it open, and what it can add
\* fits unless it only reduces.
LEMMA AcceptKeeps ==
  ASSUME Inv, NEW order \in Orders, Accept(order), order.toxic => order.reduce,
         ~order.reduce =>
           Fits(Abs(account.position) + Abs(order.qty), missed, max_total_open_notional),
         UNCHANGED <<mode, market, snapshot, peak, missed>>,
         reads' \in Reading, ledger' \in Ledger, ledger'.open,
         TaskOK(task'), task'.pc # "post"
  PROVE  Inv'
<1>1. /\ rest' = order /\ echo' = [echo EXCEPT !.ended = FALSE]
      /\ UNCHANGED <<account, filled>>
  BY DEF Accept
<1>2. echo' \in Echoes /\ ~echo'.ended
  BY <1>1 DEF Inv, Types, Echoes
<1>3. Types'
  BY <1>1, <1>2 DEF Inv, Types
<1>4. RestOK'
  BY <1>1, <1>2 DEF RestOK
<1>5. Evidence(snapshot, adapter, ledger, account.position, missed)'
  BY DEF Evidence
<1>6. max_total_open_notional' = max_total_open_notional
  BY DEF max_total_open_notional
<1>7. Exposed'
  BY <1>1, <1>6 DEF Inv, Exposed
<1> QED
  BY <1>3, <1>4, <1>5, <1>7 DEF Inv

\* The worker's order.
LEMMA PostKeeps == ASSUME Inv, Post PROVE Inv'
<1>1. /\ task.pc = "post" /\ Accept(Order)
      /\ ledger' = [ledger EXCEPT !.open = TRUE]
      /\ reads' = [reads EXCEPT !["other"].seen = FALSE]
      /\ task' = [task EXCEPT !.pc = "settle"]
      /\ UNCHANGED <<mode, market, snapshot, peak, missed>>
  BY DEF Post
<1>2. Order \in Orders
  BY DEF Inv, TaskOK, Task, Order, Orders, Reducing
<1>3. /\ Order.qty = task.qty /\ Order.reduce = Reducing(task.class) /\ Order.toxic = task.toxic
  BY DEF Order
<1>4. /\ Order.toxic => Order.reduce
      /\ ~Order.reduce => Fits(Abs(account.position) + Abs(Order.qty), missed,
                               max_total_open_notional)
  BY <1>1, <1>3 DEF Inv, TaskOK, Exposed
<1>5. ledger' \in Ledger /\ ledger'.open
  BY <1>1 DEF Inv, Types, Ledger
<1>6. reads' \in Reading
  <2>1. reads["other"] \in Read
    BY DEF Inv, Types, Reading
  <2>2. [reads["other"] EXCEPT !.seen = FALSE] \in Read
    BY <2>1 DEF Read
  <2> QED
    BY <1>1, <2>2, ReadTypes DEF Inv
<1>7. task' \in Task /\ task'.pc = "settle"
  BY <1>1 DEF Inv, TaskOK, Task
<1>8. TaskOK(task') /\ task'.pc # "post"
  BY <1>7 DEF TaskOK
<1> QED
  BY <1>1, <1>2, <1>4, <1>5, <1>6, <1>8, AcceptKeeps

\* execute_decision: an increase needs the evidence, and a fresh price.
LEMMA ExecuteKeeps == ASSUME Inv, execute_decision PROVE Inv'
<1>1. /\ task.pc = "lock"
      /\ UNCHANGED <<mode, market, venue, ledger, peak, reads, missed>>
  BY DEF execute_decision, recon
<1>2. Priced(market) /\ Priced(market')
  BY <1>1 DEF Inv, Types
<1>3. CASE Returns(adapter)
  BY <1>1, <1>2, <1>3, EndsKeep
<1>4. CASE ~Returns(adapter)
  <2>1. /\ _evaluate_execution_gate(task.class, adapter, snapshot, market, engine)
        /\ order_gate_account(task.class)
        /\ IF market.fresh THEN Price(market)
           ELSE task' = [task EXCEPT !.pc = "quote"] /\ UNCHANGED <<adapter, snapshot>>
    BY <1>4 DEF execute_decision
  <2>2. /\ Increasing(task.class) => snapshot.fresh /\ adapter = "READY" /\ market.fresh
    BY <2>1 DEF _evaluate_execution_gate, order_gate_account, is_account_snapshot_ready
  <2>3. CASE market.fresh
    BY <1>1, <1>2, <2>1, <2>2, <2>3, PriceKeeps
  <2>4. CASE ~market.fresh
    <3>1. task' = [task EXCEPT !.pc = "quote"] /\ UNCHANGED <<adapter, snapshot>>
      BY <2>1, <2>4
    <3>2. task \in Task /\ Reducing(task.class)
      BY <1>1, <2>2, <2>4 DEF Inv, TaskOK
    <3>3. task' \in Task /\ task'.pc = "quote" /\ task'.class = task.class
          /\ task'.toxic = task.toxic
      BY <3>1, <3>2 DEF Task
    <3>4. TaskOK(task') /\ task'.pc # "post"
      BY <3>2, <3>3 DEF TaskOK
    <3>5. UNCHANGED <<account, rest, echo, filled>> /\ Abs(account.position) \in Nat
      BY <1>1, SgnAbs DEF venue, Inv, Types, Account
    <3> QED
      BY <1>1, <1>2, <3>1, <3>4, <3>5, Quiet DEF Inv, Types, RestOK
  <2> QED
    BY <2>3, <2>4
<1> QED
  BY <1>3, <1>4

\* The steps of the handler.
LEMMA HandlerKeeps == ASSUME Inv, Handler PROVE Inv'
<1> USE DEF recon
<1>1. ASSUME NEW open \in BOOLEAN, NEW safe \in BOOLEAN, NEW mark \in Marks,
             \/ AutoReconcile(open, safe, mark) \/ Settle(open, safe, mark)
             \/ KillReconciles(open, safe, mark)
      PROVE  Inv'
  <2>1. CASE Settle(open, safe, mark) \/ KillReconciles(open, safe, mark)
    <3>1. /\ reconcile("handler", open, safe, mark) /\ snapshot' = Taken("handler", safe)
          /\ task' = Idle /\ UNCHANGED <<mode, market, venue, peak>>
      BY <2>1 DEF Settle, KillReconciles
    <3>2. snapshot' \in Snapshot /\ peak' \in Nat
      BY <3>1, ReadTypes DEF Inv, Types
    <3> QED
      BY <3>1, <3>2, IdleOK, ReconcileKeeps
  <2> QED
    BY <1>1, <2>1, AutoReconcileKeeps
<1>2. ASSUME NEW seeded \in BOOLEAN, NEW open \in BOOLEAN, NEW mark \in Marks,
             \/ AutoReconcileFails(seeded, mark) \/ SettleFails(open, seeded, mark)
             \/ KillUnverified(seeded, mark)
      PROVE  Inv'
  <2>1. CASE AutoReconcileFails(seeded, mark) \/ KillUnverified(seeded, mark)
    <3>1. /\ Unreconciled("handler", seeded, mark) /\ task' = Idle
          /\ adapter' = Unverified(adapter)
          /\ UNCHANGED <<mode, market, venue, snapshot, peak>>
      BY <2>1 DEF AutoReconcileFails, KillUnverified
    <3>2. adapter' # "READY"
      BY <3>1 DEF Unverified
    <3> QED
      BY <3>1, <3>2, IdleOK, UnreconciledKeeps
  <2>2. CASE SettleFails(open, seeded, mark)
    <3>1. /\ task' = [Idle EXCEPT !.pc = "kill"] /\ snapshot' = NoSnapshot
          /\ UNCHANGED <<mode, market, venue, peak>>
          /\ \/ Unreconciled("handler", seeded, mark)
             \/ reconcile("handler", open, TRUE, mark)
      BY <2>2 DEF SettleFails, FailClosedTo
    <3>2. snapshot' \in Snapshot /\ peak' \in Nat
      BY <3>1, ReadTypes DEF Inv, Types
    <3>3. CASE Unreconciled("handler", seeded, mark)
      BY <3>1, <3>3, IdleOK, UnreconciledKeeps
    <3>4. CASE reconcile("handler", open, TRUE, mark)
      BY <3>1, <3>2, <3>4, IdleOK, ReconcileKeeps
    <3> QED
      BY <3>1, <3>3, <3>4
  <2> QED
    BY <1>2, <2>1, <2>2
<1>3. ASSUME NEW b \in Books, NEW d \in Depths, get_best_bid_ask(b, d) PROVE Inv'
  <2>1. /\ task.pc = "quote" /\ market' = _record_rest_market_sample(b, d) /\ Price(market')
        /\ UNCHANGED <<mode, venue, ledger, peak, reads, missed>>
    BY <1>3 DEF get_best_bid_ask
  <2>2. Priced(market') /\ ~Increasing(task.class)
    BY <2>1, MarketPriced DEF Inv, TaskOK, Increasing, Reducing
  <2>3. Price(_record_rest_market_sample(b, d)) /\ Priced(_record_rest_market_sample(b, d))
    BY <2>1, MarketPriced
  <2> QED
    BY <2>1, <2>2, <2>3, PriceKeeps
<1>4. CASE HandlerReads
  BY <1>4, FetchKeeps DEF HandlerReads
<1>5. CASE QuoteFails \/ NotAdmitted \/ PostRejected \/ PostAmbiguous
  <2>1. /\ UNCHANGED <<mode, market, venue, ledger, peak, reads, missed>>
        /\ (\E state : FailClosedTo(state)) \/ Returns(adapter)
    BY <1>5 DEF QuoteFails, NotAdmitted, PostRejected, PostAmbiguous, FailClosed
  <2>2. Priced(market')
    BY <2>1 DEF Inv, Types
  <2> QED
    BY <2>1, <2>2, EndsKeep
<1> QED
  BY <1>1, <1>2, <1>3, <1>4, <1>5, ExecuteKeeps, PostKeeps DEF Handler

----------------------------------------------------------------------------
(* The rest of the system.                                                 *)

\* The reconciliations beside the handler.
LEMMA BesideKeeps == ASSUME Inv, Beside PROVE Inv'
<1>1. ASSUME NEW open \in BOOLEAN, NEW safe \in BOOLEAN, NEW mark \in Marks,
             Verified(open, safe, mark)
      PROVE  Inv'
  <2>1. /\ reconcile("other", open, safe, mark) /\ snapshot' = Taken("other", safe)
        /\ UNCHANGED <<mode, market, venue, peak, task>>
    BY <1>1 DEF Verified
  <2>2. snapshot' \in Snapshot /\ peak' \in Nat /\ TaskOK(task')
    BY <2>1, ReadTypes DEF Inv, Types
  <2> QED
    BY <2>1, <2>2, ReconcileKeeps
<1>2. ASSUME NEW seeded \in BOOLEAN, NEW mark \in Marks, OtherFails(seeded, mark)
      PROVE  Inv'
  <2>1. /\ Unreconciled("other", seeded, mark) /\ adapter' # "READY"
        /\ UNCHANGED <<mode, market, venue, snapshot, peak, task>>
    BY <1>2 DEF OtherFails, Unverified
  <2>2. TaskOK(task')
    BY <2>1 DEF Inv
  <2> QED
    BY <2>1, <2>2, UnreconciledKeeps
<1>3. CASE OtherReads
  BY <1>3, FetchKeeps DEF OtherReads
<1>4. ASSUME NEW open \in BOOLEAN, NEW safe \in BOOLEAN, NEW mark \in Marks,
             \/ StreamVerified(open, safe, mark) \/ CommandVerified(open, safe, mark)
             \/ ContinuationVerified(open, safe, mark) \/ FlattenVerified(open, safe, mark)
      PROVE  Verified(open, safe, mark)
  BY <1>4 DEF StreamVerified, CommandVerified, ContinuationVerified, FlattenVerified
<1> QED
  BY <1>1, <1>2, <1>3, <1>4 DEF Beside

\* The exchange matches the order: what it adds was counted when it was gated.
LEMMA FillKeeps == ASSUME Inv, Fill PROVE Inv'
<1> DEFINE to == FilledTo(rest)
           limit == max_total_open_notional
<1>1. /\ Resting /\ account' = [account EXCEPT !.position = to] /\ rest' = NoOrder
      /\ filled' = IF to = account.position THEN filled ELSE Least(MaxGridLevels, filled + 1)
      /\ echo' = [pending |-> TRUE, ended |-> TRUE]
      /\ UNCHANGED <<mode, market, ledger, snapshot, peak, adapter, task, reads, missed>>
  BY DEF Fill, recon
<1>2. /\ account \in Account /\ rest \in Orders /\ filled \in Nat /\ missed \in Nat
      /\ rest.reduce \in BOOLEAN /\ limit \in Nat
      /\ Abs(account.position) \in Nat /\ Abs(rest.qty) \in Nat
  BY SgnAbs, LimitType DEF Inv, Types, Account, Orders
<1>3. /\ to \in Int /\ Abs(to) <= Abs(account.position) + Abs(rest.qty)
      /\ rest.reduce => Abs(to) <= Abs(account.position)
  BY <1>2, Matched
<1> HIDE DEF to, limit
<1>4. Abs(to) \in Nat
  BY <1>3, SgnAbs
<1>5. account' \in Account /\ account'.position = to
  BY <1>1, <1>2, <1>3 DEF Account
<1>6. filled' \in Nat /\ echo' \in Echoes /\ rest' \in Orders /\ rest'.qty = 0
      /\ ~rest'.toxic
  <2>1. filled' \in Nat
    BY <1>1, <1>2, EngineAssumption DEF Least
  <2> QED
    BY <1>1, <2>1 DEF Echoes, NoOrder, Orders
<1>7. Types'
  BY <1>1, <1>5, <1>6 DEF Inv, Types
<1>8. ~Resting' /\ RestOK'
  BY <1>6 DEF Resting, RestOK
<1>9. ledger'.open /\ Evidence(snapshot, adapter, ledger, account.position, missed)'
  BY <1>1 DEF Inv, RestOK, Evidence
<1>10. limit' = limit
  BY <1>1 DEF limit, max_total_open_notional
<1>11. Fits(Abs(to), missed, limit)
  <2>1. CASE rest.reduce
    BY <1>2, <1>3, <1>4, <2>1, FitsLess DEF Inv, Exposed, limit
  <2>2. CASE ~rest.reduce
    <3>1. Fits(Abs(account.position) + Abs(rest.qty), missed, limit)
      BY <1>1, <2>2 DEF Inv, Exposed, limit
    <3>2. Abs(account.position) + Abs(rest.qty) \in Nat
      BY <1>2
    <3> QED
      BY <1>2, <1>3, <1>4, <3>1, <3>2, FitsLess
  <2> QED
    BY <1>2, <2>1, <2>2
<1>12. ~(task'.pc = "post" /\ Increasing(task'.class))
  BY <1>1 DEF Inv, Exposed
<1>13. Exposed'
  BY <1>1, <1>5, <1>8, <1>10, <1>11, <1>12 DEF Exposed, limit
<1> QED
  BY <1>1, <1>7, <1>8, <1>9, <1>13 DEF Inv

\* Time, the exchange and the private stream.
LEMMA EnvironmentKeeps == ASSUME Inv, Environment PROVE Inv'
<1> USE DEF venue, recon
<1>1. /\ account \in Account /\ account.position \in Int /\ Abs(account.position) \in Nat
      /\ peak \in Nat /\ reads \in Reading /\ echo \in Echoes /\ Priced(market)
      /\ TaskOK(task) /\ (Resting => ~echo.ended) /\ missed \in Nat
  BY SgnAbs DEF Inv, Types, Account, RestOK
<1>2. NoSnapshot \in Snapshot /\ ~NoSnapshot.fresh
      /\ NoEcho \in Echoes /\ ~NoEcho.ended
  BY DEF NoSnapshot, Snapshot, NoEcho, Echoes
<1>3. CASE MarketAges
  <2>1. Priced(market')
    BY <1>1, <1>3 DEF MarketAges, Priced
  <2> QED
    BY <1>1, <1>3, <2>1, Quiet DEF MarketAges
<1>4. CASE SnapshotAges
  BY <1>1, <1>4, Quiet DEF SnapshotAges
<1>5. CASE NewDay \/ \E e \in Equities : EquityMoves(e)
  <2>1. account' \in Account /\ account'.position = account.position
    BY <1>1, <1>5, PipelineAssumption DEF NewDay, EquityMoves, Account
  <2> QED
    BY <1>1, <1>5, <2>1, Quiet DEF NewDay, EquityMoves
<1>6. ASSUME NEW to \in {0, -account.position, account.position \div 2}, OutsideTrade(to)
      PROVE  Inv'
  <2>1. to \in Int
    BY <1>1
  <2>2. account' \in Account /\ account'.position = to /\ echo' \in Echoes
        /\ echo'.ended = echo.ended
    BY <1>1, <1>6, <2>1 DEF OutsideTrade, Account, Echoes
  <2> QED
    BY <1>1, <1>6, <2>2, Quiet DEF OutsideTrade
<1>7. CASE _on_ws_event
  <2>1. /\ ledger' = [ledger EXCEPT !.qty = account.position, !.filled = filled,
                                    !.open = ledger.open /\ ~echo.ended]
        /\ echo' = NoEcho /\ snapshot' = NoSnapshot
        /\ UNCHANGED <<mode, market, account, rest, filled, peak, task, reads, missed>>
    BY <1>7 DEF _on_ws_event
  <2>2. ledger' \in Ledger /\ ledger'.open = (ledger.open /\ ~echo.ended)
    BY <1>1, <2>1 DEF Inv, Types, Ledger, Echoes
  <2>3. Types'
    BY <1>2, <2>1, <2>2 DEF Inv, Types
  <2>4. Resting => ledger'.open /\ ~echo'.ended
    BY <1>2, <2>1, <2>2 DEF Inv, RestOK
  <2>5. Evidence(snapshot, adapter, ledger, account.position, missed)'
    BY <1>2, <2>1 DEF Evidence
  <2> QED
    BY <1>1, <2>1, <2>3, <2>4, <2>5, Kept
<1>8. CASE _on_user_stream_disconnect \/ _on_user_stream_reconnected
  <2>1. reads' \in Reading /\ echo' = NoEcho
    BY <1>1, <1>8, ReadTypes DEF _on_user_stream_disconnect, _on_user_stream_reconnected, Inv
  <2> QED
    BY <1>1, <1>2, <1>8, <2>1, Quiet
    DEF _on_user_stream_disconnect, _on_user_stream_reconnected
<1>9. CASE _sync_adapter_state
  BY <1>1, <1>9, Quiet DEF _sync_adapter_state
<1> QED
  BY <1>3, <1>4, <1>5, <1>6, <1>7, <1>8, <1>9, FillKeeps DEF Environment

\* The operator's commands.
LEMMA OperatorKeeps == ASSUME Inv, Operator PROVE Inv'
<1> USE DEF venue, recon
<1>1. /\ account \in Account /\ account.position \in Int /\ Abs(account.position) \in Nat
      /\ peak \in Nat /\ reads \in Reading /\ echo \in Echoes /\ Priced(market)
      /\ TaskOK(task) /\ (Resting => ~echo.ended) /\ missed \in Nat /\ ledger \in Ledger
      /\ ledger.open \in BOOLEAN
  BY SgnAbs DEF Inv, Types, Account, RestOK, Ledger
<1>2. ASSUME NEW b \in BOOLEAN, set_pause_new_risk(b) \/ set_recovery_only(b) PROVE Inv'
  BY <1>1, <1>2, Quiet DEF set_pause_new_risk, set_recovery_only
<1>3. CASE set_kill_switch
  BY <1>1, <1>3, Quiet DEF set_kill_switch
<1>4. ASSUME NEW command, Reads(command) PROVE Inv'
  <2>1. reads' \in Reading /\ adapter' # "READY"
    BY <1>4, ReadTypes DEF Reads, Inv, Unverified
  <2> QED
    BY <1>1, <1>4, <2>1, Quiet DEF Reads
<1>5. CASE trigger_reconciliation \/ release_kill_switch \/ continue_autonomous
  BY <1>4, <1>5 DEF trigger_reconciliation, release_kill_switch, continue_autonomous
<1>6. ASSUME NEW mark \in Marks, NEW sent \in BOOLEAN, emergency_flatten(mark, sent)
      PROVE  Inv'
  <2> DEFINE order == [NoOrder EXCEPT !.qty = -account.position]
  <2>1. /\ ledger' = [ledger EXCEPT !.qty = account.position, !.mark = mark,
                                    !.open = ledger.open \/ sent]
        /\ task.pc # "post"
        /\ UNCHANGED <<mode, market, snapshot, peak, adapter, task, missed>>
        /\ \/ sent /\ Accept(order) /\ reads' = [reads EXCEPT !["handler"].seen = FALSE]
           \/ ~sent /\ UNCHANGED <<venue, reads>>
    BY <1>6 DEF emergency_flatten
  <2>2. /\ ledger' \in Ledger /\ ledger'.open = (ledger.open \/ sent)
        /\ ledger'.qty = account.position
    BY <1>1, <2>1 DEF Ledger
  <2>3. CASE sent
    <3>1. order \in Orders /\ order.reduce /\ ~order.toxic
      <4>1. NoOrder \in Orders /\ NoOrder.reduce = TRUE /\ NoOrder.toxic = FALSE
        BY DEF NoOrder, Orders
      <4>2. -account.position \in Int
        BY <1>1
      <4> QED
        BY <4>1, <4>2 DEF Orders
    <3>2. reads' \in Reading
      <4>1. [reads["handler"] EXCEPT !.seen = FALSE] \in Read
        BY <1>1 DEF Reading, Read
      <4> QED
        BY <2>1, <2>3, <4>1, ReadTypes DEF Inv
    <3> HIDE DEF order
    <3> QED
      BY <1>1, <2>1, <2>2, <2>3, <3>1, <3>2, AcceptKeeps
  <2>4. CASE ~sent
    <3>1. UNCHANGED <<account, rest, echo, filled, reads>>
      BY <2>1, <2>4
    <3>2. Types'
      BY <2>1, <2>2, <3>1 DEF Inv, Types
    <3>3. Evidence(snapshot, adapter, ledger, account.position, missed)'
      BY <1>1, <2>1, <2>2, <3>1 DEF Evidence
    <3>4. Resting => ledger'.open /\ ~echo'.ended
      BY <1>1, <2>2, <3>1 DEF Inv, RestOK
    <3> QED
      BY <1>1, <2>1, <3>1, <3>2, <3>3, <3>4, Kept
  <2> QED
    BY <2>3, <2>4
<1> QED
  BY <1>2, <1>3, <1>5, <1>6 DEF Operator

----------------------------------------------------------------------------
(* The theorems.                                                           *)

\* ARM has read a flat account and the book.
LEMMA InitInv == ASSUME Init PROVE Inv
<1>1. /\ account = [equity |-> Start, open |-> Start, position |-> 0, foreign |-> FALSE]
      /\ rest = NoOrder /\ echo = NoEcho
      /\ snapshot = [fresh |-> TRUE, equity |-> Start, loss |-> 0, safe |-> TRUE]
      /\ peak = Start /\ task = Idle /\ filled = 0 /\ missed = 0
      /\ reads = [by \in {"handler", "other"} |-> NoRead]
  BY DEF Init
<1>2. PICK m \in Marks : ledger = [qty |-> 0, mark |-> m, filled |-> 0, open |-> FALSE]
  BY DEF Init
<1>3. Priced(market)
  BY MarketPriced DEF Init
<1>4. Start \in Nat
  BY PipelineAssumption
<1>5. account \in Account /\ account.position = 0
  BY <1>1, <1>4 DEF Account
<1>6. rest \in Orders /\ ~Resting /\ ~rest.toxic
  BY <1>1 DEF NoOrder, Orders, Resting
<1>7. ledger \in Ledger /\ ledger.qty = 0
  BY <1>2 DEF Ledger
<1>8. snapshot \in Snapshot
  BY <1>1, <1>4 DEF Snapshot
<1>9. echo \in Echoes /\ reads \in Reading
  BY <1>1 DEF NoEcho, Echoes, NoRead, Read, Reading
<1>10. Types
  BY <1>1, <1>3, <1>4, <1>5, <1>6, <1>7, <1>8, <1>9 DEF Types
<1>11. Abs(0) = 0
  BY DEF Abs
<1>12. Fits(0, 0, max_total_open_notional)
  BY PricesPositive, LimitType DEF Fits
<1>13. Exposed
  BY <1>1, <1>5, <1>6, <1>11, <1>12, IdleOK DEF Exposed
<1> QED
  BY <1>1, <1>5, <1>6, <1>7, <1>10, <1>11, <1>13, IdleOK DEF Inv, RestOK, Evidence

\* Every step, and a step that changes nothing.
LEMMA NextKeeps == ASSUME Inv, [Next]_vars PROVE Inv'
<1>1. CASE UNCHANGED vars
  <2>1. /\ UNCHANGED <<mode, market, account, rest, echo, filled, ledger, snapshot, peak,
                       adapter, task, reads, missed>>
    BY <1>1 DEF vars, venue, recon
  <2>2. Abs(account.position) \in Nat
    BY SgnAbs DEF Inv, Types, Account
  <2> QED
    BY <2>1, <2>2, Quiet DEF Inv, Types, RestOK
<1> QED
  BY <1>1, EventKeeps, HandlerKeeps, BesideKeeps, EnvironmentKeeps, OperatorKeeps DEF Next

\* The pipeline keeps its types, an order in the handler or at the exchange only
\* reduces when it was decided in a drawdown, and a ledger an order may be gated
\* on shows all of the position but what an IN_SYNC verdict has missed
\* (reconcile, _on_ws_event, OrderExecutionGate.check).
THEOREM PipelineInvariant == Spec => []Inv
  BY InitInv, NextKeeps, PTL DEF Spec

\* An order decided in a drawdown of 2% or more never grows the position,
\* whatever happens between the decision and the match.
THEOREM ToxicNeverAddsHolds == Spec => ToxicNeverAdds
<1>1. ASSUME Inv, [Next]_vars
      PROVE  [rest.toxic => Abs(account'.position) <= Abs(account.position)]_vars
  <2> SUFFICES ASSUME rest.toxic PROVE Abs(account'.position) <= Abs(account.position)
    OBVIOUS
  <2>1. /\ account \in Account /\ rest \in Orders /\ rest.reduce
        /\ account.position \in Int /\ Abs(account.position) \in Nat
    BY <1>1, SgnAbs DEF Inv, Types, RestOK, Account
  <2>2. CASE account'.position = account.position
    BY <2>1, <2>2
  <2>3. CASE Fill
    <3>1. FilledTo(rest) \in Int /\ Abs(FilledTo(rest)) <= Abs(account.position)
      BY <2>1, Matched
    <3>2. account'.position = FilledTo(rest)
      BY <2>1, <2>3, <3>1 DEF Fill, Account
    <3> QED
      BY <3>1, <3>2
  <2>4. CASE \E to \in {0, -account.position, account.position \div 2} : OutsideTrade(to)
    <3>1. PICK to \in {0, -account.position, account.position \div 2} : OutsideTrade(to)
      BY <2>4
    <3>2. account'.position = to
      BY <2>1, <3>1 DEF OutsideTrade, Account
    <3> QED
      BY <3>1, <3>2 DEF OutsideTrade
  <2>5. CASE NewDay \/ \E e \in Equities : EquityMoves(e)
    <3>1. account'.position = account.position
      BY <2>1, <2>5 DEF NewDay, EquityMoves, Account
    <3> QED
      BY <3>1, <2>2
  <2>6. UNCHANGED account \/ Fill \/ NewDay \/ (\E e \in Equities : EquityMoves(e))
          \/ \E to \in {0, -account.position, account.position \div 2} : OutsideTrade(to)
    <3> USE DEF venue
    <3>1. ASSUME Handler PROVE UNCHANGED account
      <4>1. ASSUME NEW open \in BOOLEAN, NEW safe \in BOOLEAN, NEW mark \in Marks,
                   \/ AutoReconcile(open, safe, mark) \/ Settle(open, safe, mark)
                   \/ KillReconciles(open, safe, mark)
            PROVE  UNCHANGED venue
        BY <4>1 DEF AutoReconcile, Settle, KillReconciles
      <4>2. ASSUME NEW seeded \in BOOLEAN, NEW open \in BOOLEAN, NEW mark \in Marks,
                   \/ AutoReconcileFails(seeded, mark) \/ SettleFails(open, seeded, mark)
                   \/ KillUnverified(seeded, mark)
            PROVE  UNCHANGED venue
        BY <4>2 DEF AutoReconcileFails, SettleFails, KillUnverified
      <4>3. ASSUME NEW b \in Books, NEW d \in Depths, get_best_bid_ask(b, d)
            PROVE  UNCHANGED venue
        BY <4>3 DEF get_best_bid_ask
      <4>4. CASE HandlerReads \/ execute_decision \/ QuoteFails \/ NotAdmitted
                   \/ PostRejected \/ PostAmbiguous
        BY <4>4 DEF HandlerReads, Fetch, execute_decision, QuoteFails, NotAdmitted,
          PostRejected, PostAmbiguous
      <4>5. CASE Post
        BY <4>5 DEF Post, Accept
      <4> QED
        BY <3>1, <4>1, <4>2, <4>3, <4>4, <4>5 DEF Handler
    <3>2. ASSUME Beside PROVE UNCHANGED account
      BY <3>2 DEF Beside, OtherReads, Fetch, StreamVerified, CommandVerified,
        ContinuationVerified, FlattenVerified, Verified, OtherFails
    <3>3. ASSUME Operator PROVE UNCHANGED account
      <4>1. ASSUME NEW b \in BOOLEAN, set_pause_new_risk(b) \/ set_recovery_only(b)
            PROVE  UNCHANGED venue
        BY <4>1 DEF set_pause_new_risk, set_recovery_only
      <4>2. ASSUME NEW command, Reads(command) PROVE UNCHANGED venue
        BY <4>2 DEF Reads
      <4>3. ASSUME NEW mark \in Marks, NEW sent \in BOOLEAN, emergency_flatten(mark, sent)
            PROVE  UNCHANGED account
        BY <4>3 DEF emergency_flatten, Accept
      <4>4. CASE set_kill_switch
        BY <4>4 DEF set_kill_switch
      <4>5. CASE trigger_reconciliation \/ release_kill_switch \/ continue_autonomous
        BY <4>2, <4>5 DEF trigger_reconciliation, release_kill_switch, continue_autonomous
      <4> QED
        BY <3>3, <4>1, <4>3, <4>4, <4>5 DEF Operator
    <3>4. ASSUME NEW timely \in BOOLEAN, Event(timely) PROVE UNCHANGED account
      BY <3>4 DEF Event, handle_market_event
    <3>5. ASSUME Environment
          PROVE  UNCHANGED account \/ Fill \/ NewDay \/ (\E e \in Equities : EquityMoves(e))
                   \/ \E to \in {0, -account.position, account.position \div 2} : OutsideTrade(to)
      BY <3>5 DEF Environment, MarketAges, SnapshotAges, _on_ws_event,
        _on_user_stream_disconnect, _on_user_stream_reconnected, _sync_adapter_state
    <3>6. ASSUME UNCHANGED vars PROVE UNCHANGED account
      BY <3>6 DEF vars
    <3> QED
      BY <1>1, <3>1, <3>2, <3>3, <3>4, <3>5, <3>6 DEF Next
  <2> QED
    BY <2>2, <2>3, <2>4, <2>5, <2>6
<1> QED
  BY <1>1, PipelineInvariant, PTL DEF Spec, ToxicNeverAdds

\* The position at the exchange passes the total limit at most by what one
\* IN_SYNC verdict missed of it.
THEOREM ExposureBounded == Spec => []ExposureIsBounded
<1>1. Inv => ExposureIsBounded
  BY DEF Inv, Exposed, Fits, ExposureIsBounded
<1> QED
  BY <1>1, PipelineInvariant, PTL
=============================================================================
