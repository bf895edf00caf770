-------------------------- MODULE DecisionPipeline --------------------------
(***************************************************************************)
(* The worker's decision pipeline on one instrument: handle_market_event   *)
(* from the public stream's event to the order, through the market cache,  *)
(* the account snapshot, the decision engine, the launch readiness and the *)
(* two execution gates, while the account, the operator and the private    *)
(* stream go on.                                                           *)
(*                                                                         *)
(* The public stream awaits the handler, so one event is in the pipeline   *)
(* at a time.  The handler suspends at the automatic reconciliation, at    *)
(* the mutation lock, at a REST quote, at the durable barrier with the     *)
(* POST, and at the reconciliation after it; an action is what happens     *)
(* between two of these.  A reconciliation is two steps: it reads the      *)
(* account, and later concludes from what it has read.  The handler's and  *)
(* that of one command or callback beside it may overlap.  Configuration,  *)
(* credentials, symbol rules, lease and release approval are in order      *)
(* throughout.                                                             *)
(***************************************************************************)
EXTENDS DecisionEngine

CONSTANTS
  Modes,     \* the execution modes of the instance: TESTNET, LIVE
  Books,     \* <<bid, ask>> quotes of the book
  Marks,     \* mark prices
  Depths,    \* top-of-book sizes a REST quote shows
  Equities,  \* margin balances
  Start,     \* the margin balance at ARM
  MaxSwings, \* bound: moves of the margin balance
  MaxUpsets, \* bound: requests that fail, unsafe accounts read, trades by hand,
             \* streams lost, commands of the operator and days that begin
  MaxMoves   \* bound: upsets and accepted orders that add to the position

ASSUME PipelineAssumption ==
  /\ Modes \subseteq {"TESTNET", "LIVE"}
  /\ Equities \subseteq Nat \ {0} /\ Start \in Equities
  /\ Marks \subseteq Nat \ {0} /\ Depths \subseteq Nat
  /\ \A b \in Books : b[1] \in Nat \ {0} /\ b[2] \in Nat /\ b[2] >= b[1]
  /\ MaxSwings \in Nat /\ MaxUpsets \in Nat /\ MaxMoves \in Nat

VARIABLES
  mode,     \* execution_mode
  market,   \* the adapter's market cache
  account,  \* the account at the exchange: equity, equity at 0:00 UTC, position, and
            \* whether anyone but the worker has traded on it (external)
  rest,     \* the order the exchange has accepted and not yet matched (external)
  ledger,   \* the adapter's ledger: the position, its mark price, the orders with
            \* fills, and whether the worker's last order is NEW in it
  snapshot, \* the account snapshot
  peak,     \* session_peak_equity
  adapter,  \* READY: connected and IN_SYNC; UNVERIFIED: not IN_SYNC; DEGRADED
  stream,   \* private_stream_healthy
  copy,     \* the worker's copy of the adapter's state
  flags,    \* pause_new_risk, recovery_only, kill_switch_active
  engine,   \* engine_state
  launch,   \* the state of the launch session
  task,     \* the event being handled
  reads,    \* what the reconciliations in progress have read
  other,    \* the command or callback that reconciles beside the handler
  echo,     \* the private stream's events on their way: of a trade, and of the end
            \* of the worker's last order
  filled,   \* the worker's orders that filled, all of grid lineage by their
            \* ids, up to MaxGridLevels + 1
  entries,  \* grid orders that added to the position since it was last flat
  missed,   \* the most by which an IN_SYNC verdict has understated the position
  count     \* what the bounds bound: orders, upsets and swings so far

worker == <<copy, flags, engine>>
venue == <<account, rest, echo, filled, entries>>
recon == <<reads, other, missed>>
vars == <<mode, market, venue, ledger, snapshot, peak, adapter, stream, worker, launch,
          task, recon, count>>

NoSnapshot == [fresh |-> FALSE, equity |-> 0, loss |-> 0, safe |-> FALSE]
NoOrder == [qty |-> 0, reduce |-> TRUE, grid |-> FALSE, toxic |-> FALSE]
NoRead == [done |-> FALSE, position |-> 0, equity |-> 0, loss |-> 0, seen |-> FALSE,
           foreign |-> FALSE]
NoEcho == [pending |-> FALSE, ended |-> FALSE]
Idle == [pc |-> "idle", net |-> 0, grid |-> FALSE, class |-> "NOOP", qty |-> 0,
         last |-> 0, toxic |-> FALSE]

Resting == rest.qty # 0

\* TestnetSafetyLimits.from_environment, without overrides.
max_single_order_notional == IF mode = "LIVE" THEN 50000000 ELSE 100000000
max_total_open_notional == IF mode = "LIVE" THEN 1000000000 ELSE 100000000
max_collateral == 250
max_daily_loss == 5

----------------------------------------------------------------------------
(* The market cache.                                                       *)

\* BinancePublicWebSocket.parse_payload: a bookTicker event, or a markPrice
\* event, whose bid and ask are the mark price.
parse_payload ==
  {[last |-> b[1], bid |-> b[1], ask |-> b[2]] : b \in Books}
    \cup {[last |-> m, bid |-> m, ask |-> m] : m \in Marks}

\* The sizes stay those of the last REST quote.
record_market_event(event, timely) ==
  [market EXCEPT !.bid = event.bid, !.ask = event.ask, !.fresh = timely]

\* get_best_bid_ask: a REST quote of the book, with its sizes.
_record_rest_market_sample(book, depth) ==
  [bid |-> book[1], ask |-> book[2], fresh |-> TRUE, depth |-> depth]

\* _get_fresh_market_price for the order's side.
Quoted(m, qty) == IF qty > 0 THEN m.ask ELSE m.bid

----------------------------------------------------------------------------
(* Readiness.                                                              *)

is_account_snapshot_ready(s) == s.fresh

_is_mainnet_snapshot_risk_ready(s) ==
  s.safe /\ s.equity <= max_collateral /\ s.loss < max_daily_loss

\* _refresh_engine_state, from the worker's copy of the adapter's state.
_refresh_engine_state(c, f) ==
  IF f.kill THEN "EMERGENCY"
  ELSE IF c # "READY" THEN "DEGRADED"
  ELSE IF f.recovery THEN "RECOVERY_ONLY"
  ELSE IF f.pause THEN "PAUSED_NEW_RISK" ELSE "ARMED"

Executable == {"ARMED", "PAUSED_NEW_RISK", "RECOVERY_ONLY"}

\* testnet_autonomous_ready; live_ready for a staged or an autonomous session.
get_launch_readiness(a, s, m) ==
  /\ a = "READY"
  /\ is_account_snapshot_ready(s)
  /\ m.fresh
  /\ ~flags.kill
  /\ mode = "LIVE" =>
       /\ _is_mainnet_snapshot_risk_ready(s)
       /\ launch \in {"ACTIVE", "AUTONOMOUS_ACTIVE"}
       /\ ~flags.pause /\ ~flags.recovery

----------------------------------------------------------------------------
(* The gates.                                                              *)


\* DecisionExecutionGate.check.
_evaluate_execution_gate(class, a, s, m, state) ==
  /\ state \in Executable /\ ~flags.kill /\ a = "READY"
  /\ Increasing(class) =>
       /\ state = "ARMED" /\ ~flags.pause /\ ~flags.recovery
       /\ is_account_snapshot_ready(s) /\ s.safe
       /\ m.fresh

\* OrderExecutionGate.check of a MARKET order, up to its price,
order_gate_account(class) ==
  /\ adapter = "READY"
  /\ Increasing(class) =>
       /\ is_account_snapshot_ready(snapshot) /\ snapshot.safe
       /\ mode = "LIVE" => _is_mainnet_snapshot_risk_ready(snapshot)

\* Seeded fault: the total limit does not count the position.
order_gate_unadded(class, qty, m) ==
  LET q == normalize_quantity(Abs(qty))
      notional == q * Quoted(m, qty)
  IN
  /\ q >= Step
  /\ notional >= MinNotional
  /\ Reducing(class) => Sgn(ledger.qty) = -Sgn(qty) /\ Abs(ledger.qty) >= q
  /\ Increasing(class) =>
       /\ m.fresh /\ q <= m.depth /\ ~ledger.open
       /\ notional <= max_total_open_notional
       /\ notional <= max_single_order_notional

\* OrderExecutionGate.check from there on; max_open_orders is one.
order_gate_price(class, qty, m) ==
  LET q == normalize_quantity(Abs(qty))
      notional == q * Quoted(m, qty)
  IN
  /\ q >= Step
  /\ notional >= MinNotional
  /\ Reducing(class) => Sgn(ledger.qty) = -Sgn(qty) /\ Abs(ledger.qty) >= q
  /\ Increasing(class) =>
       /\ m.fresh /\ q <= m.depth /\ ~ledger.open
       /\ Abs(ledger.qty) * ledger.mark + notional <= max_total_open_notional
       /\ notional <= max_single_order_notional

----------------------------------------------------------------------------
(* Reconciliation.                                                         *)

Moves == count.orders + count.upsets

Upset ==
  /\ count.upsets < MaxUpsets /\ Moves < MaxMoves
  /\ count' = [count EXCEPT !.upsets = @ + 1]

Unverified(a) == IF a = "READY" THEN "UNVERIFIED" ELSE a

\* IN_SYNC says nothing of the connection.
InSync(a) == IF a = "UNVERIFIED" THEN "READY" ELSE a

\* _fetch_reconciliation_snapshot_inputs: positions, openOrders, account.
Observed ==
  [done |-> TRUE, position |-> account.position, equity |-> account.equity,
   loss |-> account.open - account.equity, seen |-> Resting, foreign |-> account.foreign]

\* reconcile, up to its reads; the status is RECONCILING.
Fetch(by) ==
  /\ ~reads[by].done
  /\ reads' = [reads EXCEPT ![by] = Observed]
  /\ adapter' = Unverified(adapter)
  /\ UNCHANGED <<mode, market, venue, ledger, snapshot, peak, stream, worker, launch, task,
                 other, missed, count>>

\* build_account_snapshot, from what was read.
Taken(by, safe) ==
  [fresh |-> TRUE, equity |-> reads[by].equity, loss |-> reads[by].loss, safe |-> safe]

\* reconcile ends IN_SYNC and writes what it has read, however old.  The
\* worker's last order stays NEW when openOrders showed it; otherwise its query
\* must show its end.
reconcile(by, open, safe, mark) ==
  LET r == reads[by] IN
  /\ r.done /\ ~r.foreign
  /\ IF safe THEN UNCHANGED count ELSE Upset
  /\ IF open THEN r.seen /\ ledger.open ELSE ~Resting
  /\ ledger' = [qty |-> r.position, mark |-> mark, filled |-> filled, open |-> open]
  /\ reads' = [reads EXCEPT ![by] = NoRead]
  /\ missed' = IF ~open /\ Abs(account.position) - Abs(r.position) > missed
               THEN Abs(account.position) - Abs(r.position) ELSE missed

\* It ends MISMATCH or UNKNOWN: a trade that is not the worker's, an order that
\* openOrders and the ledger or its query disagree about, or a request that
\* failed.  A position is seeded when an order of the worker has filled.
Unreconciled(by, seeded, mark) ==
  LET r == reads[by]
      differs == \/ account.foreign
                 \/ Resting /\ ~(r.seen /\ ledger.open)
                 \/ ~Resting /\ r.seen /\ ~ledger.open
  IN
  /\ r.done
  /\ IF differs THEN UNCHANGED count ELSE Upset
  /\ seeded => filled > 0
  /\ ledger' = IF seeded
               THEN [qty |-> r.position, mark |-> mark, filled |-> filled,
                     open |-> ledger.open /\ Resting]
               ELSE ledger
  /\ reads' = [reads EXCEPT ![by] = NoRead]
  /\ UNCHANGED missed

----------------------------------------------------------------------------
(* The ends of a handler.                                                  *)

\* _fence_autonomous_launch
Fenced == IF launch = "AUTONOMOUS_ACTIVE" THEN "REAUTH_REQUIRED" ELSE launch

\* _fail_closed_after_autonomous_execution_error with set_kill_switch(True),
\* up to its cancellations and its reconciliation.
FailClosedTo(state) ==
  /\ task' = [Idle EXCEPT !.pc = "kill"]
  /\ adapter' = "DEGRADED" /\ copy' = "DEGRADED" /\ snapshot' = NoSnapshot
  /\ flags' = [flags EXCEPT !.kill = TRUE, !.pause = TRUE]
  /\ engine' = "EMERGENCY"
  /\ launch' = state

FailClosed == FailClosedTo(Fenced)

\* execute_manual_decision, once execute_decision has returned no order.
Returns(a) ==
  IF a = "READY"
  THEN task' = Idle /\ UNCHANGED <<adapter, snapshot, worker, launch>>
  ELSE FailClosed

\* The order gate has its price.
Price(m) ==
  IF order_gate_price(task.class, task.qty, m)
  THEN /\ task' = [task EXCEPT !.pc = "post",
                               !.qty = Sgn(task.qty) * normalize_quantity(Abs(task.qty))]
       /\ UNCHANGED <<adapter, snapshot, worker, launch>>
  ELSE Returns(adapter)

\* handle_market_event, from the account snapshot to the mutation lock.
\* get_launch_readiness refreshes the engine state on the way; c is the
\* worker's copy of the adapter's state before it.
Decide(net, grid, last, a, c, s, m, qty) ==
  LET risk == [peak |-> IF s.equity > peak THEN s.equity ELSE peak,
               equity |-> s.equity, safe |-> s.safe]
      delta == Decision(net, risk, qty)
      class == _classify_risk(delta, qty)
      order == IF Reducing(class) THEN delta
               ELSE Sgn(delta) * clamp(Abs(delta), last, max_single_order_notional)
      state == _refresh_engine_state(a, flags)
  IN /\ peak' = risk.peak
     /\ \/ /\ delta = 0 \/ engine \notin Executable
           /\ task' = Idle
           /\ copy' = c
           /\ UNCHANGED engine
        \/ /\ delta # 0 /\ engine \in Executable
           /\ copy' = a /\ engine' = state
           /\ task' = IF /\ get_launch_readiness(a, s, m)
                         /\ _evaluate_execution_gate(class, a, s, m, state)
                      THEN [Idle EXCEPT !.pc = "lock", !.class = class, !.qty = order,
                                        !.grid = grid /\ Increasing(class),
                                        !.toxic = DrawdownReaches(risk, 2)]
                      ELSE Idle

----------------------------------------------------------------------------
(* The handler.                                                            *)

\* The grid depth and the intents i come before the account snapshot.  Without
\* one the automatic reconciliation begins, and reads.
handle_market_event(event, timely, i) ==
  LET m == record_market_event(event, timely)
  IN /\ task.pc = "idle"
     /\ market' = m
     /\ \/ /\ is_account_snapshot_ready(snapshot)
           /\ Decide(i.net, i.grid, event.last, adapter, copy, snapshot, m, ledger.qty)
           /\ UNCHANGED <<adapter, reads>>
        \/ /\ ~is_account_snapshot_ready(snapshot)
           /\ task' = [Idle EXCEPT !.pc = "reconcile", !.net = i.net, !.grid = i.grid,
                                   !.last = event.last]
           /\ reads' = [reads EXCEPT !["handler"] = Observed]
           /\ adapter' = Unverified(adapter)
           /\ UNCHANGED <<peak, copy, engine>>
     /\ UNCHANGED <<mode, venue, ledger, snapshot, stream, flags, launch, other, missed, count>>

HandlerReads == task.pc \in {"settle", "kill"} /\ Fetch("handler")

\* The automatic reconciliation; the worker takes over its verdict and does
\* not refresh its engine state.
AutoReconcile(open, safe, mark) ==
  /\ task.pc = "reconcile"
  /\ reconcile("handler", open, safe, mark)
  /\ adapter' = InSync(adapter)
  /\ snapshot' = Taken("handler", safe)
  /\ Decide(task.net, task.grid, task.last, InSync(adapter), InSync(copy),
            Taken("handler", safe), market, reads["handler"].position)
  /\ UNCHANGED <<mode, market, venue, stream, flags, launch, other>>

\* It fails: no account truth.
AutoReconcileFails(seeded, mark) ==
  /\ task.pc = "reconcile"
  /\ Unreconciled("handler", seeded, mark)
  /\ task' = Idle
  /\ adapter' = Unverified(adapter)
  /\ copy' = "DEGRADED"
  /\ flags' = [flags EXCEPT !.pause = TRUE]
  /\ engine' = _refresh_engine_state("DEGRADED", flags')
  /\ UNCHANGED <<mode, market, venue, snapshot, peak, stream, launch, other>>

Flattening == {"flat", "flatten", "partial"}

\* execute_decision under the mutation lock: the worker's gate again, then
\* the order gate up to a price it does not have.
execute_decision ==
  /\ task.pc = "lock"
  /\ other \notin Flattening
  /\ IF /\ _evaluate_execution_gate(task.class, adapter, snapshot, market, engine)
        /\ order_gate_account(task.class)
     THEN IF market.fresh THEN Price(market)
          ELSE task' = [task EXCEPT !.pc = "quote"]
               /\ UNCHANGED <<adapter, snapshot, worker, launch>>
     ELSE Returns(adapter)
  /\ UNCHANGED <<mode, market, venue, ledger, peak, stream, recon, count>>

get_best_bid_ask(book, depth) ==
  /\ task.pc = "quote"
  /\ market' = _record_rest_market_sample(book, depth)
  /\ Price(market')
  /\ UNCHANGED <<mode, venue, ledger, peak, stream, recon, count>>

QuoteFails ==
  /\ task.pc = "quote"
  /\ Upset
  /\ FailClosed
  /\ UNCHANGED <<mode, market, venue, ledger, peak, stream, recon>>

\* before_order_submission: the durable outbox and the launch's order slot.
Admitted == mode = "LIVE" /\ Increasing(task.class) =>
              launch \in {"ACTIVE", "AUTONOMOUS_ACTIVE"}

NotAdmitted ==
  /\ task.pc = "post"
  /\ Increasing(task.class)
  /\ IF Admitted THEN Upset ELSE UNCHANGED count
  /\ FailClosed
  /\ UNCHANGED <<mode, market, venue, ledger, peak, stream, recon>>

Order == [qty |-> task.qty, reduce |-> Reducing(task.class), grid |-> task.grid,
          toxic |-> task.toxic]

\* The position once the exchange has matched an order; a reduceOnly order is
\* cut to the position it meets (external).
FilledTo(order) ==
  LET room == Abs(account.position) IN
  IF ~order.reduce THEN account.position + order.qty
  ELSE IF Sgn(account.position) # -Sgn(order.qty) THEN account.position
  ELSE account.position + Sgn(order.qty) * Least(Abs(order.qty), room)

\* The exchange takes an order; it matches orders in their sequence.
Accept(order) ==
  /\ ~Resting
  /\ FilledTo(order) # account.position
  /\ rest' = order
  /\ echo' = [echo EXCEPT !.ended = FALSE]
  /\ UNCHANGED <<account, filled, entries>>

\* The order is accepted, and the ledger has the reply: NEW, for no
\* newOrderRespType is asked for.
Post ==
  /\ task.pc = "post"
  /\ Admitted
  /\ Accept(Order)
  /\ \/ /\ Increasing(task.class)
        /\ Moves < MaxMoves
        /\ count' = [count EXCEPT !.orders = @ + 1]
     \/ /\ Reducing(task.class)
        /\ UNCHANGED count
  /\ ledger' = [ledger EXCEPT !.open = TRUE]
  /\ reads' = [reads EXCEPT !["other"].seen = FALSE]
  /\ task' = [task EXCEPT !.pc = "settle"]
  /\ UNCHANGED <<mode, market, snapshot, peak, adapter, stream, worker, launch, other, missed>>

\* The exchange refuses it: there is nothing left to reduce, the bound is
\* reached, or for a reason of its own.
PostRejected ==
  /\ task.pc = "post"
  /\ Admitted
  /\ IF \/ FilledTo(Order) = account.position
        \/ Increasing(task.class) /\ Moves = MaxMoves
     THEN UNCHANGED count ELSE Upset
  /\ Returns(adapter)
  /\ UNCHANGED <<mode, market, venue, ledger, peak, stream, recon>>

\* An ambiguous outcome of an order that increases risk; a reconciliation
\* later takes an autonomous launch to REAUTH_REQUIRED.
Ambiguous ==
  IF ~Increasing(task.class) THEN Fenced
  ELSE IF launch = "ACTIVE" THEN "RECONCILIATION_REQUIRED"
  ELSE IF launch = "AUTONOMOUS_ACTIVE" THEN "REAUTH_REQUIRED" ELSE launch

\* The request is lost and the read-back does not find the order.
PostAmbiguous ==
  /\ task.pc = "post"
  /\ Admitted
  /\ Upset
  /\ FailClosedTo(Ambiguous)
  /\ UNCHANGED <<mode, market, venue, ledger, peak, stream, recon>>

\* _post_mutation_reconcile and _on_order_submission_result.
Settle(open, safe, mark) ==
  LET live == mode = "LIVE" /\ Increasing(task.class) IN
  /\ task.pc = "settle"
  /\ stream
  /\ reconcile("handler", open, safe, mark)
  /\ adapter' = "READY"
  /\ snapshot' = Taken("handler", safe)
  /\ task' = Idle
  /\ \/ /\ live /\ launch = "ACTIVE"
        /\ launch' = "PAUSED_NEW_RISK"
        /\ flags' = [flags EXCEPT !.pause = TRUE]
        /\ engine' = _refresh_engine_state(copy, flags')
        /\ UNCHANGED copy
     \/ /\ live /\ launch = "AUTONOMOUS_ACTIVE"
        /\ flags' = [flags EXCEPT !.pause = FALSE]
        /\ engine' = _refresh_engine_state(copy, flags')
        /\ UNCHANGED <<copy, launch>>
     \/ /\ live /\ launch \notin {"ACTIVE", "AUTONOMOUS_ACTIVE"}
        /\ flags' = [flags EXCEPT !.kill = TRUE]
        /\ copy' = "DEGRADED"
        /\ UNCHANGED <<engine, launch>>
     \/ /\ ~live
        /\ UNCHANGED <<worker, launch>>
  /\ UNCHANGED <<mode, market, venue, peak, stream, other>>

\* The reconciliation does not end IN_SYNC, or the private stream is down.
SettleFails(open, seeded, mark) ==
  /\ task.pc = "settle"
  /\ \/ Unreconciled("handler", seeded, mark)
     \/ ~stream /\ reconcile("handler", open, TRUE, mark)
  /\ FailClosedTo(Ambiguous)
  /\ UNCHANGED <<mode, market, venue, peak, stream, other>>

\* The reconciliation of the kill switch; its failure changes nothing.
KillReconciles(open, safe, mark) ==
  /\ task.pc = "kill"
  /\ task' = Idle
  /\ reconcile("handler", open, safe, mark)
  /\ adapter' = InSync(adapter)
  /\ snapshot' = Taken("handler", safe)
  /\ copy' = adapter'
  /\ engine' = _refresh_engine_state(copy', flags)
  /\ UNCHANGED <<mode, market, venue, peak, stream, flags, launch, other>>

KillUnverified(seeded, mark) ==
  /\ task.pc = "kill"
  /\ task' = Idle
  /\ Unreconciled("handler", seeded, mark)
  /\ adapter' = Unverified(adapter)
  /\ copy' = adapter'
  /\ engine' = _refresh_engine_state(copy', flags)
  /\ UNCHANGED <<mode, market, venue, snapshot, peak, stream, flags, launch, other>>

----------------------------------------------------------------------------
(* Time, the exchange and the private stream.                              *)

MarketAges ==
  /\ market.fresh
  /\ market' = [market EXCEPT !.fresh = FALSE]
  /\ UNCHANGED <<mode, venue, ledger, snapshot, peak, adapter, stream, worker, launch, task,
                 recon, count>>

SnapshotAges ==
  /\ snapshot.fresh
  /\ snapshot' = NoSnapshot
  /\ UNCHANGED <<mode, market, venue, ledger, peak, adapter, stream, worker, launch, task,
                 recon, count>>

EquityMoves(e) ==
  /\ e # account.equity
  /\ count.swings < MaxSwings
  /\ count' = [count EXCEPT !.swings = @ + 1]
  /\ account' = [account EXCEPT !.equity = e]
  /\ UNCHANGED <<mode, market, rest, echo, filled, entries, ledger, snapshot, peak, adapter,
                 stream, worker, launch, task, recon>>

\* The daily loss counts from 0:00 UTC; only LIVE limits it.
NewDay ==
  /\ mode = "LIVE"
  /\ account.open # account.equity
  /\ Upset
  /\ account' = [account EXCEPT !.open = account.equity]
  /\ UNCHANGED <<mode, market, rest, echo, filled, entries, ledger, snapshot, peak, adapter,
                 stream, worker, launch, task, recon>>

\* The exchange matches the order it has accepted.
Fill ==
  LET to == FilledTo(rest) IN
  /\ Resting
  /\ account' = [account EXCEPT !.position = to]
  /\ rest' = NoOrder
  /\ filled' = IF to = account.position THEN filled ELSE Least(MaxGridLevels, filled + 1)
  /\ entries' = IF to = 0 THEN 0
                ELSE IF rest.grid THEN entries + 1 ELSE entries
  /\ echo' = [pending |-> TRUE, ended |-> TRUE]
  /\ UNCHANGED <<mode, market, ledger, snapshot, peak, adapter, stream, worker, launch, task,
                 recon, count>>

\* The position is reduced, closed or turned by hand at the exchange.
OutsideTrade(to) ==
  /\ to # account.position /\ Abs(to) <= Abs(account.position)
  /\ Upset
  /\ account' = [account EXCEPT !.position = to, !.foreign = TRUE]
  /\ entries' = IF Sgn(to) = Sgn(account.position) THEN entries ELSE 0
  /\ echo' = [echo EXCEPT !.pending = TRUE]
  /\ UNCHANGED <<mode, market, rest, filled, ledger, snapshot, peak, adapter, stream, worker,
                 launch, task, recon>>

\* The events of an order and of its position reach the adapter.
_on_ws_event ==
  /\ stream /\ echo.pending
  /\ echo' = NoEcho
  /\ ledger' = [ledger EXCEPT !.qty = account.position, !.filled = filled,
                              !.open = @ /\ ~echo.ended]
  /\ snapshot' = NoSnapshot
  /\ adapter' = Unverified(adapter)
  /\ UNCHANGED <<mode, market, account, rest, filled, entries, peak, stream, worker, launch,
                 task, recon, count>>

\* get_state: the control plane's poll.
_sync_adapter_state ==
  /\ copy' = adapter
  /\ engine' = _refresh_engine_state(adapter, flags)
  /\ UNCHANGED <<mode, market, venue, ledger, snapshot, peak, adapter, stream, flags, launch,
                 task, recon, count>>

----------------------------------------------------------------------------
(* Callbacks and commands that reconcile.                                  *)

Begin(command) == other = "none" /\ other' = command

\* A command that changes nothing before its reconciliation has read.
Reads(command) ==
  /\ Begin(command)
  /\ reads' = [reads EXCEPT !["other"] = Observed]
  /\ adapter' = Unverified(adapter)
  /\ UNCHANGED <<mode, market, venue, ledger, snapshot, peak, stream, worker, launch, task,
                 missed>>

\* What is on its way is lost.
_on_user_stream_disconnect ==
  /\ adapter # "DEGRADED"
  /\ Upset
  /\ Begin("disconnect")
  /\ adapter' = "DEGRADED"
  /\ stream' = FALSE
  /\ echo' = NoEcho
  /\ UNCHANGED <<mode, market, account, rest, filled, entries, ledger, snapshot, peak, worker,
                 launch, task, reads, missed>>

\* A new stream for one that was lost, or that Binance ended.
_on_user_stream_reconnected ==
  /\ adapter = "DEGRADED"
  /\ Begin("reconnect")
  /\ stream' = TRUE
  /\ echo' = NoEcho
  /\ reads' = [reads EXCEPT !["other"] = Observed]
  /\ UNCHANGED <<mode, market, account, rest, filled, entries, ledger, snapshot, peak, adapter,
                 worker, launch, task, missed, count>>

trigger_reconciliation ==
  /\ Upset
  /\ Reads("trigger")

\* set_kill_switch(False), once openOrders is empty.
release_kill_switch ==
  /\ flags.kill /\ ~Resting
  /\ Upset
  /\ Reads("release")

\* A continuation that fails its readiness leaves the worker disarmed, which
\* ends what is modelled here.
continue_autonomous ==
  /\ ~flags.kill
  /\ launch \in {"PAUSED_NEW_RISK", "REAUTH_REQUIRED"}
  /\ Reads("continue")
  /\ UNCHANGED count

\* Under the mutation lock, up to the reconciliation after the order.  A
\* position too small for an order, or an order that fails, is left.
emergency_flatten(mark, sent) ==
  LET flat == account.position = 0
      order == [NoOrder EXCEPT !.qty = -account.position]
  IN
  /\ task.pc \notin {"quote", "post", "settle"}
  /\ Upset
  /\ flags' = [flags EXCEPT !.pause = TRUE]
  /\ engine' = _refresh_engine_state(copy, flags')
  /\ Begin(IF flat THEN "flat" ELSE IF sent THEN "flatten" ELSE "partial")
  /\ \/ /\ sent /\ ~flat
        /\ Abs(account.position) * mark >= MinNotional
        /\ Accept(order)
        /\ reads' = [reads EXCEPT !["handler"].seen = FALSE]
     \/ /\ ~sent
        /\ UNCHANGED <<venue, reads>>
  /\ ledger' = [ledger EXCEPT !.qty = account.position, !.mark = mark, !.open = @ \/ sent]
  /\ UNCHANGED <<mode, market, snapshot, peak, adapter, stream, copy, launch, task, missed>>

OtherReads == Fetch("other")

\* Its reconciliation ends IN_SYNC.
Verified(open, safe, mark) ==
  /\ reconcile("other", open, safe, mark)
  /\ snapshot' = Taken("other", safe)
  /\ other' = "none"
  /\ UNCHANGED <<mode, market, venue, peak, stream, task>>

StreamVerified(open, safe, mark) ==
  /\ other \in {"disconnect", "reconnect"}
  /\ Verified(open, safe, mark)
  /\ adapter' = IF other = "disconnect" THEN InSync(adapter)
                ELSE IF stream THEN "READY" ELSE "DEGRADED"
  /\ UNCHANGED <<worker, launch>>

\* The switch is released by a healthy stream, whatever the connection.
CommandVerified(open, safe, mark) ==
  /\ other \in {"trigger", "release"}
  /\ Verified(open, safe, mark)
  /\ adapter' = InSync(adapter) /\ copy' = adapter'
  /\ flags' = IF other = "release" /\ stream THEN [flags EXCEPT !.kill = FALSE] ELSE flags
  /\ engine' = _refresh_engine_state(copy', flags')
  /\ UNCHANGED launch

ContinuationVerified(open, safe, mark) ==
  /\ other = "continue"
  /\ Verified(open, safe, mark)
  /\ ~flags.kill /\ InSync(adapter) = "READY" /\ market.fresh
  /\ adapter' = "READY" /\ copy' = "READY" /\ engine' = "ARMED"
  /\ launch' = "AUTONOMOUS_ACTIVE"
  /\ flags' = [flags EXCEPT !.pause = FALSE, !.recovery = FALSE]

FlattenVerified(open, safe, mark) ==
  /\ other \in Flattening
  /\ Verified(open, safe, mark)
  /\ adapter' = IF stream /\ other # "partial" THEN "READY"
                ELSE IF other = "flat" THEN InSync(adapter) ELSE "DEGRADED"
  /\ UNCHANGED <<worker, launch>>

OtherFails(seeded, mark) ==
  /\ other \notin {"none", "continue"}
  /\ Unreconciled("other", seeded, mark)
  /\ other' = "none"
  /\ adapter' = IF other \in {"reconnect", "flatten", "partial"} THEN "DEGRADED"
                ELSE Unverified(adapter)
  /\ \/ /\ other \in {"trigger", "release"}
        /\ copy' = adapter' /\ engine' = _refresh_engine_state(copy', flags)
     \/ /\ other \notin {"trigger", "release"}
        /\ UNCHANGED <<copy, engine>>
  /\ UNCHANGED <<mode, market, venue, snapshot, peak, stream, flags, launch, task>>

----------------------------------------------------------------------------
(* Commands that only set flags.                                           *)

\* In LIVE a pause is lifted only for a launch that may still order.
set_pause_new_risk(active) ==
  /\ Upset
  /\ flags' = [flags EXCEPT !.pause =
                 \/ active
                 \/ mode = "LIVE" /\ launch \notin {"ACTIVE", "AUTONOMOUS_ACTIVE"}]
  /\ engine' = _refresh_engine_state(copy, flags')
  /\ UNCHANGED <<mode, market, venue, ledger, snapshot, peak, adapter, stream, copy, launch,
                 task, recon>>

set_recovery_only(active) ==
  /\ Upset
  /\ flags' = [flags EXCEPT !.recovery = active]
  /\ engine' = _refresh_engine_state(copy, flags')
  /\ UNCHANGED <<mode, market, venue, ledger, snapshot, peak, adapter, stream, copy, launch,
                 task, recon>>

\* Up to the cancellations, which wait for the mutation lock; the
\* reconciliation after them is trigger_reconciliation's, or coincides with
\* the one in progress.
set_kill_switch ==
  /\ Upset
  /\ flags' = [flags EXCEPT !.kill = TRUE, !.pause = TRUE]
  /\ engine' = "EMERGENCY"
  /\ launch' = Fenced
  /\ adapter' = Unverified(adapter)
  /\ snapshot' = NoSnapshot
  /\ other' = IF other = "none" THEN "trigger" ELSE other
  /\ UNCHANGED <<mode, market, venue, ledger, peak, stream, copy, task, reads, missed>>

----------------------------------------------------------------------------
\* After a successful ARM, which read the book and the account.
Init ==
  /\ mode \in Modes
  /\ \E b \in Books, d \in Depths : market = _record_rest_market_sample(b, d)
  /\ account = [equity |-> Start, open |-> Start, position |-> 0, foreign |-> FALSE]
  /\ rest = NoOrder /\ echo = NoEcho
  /\ snapshot = [fresh |-> TRUE, equity |-> Start, loss |-> 0, safe |-> TRUE]
  /\ peak = Start
  /\ \E m \in Marks : ledger = [qty |-> 0, mark |-> m, filled |-> 0, open |-> FALSE]
  /\ adapter = "READY" /\ copy = "READY" /\ stream = TRUE
  /\ flags = [pause |-> FALSE, recovery |-> FALSE, kill |-> FALSE]
  /\ engine = "ARMED"
  /\ launch = "ACTIVE"
  /\ task = Idle
  /\ reads = [by \in {"handler", "other"} |-> NoRead] /\ other = "none"
  /\ filled = 0 /\ entries = 0 /\ missed = 0
  /\ count = [orders |-> 0, upsets |-> 0, swings |-> 0]

Event(timely) ==
  /\ task.pc = "idle"
  /\ \E event \in parse_payload,
        i \in Intents[observed_depth(ledger.qty, ledger.open,
                                     ledger.filled + (IF ledger.open THEN 1 ELSE 0))] :
       handle_market_event(event, timely, i)

Handler ==
  /\ task.pc # "idle"
  /\ \/ \E open, safe \in BOOLEAN, mark \in Marks :
          \/ AutoReconcile(open, safe, mark) \/ Settle(open, safe, mark)
          \/ KillReconciles(open, safe, mark)
     \/ \E seeded, open \in BOOLEAN, mark \in Marks :
          \/ AutoReconcileFails(seeded, mark) \/ SettleFails(open, seeded, mark)
          \/ KillUnverified(seeded, mark)
     \/ \E b \in Books, d \in Depths : get_best_bid_ask(b, d)
     \/ HandlerReads \/ execute_decision \/ QuoteFails \/ NotAdmitted
     \/ Post \/ PostRejected \/ PostAmbiguous

Beside ==
  /\ other # "none"
  /\ \/ OtherReads
     \/ \E open, safe \in BOOLEAN, mark \in Marks :
          \/ StreamVerified(open, safe, mark) \/ CommandVerified(open, safe, mark)
          \/ ContinuationVerified(open, safe, mark) \/ FlattenVerified(open, safe, mark)
     \/ \E seeded \in BOOLEAN, mark \in Marks : OtherFails(seeded, mark)

Environment ==
  \/ MarketAges \/ SnapshotAges \/ NewDay \/ Fill \/ _on_ws_event
  \/ \E e \in Equities : EquityMoves(e)
  \/ \E to \in {0, -account.position, account.position \div 2} : OutsideTrade(to)
  \/ _on_user_stream_disconnect \/ _on_user_stream_reconnected
  \/ _sync_adapter_state

Operator ==
  \/ \E b \in BOOLEAN : set_pause_new_risk(b) \/ set_recovery_only(b)
  \/ set_kill_switch \/ trigger_reconciliation \/ release_kill_switch \/ continue_autonomous
  \/ \E mark \in Marks, sent \in BOOLEAN : emergency_flatten(mark, sent)

Next == (\E timely \in BOOLEAN : Event(timely)) \/ Handler \/ Beside \/ Environment \/ Operator

Spec == Init /\ [][Next]_vars

\* The public stream keeps delivering events, requests end, orders are matched,
\* the private stream comes back, and a snapshot grows old.  In the
\* 30 s one lasts the control plane polls, and a timely event comes after it,
\* unless this is prevented every time.  Nothing is assumed of the operator or
\* of the account.
FairSpec ==
  /\ Spec
  /\ WF_vars(~snapshot.fresh /\ Event(TRUE))
  /\ SF_vars(snapshot.fresh /\ engine \in Executable /\ Event(TRUE))
  /\ WF_vars(Handler)
  /\ WF_vars(Beside)
  /\ WF_vars(SnapshotAges)
  /\ WF_vars(Fill)
  /\ WF_vars(_on_user_stream_reconnected)
  /\ SF_vars(snapshot.fresh /\ adapter = "READY" /\ _sync_adapter_state)

----------------------------------------------------------------------------
(* Properties.                                                             *)

Prices == Marks \cup {b[1] : b \in Books}

Cheapest(p) == \A q \in Prices : p <= q

\* The position at the exchange, at the lowest price, exceeds the total limit of
\* the mode at most by what one IN_SYNC verdict missed of it: never, while no
\* order filled between a reconciliation's reads, whichever of the ledger's
\* sources was last to report, fail or lag when an order was priced
\* (OrderExecutionGate.check, BinanceReconciliationEngine.reconcile).
ExposureIsBounded ==
  \A p \in Prices :
    Cheapest(p) => Abs(account.position) * p <= max_total_open_notional + missed * p

\* The position at the exchange stays within the total limit.
WithinTotalLimit ==
  \A p \in Prices : Cheapest(p) => Abs(account.position) * p <= max_total_open_notional

\* The position is never built from more grid orders than the grid has
\* levels, however fills, reconciliations and the private stream's events
\* follow each other (_observed_grid_depth, GridStrategyEngine.evaluate).
GridIsBounded == entries <= MaxGridLevels

\* No order decided on evidence of a drawdown of 2% or more grows the position,
\* however stale the position it was decided on, and whatever became of the
\* account while it waited for the lock, for a quote, for the barrier or to be
\* matched (ExposureRecoveryEngine.process, RiskGovernor.evaluate, reduceOnly).
ToxicNeverAdds ==
  [][rest.toxic => Abs(account'.position) <= Abs(account.position)]_vars

\* On TESTNET a position in a drawdown of 5% is unwound, paused or not, unless
\* the equity recovers, the kill switch stops the worker or a trade that is not
\* the worker's takes its account evidence (ExposureRecoveryEngine's FLATTEN,
\* the gates' exemption of reductions).
Distressed ==
  /\ peak <= 20 * (peak - account.equity)
  /\ \A event \in parse_payload : Abs(account.position) > (MinNotional - 1) \div event.bid


\* A MARKET order is priced by a bid or an ask of the book, never by a mark
\* price (get_fresh_market_price).
QuoteIsExecutable == task.pc = "post" => <<market.bid, market.ask>> \in Books

\* A position in a drawdown of 5% is unwound in either mode.
DeRiskingRemainsAvailable ==
  Distressed ~> (~Distressed \/ flags.kill \/ account.foreign)
=============================================================================
