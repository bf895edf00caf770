---------------------------- MODULE BinanceVenue ----------------------------
(***************************************************************************)
(* The Binance adapter of one worker: the private stream, the mutations it *)
(* sends one at a time, and the reconciliations that compare the ledger    *)
(* with the exchange while both go on changing.                            *)
(*                                                                         *)
(* The worker is one asyncio loop, and the in-memory ledger never suspends *)
(* it: an action is what a coroutine does from one REST answer to the next *)
(* request.  The exchange changes between any two of them.                 *)
(***************************************************************************)
EXTENDS ExecutionLedger, Sequences, FiniteSetsExt

CONSTANTS
  Tasks,      \* reconciliations outside mutations that may overlap (a bound)
  Overlap,    \* how many reconciliations run at once (a bound)
  MaxOpen,    \* MAX_OPEN_ORDERS of the final gate
  MaxMoves,   \* executions, cancellations and foreign orders (a bound)
  MaxFeed,    \* undelivered stream messages (a bound)
  MaxFaults   \* failed requests, dropped streams and lost replies (a bound)

ASSUME VenueAssumption ==
  /\ "mut" \notin Tasks /\ "none" \notin Tasks
  /\ Overlap \in Nat \ {0} /\ MaxOpen \in Nat /\ MaxMoves \in Nat /\ MaxFeed \in Nat /\ MaxFaults \in Nat

VARIABLES
  ex,      \* the exchange: status and executed units of each order (external)
  feed,    \* private stream messages sent and not yet handled
  link,    \* BinanceUserStream: is_connected, reconnect_task, keepalive_task
  led,     \* the ledger
  rec,     \* the reconcile() running in each slot
  verdict, \* BinanceReconciliation.last_status
  state,   \* BinanceExecutionAdapter.state
  auth,    \* ok, doubt (authentication_failed), lost (capabilities invalid)
  mut,     \* the mutation that holds _mutation_lock
  recovered, \* _recovered_trade_ids, never cleared
  faults   \* how many faults have happened

vars == <<ex, feed, link, led, rec, verdict, state, auth, mut, recovered, faults>>

Slots == Tasks \cup {"mut"}

\* ----- The exchange, as the REST answers and stream messages show it. -----
ExStatus == {"NONE", "NEW", "PARTIALLY_FILLED", "FILLED", "CANCELED"}
OpenOrders(e) == {o \in All : e[o].status \in Working}
Executions(e) == {t \in Trades : t[2] <= e[t[1]].done}

\* Units bought less units sold.
Traded(e, side) == {t \in Executions(e) : Side[t[1]] = side}
Position(e) == Cardinality(Traded(e, 1)) - Cardinality(Traded(e, -1))

OrderEvent(o, s, k) == [e |-> "ORDER_TRADE_UPDATE", order |-> o, status |-> s, trade |-> k]
AccountEvent(p) == [e |-> "ACCOUNT_UPDATE", pos |-> p]

Moves(e) == Cardinality(Executions(e)) + Cardinality({o \in All : e[o].status = "CANCELED"})
            + (IF e[Foreign].status = "NONE" THEN 0 ELSE 1)

\* A message reaches the worker only while the stream is up.
Emit(msgs) ==
  /\ link.up => Len(feed) + Len(msgs) <= MaxFeed
  /\ feed' = IF link.up THEN feed \o msgs ELSE feed

\* ----- A reconcile() in progress. -----
\* view: calm, until the exchange or, by somebody else, the ledger changes, or
\* a request fails; event, once a stream message was handled since the first read.  held: what
\* the list all_orders holds for an order: the ledger's own object (same), an
\* object since replaced, with its last status, or nothing (ABSENT).  curable: what
\* Curable said when the open orders were read (history, for RepairsWhatItCan).
NoRec == [pc |-> "idle", caller |-> "none", boot |-> FALSE, pos |-> 0,
          open |-> [o \in All |-> [status |-> "NONE", done |-> 0]],
          held |-> [o \in Own |-> "ABSENT"], todo |-> 0, bad |-> FALSE,
          lost |-> {}, moved |-> FALSE, reduced |-> FALSE, known |-> TRUE, view |-> "calm",
          mine |-> "ABSENT", got |-> [status |-> "NONE", done |-> 0], queried |-> FALSE,
          curable |-> FALSE]

NoMut == [pc |-> "idle", kind |-> "none", order |-> 1, resp |-> "NONE", done |-> 0, todo |-> {},
          flat |-> FALSE, ok |-> TRUE]

Running(r) == r.pc # "idle"

\* What an actor other than the reconcile in slot s does to the others' view.
Disturb(s) == [t \in Slots |-> IF t # s /\ Running(rec[t]) /\ rec[t].view = "calm"
                               THEN [rec[t] EXCEPT !.view = "moved"] ELSE rec[t]]
Observed(rs) == [t \in Slots |-> IF Running(rs[t]) THEN [rs[t] EXCEPT !.view = "event"] ELSE rs[t]]

Troubled(r) == IF r.view = "calm" THEN "moved" ELSE r.view

\* The ledger's object for order o is replaced by another one.
Replaced(rs, o) == [t \in Slots |-> IF rs[t].held[o] = "same"
                                    THEN [rs[t] EXCEPT !.held[o] = led.orders[o]] ELSE rs[t]]

Init ==
  /\ ex = [o \in All |-> [status |-> "NONE", done |-> 0]]
  /\ feed = <<>>
  /\ link = [up |-> FALSE, retry |-> FALSE, keepalive |-> FALSE]
  /\ led = EmptyLedger
  /\ rec = [s \in Slots |-> NoRec]
  /\ verdict = "UNKNOWN"
  /\ state = "DISCONNECTED"
  /\ auth = "ok"
  /\ mut = NoMut
  /\ recovered = {}
  /\ faults = 0

Fault == faults < MaxFaults /\ faults' = faults + 1

-----------------------------------------------------------------------------
(* The exchange acts.                                                      *)

ExFill(o) ==
  LET done == ex[o].done + 1
      st == IF done = Qty[o] THEN "FILLED" ELSE "PARTIALLY_FILLED"
      e2 == [ex EXCEPT ![o] = [status |-> st, done |-> done]] IN
  /\ o \in OpenOrders(ex) /\ Moves(ex) < MaxMoves
  /\ ex' = e2
  /\ Emit(<<AccountEvent(Position(e2)), OrderEvent(o, st, done)>>)
  /\ rec' = Disturb("none")
  /\ UNCHANGED <<link, led, verdict, state, auth, mut, recovered, faults>>

\* An order the exchange expires or the account's owner cancels.
ExCancel(o) ==
  /\ o \in OpenOrders(ex) /\ Moves(ex) < MaxMoves
  /\ ex' = [ex EXCEPT ![o].status = "CANCELED"]
  /\ Emit(<<OrderEvent(o, "CANCELED", 0)>>)
  /\ rec' = Disturb("none")
  /\ UNCHANGED <<link, led, verdict, state, auth, mut, recovered, faults>>

\* Somebody else trades on the account.
ExForeign ==
  /\ ex[Foreign].status = "NONE" /\ Moves(ex) < MaxMoves
  /\ ex' = [ex EXCEPT ![Foreign].status = "NEW"]
  /\ Emit(<<OrderEvent(Foreign, "NEW", 0)>>)
  /\ rec' = Disturb("none")
  /\ UNCHANGED <<link, led, verdict, state, auth, mut, recovered, faults>>

-----------------------------------------------------------------------------
(* BinanceReconciliation.                                                  *)

Authenticated == auth = "ok"

\* reconcile() up to its first request.
Begun(caller, known) ==
  [NoRec EXCEPT !.pc = "positions", !.caller = caller, !.boot = ~led.init, !.known = known]
CanBegin == Cardinality({s \in Slots : Running(rec[s])}) < Overlap
Cleared == IF auth = "doubt" THEN "ok" ELSE auth

\* The state a caller leaves the adapter in when reconcile() returns.
Returned(caller, known, insync, a) ==
  CASE caller \in {"connect", "reconnected", "post", "resolve", "flatten"} ->
         IF insync /\ link.up /\ a = "ok" /\ known THEN "READY" ELSE "DEGRADED"
    [] caller = "flat" /\ insync /\ link.up /\ a = "ok" -> "READY"
    [] OTHER -> state

\* What happens after the reconcile in slot s returned: a mutation releases
\* the lock, the reconnect task ends.
Done(ok) == IF mut.flat THEN [NoMut EXCEPT !.pc = "flatten", !.ok = ok] ELSE NoMut

Release(s) ==
  /\ mut' = IF s # "mut" THEN mut
            ELSE IF rec[s].caller \in {"flat", "flatten"} THEN NoMut ELSE Done(state' = "READY")
  /\ link' = IF rec[s].caller = "reconnected" THEN [link EXCEPT !.retry = FALSE] ELSE link

\* An exception: UNKNOWN, and the callers that look for it invalidate the
\* authentication.
ReconcileFails(s) ==
  \E authfail \in BOOLEAN :
    LET a == IF ~authfail THEN auth
             ELSE IF rec[s].caller \in {"connect", "reconnected", "disconnect"} \/ auth = "lost"
                  THEN "lost" ELSE "doubt" IN
    /\ Running(rec[s]) /\ Fault
    /\ verdict' = "UNKNOWN"
    /\ auth' = a
    /\ state' = IF a = "lost" THEN "DEGRADED" ELSE Returned(rec[s].caller, rec[s].known, FALSE, a)
    /\ rec' = [rec EXCEPT ![s] = NoRec]
    /\ Release(s)
    /\ UNCHANGED <<ex, feed, led, recovered>>

\* GET positionRisk
ReadPositions(s) ==
  /\ rec[s].pc = "positions"
  /\ rec' = [rec EXCEPT ![s].pc = "open", ![s].pos = Position(ex), ![s].view = "calm"]
  /\ UNCHANGED <<ex, feed, link, led, verdict, state, auth, mut, recovered, faults>>

\* GET openOrders and account; a bootstrap drops the snapshot and refuses to
\* adopt a position or orders when the ledger is empty.
HasLocalState == \/ \E o \in Own : led.orders[o] # "ABSENT"
                 \/ \E t \in Trades : led.fills[t] > 0
                 \/ led.pos # 0

\* Differences the recovery of reconcile() is able to remove.
Curable(l, e) ==
  /\ e[Foreign].status = "NONE"
  /\ \A o \in Own :
       \/ e[o].status = "NONE" /\ l.orders[o] = "ABSENT"
       \/ e[o].status \in Working /\ l.orders[o] = e[o].status
       \/ e[o].status = "FILLED" /\ l.orders[o] # "ABSENT"
       \/ e[o].status = "CANCELED" /\ l.orders[o] \notin Executed \cup {"ABSENT"}
  /\ l.pos = Position(e) \/ \E o \in Own : e[o].status = "FILLED"

ReadOpenOrders(s) ==
  LET open == [o \in All |-> IF o \in OpenOrders(ex) THEN ex[o]
                             ELSE [status |-> "NONE", done |-> 0]] IN
  /\ rec[s].pc = "open"
  /\ led' = IF rec[s].boot THEN set_account_snapshot(led, FALSE) ELSE led
  /\ IF rec[s].boot /\ ~HasLocalState /\ (rec[s].pos # 0 \/ OpenOrders(ex) # {})
     THEN /\ verdict' = "UNKNOWN"
          /\ state' = Returned(rec[s].caller, rec[s].known, FALSE, auth)
          /\ rec' = [rec EXCEPT ![s] = NoRec]
          /\ Release(s)
     ELSE /\ rec' = [rec EXCEPT ![s].pc = "trades", ![s].open = open,
                                 ![s].curable = Curable(led, ex)]
          /\ UNCHANGED <<verdict, state, mut, link>>
  /\ UNCHANGED <<ex, feed, auth, recovered, faults>>

\* ----- _collect_diffs -----
\* Seeded fault: the object is not looked at again after a request.
Unread(l, r, o) == r.held[o]

Local(l, r, o) == IF r.held[o] = "same" THEN l.orders[o] ELSE r.held[o]
Found(r, o) == r.open[o].status # "NONE"

\* _compare_open_order: the fields of a matched order agree but for its status.
Differs(l, r, o) == Local(l, r, o) # "ABSENT" /\ Found(r, o) /\ Local(l, r, o) # r.open[o].status

\* The request the loop makes for an order of the list, if any.
Fills(l, r, o) == /\ Found(r, o)
                  /\ \/ Local(l, r, o) = "FILLED"
                     \/ Local(l, r, o) = "PARTIALLY_FILLED" /\ r.open[o].done > 0
Query(l, r, o) == /\ Local(l, r, o) # "ABSENT"
                  /\ Found(r, o) => Local(l, r, o) \notin Working \cup Executed

\* The comparison after the loop.  Seeded fault: the position of a recovered
\* order is not taken over.
Unseeded(l, r) == l

Seeded(l, r) ==
  LET taken == IF r.moved THEN rest_position(l, r.pos) ELSE l IN
  IF r.reduced /\ r.pos = 0 THEN clear_positions(taken) ELSE taken

\* Seeded fault: a trade that belongs to no order is passed over.
Lenient(l, r) ==
  \/ r.bad \/ l.pos # r.pos
  \/ \E o \in All : Found(r, o) /\ l.orders[o] \notin Working

Unexplained(l, r) ==
  \/ r.bad \/ r.lost \ recovered # {}
  \/ \E o \in All : Found(r, o) /\ l.orders[o] \notin Working
  \/ l.pos # r.pos
  \/ \E o \in Own : LET n == Cardinality(FillsOf(l, o)) IN
       \/ Local(l, r, o) = "FILLED" /\ n # Qty[o]
       \/ Local(l, r, o) = "PARTIALLY_FILLED" /\ n = 0

\* The ledger a reconcile() that found no difference leaves.
Committed(l, r) ==
  LET placed == IF ~r.boot THEN rest_position(l, r.pos)
                ELSE [active_positions(l, r.pos) EXCEPT
                        !.orders = [o \in All |-> IF Found(r, o) THEN r.open[o].status ELSE @[o]],
                        !.ids = @ \cup {o \in All : Found(r, o)}, !.init = TRUE] IN
  set_account_snapshot(placed, TRUE)

Conclude(s, l, r, rs) ==
  LET seeded == Seeded(l, r)
      insync == ~Unexplained(seeded, r) IN
  /\ led' = IF insync THEN Committed(seeded, r) ELSE seeded
  /\ verdict' = IF insync THEN "IN_SYNC" ELSE "MISMATCH"
  /\ state' = Returned(r.caller, r.known, insync, auth)
  /\ rec' = [rs EXCEPT ![s] = NoRec]
  /\ Release(s)

\* The loop goes on, with ledger l, from order k to the next order it makes a
\* request for, or to its end.
GoOn(s, l, r, rs, k) ==
  LET next == Min({o \in k..N : Fills(l, r, o) \/ Query(l, r, o)} \cup {N + 1})
      r2 == [r EXCEPT !.todo = next,
                      !.bad = @ \/ \E o \in k..N : o <= next /\ Differs(l, r, o)] IN
  IF next > N THEN Conclude(s, l, r2, rs)
  ELSE /\ led' = l
       /\ rec' = [rs EXCEPT ![s] =
                   IF Fills(l, r, next)
                   THEN [r2 EXCEPT !.pc = "fills", !.got = r.open[next], !.queried = FALSE, !.mine = "ABSENT"]
                   ELSE [r2 EXCEPT !.pc = "query", !.mine = Local(l, r, next), !.got = NoRec.got,
                                   !.queried = FALSE]]
       /\ UNCHANGED <<verdict, state, mut, link>>

\* _resolve_missing_exchange_order_ids, where a query that fails is skipped, and
\* GET userTrades.  A trade belongs to an order whose exchange id is known, or,
\* when the answer carries it, whose client id is known.
Tracked(l) == {o \in Own : l.orders[o] # "ABSENT"}
Unidentified(l) == {o \in Tracked(l) \ l.ids : ex[o].status # "NONE"}
Attributable(l, named) == IF named THEN Tracked(l) ELSE Tracked(l) \cap l.ids

RecoverTrades(s) ==
  \E named \in BOOLEAN, skipped \in SUBSET Unidentified(led) :
    LET l == [led EXCEPT !.ids = @ \cup (Unidentified(led) \ skipped)]
        mine == {t \in Executions(ex) : t[1] \in Attributable(l, named)}
        r == [rec[s] EXCEPT !.lost = Executions(ex) \ mine,
                            !.view = IF skipped = {} THEN @ ELSE Troubled(rec[s]),
                            !.held = [o \in Own |-> IF o \in Tracked(l) THEN "same" ELSE "ABSENT"]] IN
    /\ rec[s].pc = "trades"
    /\ IF skipped = {} THEN UNCHANGED faults ELSE Fault
    /\ GoOn(s, append_fills(l, mine), r, Disturb(s), 1)
    /\ UNCHANGED <<ex, feed, auth, recovered>>

\* GET order.  local_order is written back: the object of the list becomes the
\* ledger's.
WrittenBack(s, o) == IF rec[s].held[o] = "same" THEN Disturb(s) ELSE Replaced(Disturb(s), o)

QueryOrder(s) ==
  LET r == rec[s]
      o == r.todo
      bad == [r EXCEPT !.bad = TRUE] IN
  /\ r.pc = "query"
  /\ CASE ex[o].status \in Executed ->
            /\ rec' = [rec EXCEPT ![s] = [r EXCEPT !.pc = "fills", !.got = ex[o], !.queried = TRUE]]
            /\ UNCHANGED <<led, verdict, state, mut, link>>
       [] ex[o].status = "CANCELED" /\ r.mine \in Executed -> GoOn(s, led, bad, Disturb(s), o + 1)
       [] ex[o].status = "CANCELED" /\ r.mine = "NEW" ->
            GoOn(s, upsert_order(led, o, "CANCELED"), [r EXCEPT !.held[o] = "same"],
                 WrittenBack(s, o), o + 1)
       [] ex[o].status = "CANCELED" /\ r.mine \notin Executed \cup {"NEW"} ->
            GoOn(s, led, r, Disturb(s), o + 1)
       [] ex[o].status \in {"NONE", "NEW"} -> GoOn(s, led, bad, Disturb(s), o + 1)
  /\ UNCHANGED <<ex, feed, auth, faults, recovered>>

\* _recover_order_fills of an order reported with executedQty n: the trades are
\* kept only if they add up.
TradesNow(o) == {t \in Executions(ex) : t[1] = o}
AddUp(o, got) == /\ ex[o].done = got.done
                 /\ got.status = "FILLED" => got.done = Qty[o]

RecoverFills(s) ==
  LET r == rec[s]
      o == r.todo
      took == [r EXCEPT !.moved = TRUE, !.reduced = @ \/ o \in ReduceOnly, !.held[o] = "same"]
      kept == append_fills(led, TradesNow(o)) IN
  /\ r.pc = "fills"
  /\ recovered' = recovered \cup TradesNow(o)
  /\ CASE ~AddUp(o, r.got) -> GoOn(s, led, [r EXCEPT !.bad = TRUE], Disturb(s), o + 1)
       [] AddUp(o, r.got) /\ ~r.queried -> GoOn(s, kept, r, Disturb(s), o + 1)
       [] AddUp(o, r.got) /\ r.queried ->
            GoOn(s, identify(upsert_order(kept, o, r.got.status), o), took, WrittenBack(s, o), o + 1)
  /\ UNCHANGED <<ex, feed, auth, faults>>

\* The request for one order fails: a difference, and the loop goes on.
RequestFails(s) ==
  LET r == rec[s] IN
  /\ r.pc \in {"query", "fills"} /\ Fault
  /\ GoOn(s, led, [r EXCEPT !.bad = TRUE, !.view = Troubled(r)], Disturb(s), r.todo + 1)
  /\ UNCHANGED <<ex, feed, auth, recovered>>

-----------------------------------------------------------------------------
(* The private stream and its handlers.                                    *)

Start(s, caller) == [rec EXCEPT ![s] = Begun(caller, TRUE)]

\* connect: discovery, then the stream, then the first reconciliation.
Connect(s) ==
  /\ state = "DISCONNECTED" /\ ~Running(rec[s]) /\ CanBegin
  /\ \/ /\ link' = [up |-> TRUE, retry |-> FALSE, keepalive |-> TRUE]
        /\ state' = "SYNCING" /\ verdict' = "RECONCILING"
        /\ rec' = Start(s, "connect")
        /\ UNCHANGED faults
     \/ /\ Fault
        /\ link' = [link EXCEPT !.retry = TRUE]
        /\ state' = "DEGRADED"
        /\ UNCHANGED <<verdict, rec>>
  /\ UNCHANGED <<ex, feed, led, auth, mut, recovered>>

\* trigger_reconciliation: POST /reconcile and the kill switch.
trigger_reconciliation(s) ==
  /\ state # "DISCONNECTED" /\ ~Running(rec[s]) /\ CanBegin
  /\ rec' = Start(s, "trigger")
  /\ verdict' = "RECONCILING" /\ auth' = Cleared
  /\ UNCHANGED <<ex, feed, link, led, state, mut, recovered, faults>>

\* _trigger_reconnect, which does nothing while the reconnect task, handler
\* on_reconnected included, is running.  The stream ends, noticed by the listen loop or by the keepalive loop, which
\* in that case ends too.
Drop(s) ==
  \E byKeepalive \in BOOLEAN :
    /\ link.up /\ ~Running(rec[s]) /\ CanBegin /\ Fault
    /\ link' = [up |-> FALSE, retry |-> TRUE, keepalive |-> ~byKeepalive]
    /\ feed' = <<>>
    /\ state' = "DEGRADED"
    /\ rec' = Start(s, "disconnect")
    /\ verdict' = "RECONCILING" /\ auth' = Cleared
    /\ UNCHANGED <<ex, led, mut, recovered>>

\* The keepalive loop of a connection that ended finds out at its next tick.
KeepaliveTick ==
  /\ ~link.up /\ link.keepalive
  /\ link' = [link EXCEPT !.keepalive = FALSE, !.retry = TRUE]
  /\ UNCHANGED <<ex, feed, led, rec, verdict, state, auth, mut, recovered, faults>>

\* _reconnect_loop connects and runs _on_user_stream_reconnected.
Reconnect(s) ==
  /\ ~link.up /\ link.retry /\ ~Running(rec[s]) /\ CanBegin
  /\ \A t \in Slots : rec[t].caller # "reconnected"
  /\ link' = [link EXCEPT !.up = TRUE, !.keepalive = TRUE]
  /\ state' = "SYNCING"
  /\ rec' = Start(s, "reconnected")
  /\ verdict' = "RECONCILING" /\ auth' = Cleared
  /\ UNCHANGED <<ex, feed, led, mut, recovered, faults>>

\* _on_ws_event.  An order without local lineage is quarantined.
\* Seeded fault: it is adopted.
Adopted(l, m) == identify(upsert_order(l, m.order, m.status), m.order)

AfterEvent(l, m) ==
  IF l.orders[m.order] = "ABSENT" THEN l
  ELSE LET seen == identify(upsert_order(l, m.order, m.status), m.order) IN
       IF m.trade > 0 THEN append_fills(seen, {<<m.order, m.trade>>}) ELSE seen

on_ws_event ==
  LET m == Head(feed)
      l == IF m.e = "ACCOUNT_UPDATE" THEN delta_position(led, m.pos) ELSE AfterEvent(led, m) IN
  /\ feed # <<>> /\ link.up
  /\ led' = set_account_snapshot(l, FALSE)
  /\ verdict' = "UNKNOWN"
  /\ feed' = Tail(feed)
  /\ rec' = Observed(rec)
  /\ UNCHANGED <<ex, link, state, auth, mut, recovered, faults>>

-----------------------------------------------------------------------------
(* Mutations, one at a time.                                               *)

OpenCount == Cardinality({o \in Own : led.orders[o] \in Working})

\* OrderExecutionGate.check, for the state it reads here: a risk-increasing
\* order needs the snapshot and room, a reducing one a position to reduce.
Verified == state = "READY" /\ verdict = "IN_SYNC" /\ link.up /\ Authenticated
Reduces(o, amount) == Side[o] * amount <= -Qty[o]
GateAllows(o) ==
  IF o \in ReduceOnly THEN Reduces(o, led.pos) ELSE led.snap /\ OpenCount < MaxOpen

Unused(o) == led.orders[o] = "ABSENT" /\ \A p \in Own : p < o => led.orders[p] # "ABSENT"

\* _execute_decision up to the request: the gate, the durable barrier, which
\* holds back only an order that increases risk, and the PENDING order in the
\* ledger.
Submit(o) ==
  /\ mut.pc = "idle" /\ Verified /\ Unused(o) /\ GateAllows(o)
  /\ \/ /\ led' = upsert_order(led, o, "PENDING")
        /\ mut' = [NoMut EXCEPT !.pc = "send", !.kind = "POST", !.order = o]
        /\ rec' = Disturb("mut")
        /\ UNCHANGED <<state, faults>>
     \/ /\ o \notin ReduceOnly /\ Fault /\ state' = "DEGRADED"
        /\ UNCHANGED <<led, mut, rec>>
  /\ UNCHANGED <<ex, feed, link, verdict, auth, recovered>>

\* Fenced, rate limited or a bad timestamp: the adapter degrades and the order
\* stays PENDING.
NotSent ==
  /\ mut.pc = "send" /\ Fault
  /\ state' = "DEGRADED" /\ mut' = Done(FALSE)
  /\ UNCHANGED <<ex, feed, link, led, rec, verdict, auth, recovered>>

\* A definitive rejection.
Rejected ==
  /\ mut.pc = "send" /\ Fault
  /\ CASE mut.kind = "POST" -> /\ led' = upsert_order(led, mut.order, "REJECTED")
                               /\ rec' = Replaced(Disturb("mut"), mut.order)
                               /\ mut' = Done(FALSE) /\ UNCHANGED state
       [] mut.kind = "PUT" -> mut' = NoMut /\ UNCHANGED <<led, rec, state>>
       [] mut.kind = "DELETE" -> /\ mut' = [mut EXCEPT !.pc = "resolve"] /\ state' = "RECONCILING"
                                 /\ UNCHANGED <<led, rec>>
  /\ UNCHANGED <<ex, feed, link, verdict, auth, recovered>>

\* An authentication failure of any of its requests: the order may or may not
\* be at the exchange, and what is left to cancel stays.
AuthRejected ==
  /\ mut.pc \in {"send", "fills", "resolve", "doubtfills", "all"} /\ Fault
  /\ auth' = "lost" /\ state' = "DEGRADED" /\ mut' = Done(FALSE)
  /\ UNCHANGED <<ex, feed, link, led, rec, verdict, recovered>>

\* The exchange carries the request out; the answer is on its way.
AfterRequest ==
  CASE mut.kind = "POST" -> [ex EXCEPT ![mut.order].status = "NEW"]
    [] mut.kind = "DELETE" /\ mut.order \in OpenOrders(ex) -> [ex EXCEPT ![mut.order].status = "CANCELED"]
    [] OTHER -> ex

Send ==
  LET e2 == AfterRequest IN
  /\ mut.pc = "send"
  /\ mut.kind = "PUT" => mut.order \in OpenOrders(ex)
  /\ ex' = e2
  /\ Emit(IF e2 = ex THEN <<>> ELSE <<OrderEvent(mut.order, e2[mut.order].status, 0)>>)
  /\ mut' = [mut EXCEPT !.pc = "reply", !.resp = e2[mut.order].status, !.done = e2[mut.order].done]
  /\ rec' = IF e2 = ex THEN rec ELSE Disturb("none")
  /\ UNCHANGED <<link, led, verdict, state, auth, recovered, faults>>

\* An immediate execution: the answer says FILLED.
SendFills ==
  LET o == mut.order
      e2 == [ex EXCEPT ![o] = [status |-> "FILLED", done |-> Qty[o]]] IN
  /\ mut.pc = "send" /\ mut.kind = "POST" /\ Qty[o] = 1
  /\ ex' = e2
  /\ Emit(<<AccountEvent(Position(e2)), OrderEvent(o, "FILLED", 1)>>)
  /\ mut' = [mut EXCEPT !.pc = "reply", !.resp = "FILLED", !.done = Qty[o]]
  /\ rec' = Disturb("none")
  /\ UNCHANGED <<link, led, verdict, state, auth, recovered, faults>>

\* The request or its answer is lost: _resolve_ambiguous_order or
\* _resolve_ambiguous_cancel.
Ambiguous ==
  /\ mut.pc \in {"send", "reply"} /\ Fault
  /\ state' = "RECONCILING"
  /\ mut' = [mut EXCEPT !.pc = "resolve"]
  /\ UNCHANGED <<ex, feed, link, led, rec, verdict, auth, recovered>>

\* The answer is applied to the ledger; _post_mutation_reconcile.
Reply ==
  LET o == mut.order IN
  /\ mut.pc = "reply" /\ CanBegin
  /\ mut.kind = "DELETE" => mut.resp = "CANCELED"
  /\ led' = IF mut.kind = "DELETE" THEN upsert_order(led, o, mut.resp)
            ELSE identify(upsert_order(led, o, mut.resp), o)
  /\ LET rs == IF mut.kind = "DELETE" THEN Disturb("mut") ELSE Replaced(Disturb("mut"), o) IN
     IF mut.resp \in Executed
     THEN mut' = [mut EXCEPT !.pc = "fills"] /\ rec' = rs /\ verdict' = "UNKNOWN" /\ UNCHANGED auth
     ELSE /\ mut' = [mut EXCEPT !.pc = "sync"]
          /\ rec' = [rs EXCEPT !["mut"] = Begun("post", TRUE)]
          /\ verdict' = "RECONCILING" /\ auth' = Cleared
  /\ UNCHANGED <<ex, feed, link, state, recovered, faults>>

\* A cancel answered with another status.
CancelRefused ==
  /\ mut.pc = "reply" /\ mut.kind = "DELETE" /\ mut.resp # "CANCELED"
  /\ mut' = [mut EXCEPT !.pc = "resolve"] /\ state' = "RECONCILING"
  /\ UNCHANGED <<ex, feed, link, led, rec, verdict, auth, recovered, faults>>

\* The fills the answer reported; without them the mutation is not verified.
ReplyFills ==
  LET o == mut.order
      ok == AddUp(o, [status |-> mut.resp, done |-> mut.done]) IN
  /\ mut.pc = "fills" /\ CanBegin
  /\ recovered' = recovered \cup TradesNow(o)
  /\ IF ok
     THEN /\ led' = append_fills(led, TradesNow(o))
          /\ mut' = [mut EXCEPT !.pc = "sync"]
          /\ rec' = [Disturb("mut") EXCEPT !["mut"] = Begun("post", TRUE)]
          /\ verdict' = "RECONCILING" /\ auth' = Cleared /\ UNCHANGED state
     ELSE /\ verdict' = "UNKNOWN" /\ state' = "DEGRADED" /\ mut' = Done(FALSE)
          /\ UNCHANGED <<led, rec, auth>>
  /\ UNCHANGED <<ex, feed, link, faults>>

\* Ask for the status of the order in doubt, then reconcile.
Resolve ==
  LET o == mut.order
      seen == IF ex[o].status = "NONE" THEN led
              ELSE identify(upsert_order(led, o, ex[o].status), o)
      withFills == mut.kind # "DELETE" /\ ex[o].status \in Executed
      rs == IF mut.kind = "DELETE" \/ seen = led THEN Disturb("mut") ELSE Replaced(Disturb("mut"), o) IN
  /\ mut.pc = "resolve" /\ CanBegin
  /\ \/ /\ led' = seen
        /\ IF withFills
           THEN /\ mut' = [mut EXCEPT !.pc = "doubtfills", !.resp = ex[o].status, !.done = ex[o].done]
                /\ rec' = rs /\ UNCHANGED <<verdict, auth>>
           ELSE /\ mut' = [mut EXCEPT !.pc = "sync"]
                /\ rec' = [rs EXCEPT !["mut"] = Begun("resolve", TRUE)]
                /\ verdict' = "RECONCILING" /\ auth' = Cleared
        /\ UNCHANGED faults
     \/ /\ Fault
        /\ mut' = [mut EXCEPT !.pc = "sync"]
        /\ rec' = [rec EXCEPT !["mut"] = Begun("resolve", FALSE)]
        /\ verdict' = "RECONCILING" /\ auth' = Cleared
        /\ UNCHANGED led
  /\ UNCHANGED <<ex, feed, link, state, recovered>>

ResolveFills ==
  LET o == mut.order
      ok == AddUp(o, [status |-> mut.resp, done |-> mut.done]) IN
  /\ mut.pc = "doubtfills" /\ CanBegin
  /\ recovered' = recovered \cup TradesNow(o)
  /\ led' = IF ok THEN append_fills(led, TradesNow(o)) ELSE led
  /\ mut' = [mut EXCEPT !.pc = "sync"]
  /\ rec' = [Disturb("mut") EXCEPT !["mut"] = Begun("resolve", ok)]
  /\ verdict' = "RECONCILING" /\ auth' = Cleared
  /\ UNCHANGED <<ex, feed, link, state, faults>>

\* _cancel_order and _modify_order, up to their request.
Change(o, kind) ==
  /\ mut.pc = "idle" /\ state = "READY"
  /\ kind = "PUT" => led.orders[o] \in Working /\ Verified
  /\ kind = "DELETE" => led.orders[o] # "ABSENT"
  /\ mut' = [NoMut EXCEPT !.pc = "send", !.kind = kind, !.order = o]
  /\ UNCHANGED <<ex, feed, link, led, rec, verdict, state, auth, recovered, faults>>

\* cancel_all_open_orders: DELETE what openOrders listed, one by one.  It does
\* not touch the ledger.
CancelAll ==
  /\ mut.pc = "idle" /\ state # "DISCONNECTED" /\ OpenOrders(ex) # {}
  /\ mut' = [NoMut EXCEPT !.pc = "all", !.todo = OpenOrders(ex)]
  /\ UNCHANGED <<ex, feed, link, led, rec, verdict, state, auth, recovered, faults>>

CancelNext ==
  LET o == Min(mut.todo)
      rest == mut.todo \ {o} IN
  /\ mut.pc = "all"
  /\ mut' = IF rest = {} THEN NoMut ELSE [mut EXCEPT !.todo = rest]
  /\ \/ /\ o \in OpenOrders(ex)
        /\ ex' = [ex EXCEPT ![o].status = "CANCELED"]
        /\ Emit(<<OrderEvent(o, "CANCELED", 0)>>)
        /\ rec' = Disturb("none")
        /\ UNCHANGED faults
     \/ o \notin OpenOrders(ex) /\ UNCHANGED <<ex, feed, rec, faults>>
     \/ Fault /\ UNCHANGED <<ex, feed, rec>>
  /\ UNCHANGED <<link, led, verdict, state, auth, recovered>>

\* emergency_flatten: take the position from the exchange; the order that closes
\* it is not held back by the state of the adapter, nor by the barrier.
EmergencyFlatten ==
  LET amount == Position(ex)
      taken == rest_position(led, amount) IN
  /\ mut.pc = "idle" /\ state # "DISCONNECTED"
  /\ \/ /\ amount = 0
        /\ CanBegin
        /\ led' = taken
        /\ mut' = [NoMut EXCEPT !.pc = "sync"]
        /\ rec' = [Disturb("mut") EXCEPT !["mut"] = Begun("flat", TRUE)]
        /\ verdict' = "RECONCILING" /\ auth' = Cleared
     \/ /\ amount # 0 /\ ~Authenticated
        /\ led' = taken
        /\ mut' = [NoMut EXCEPT !.pc = "flatten", !.ok = FALSE]
        /\ rec' = Disturb("mut")
        /\ UNCHANGED <<verdict, auth>>
     \/ \E o \in ReduceOnly :
          /\ Authenticated /\ Unused(o) /\ Reduces(o, amount)
          /\ led' = upsert_order(taken, o, "PENDING")
          /\ mut' = [NoMut EXCEPT !.pc = "send", !.kind = "POST", !.order = o, !.flat = TRUE]
          /\ rec' = Disturb("mut")
          /\ UNCHANGED <<verdict, auth>>
  /\ UNCHANGED <<ex, feed, link, state, recovered, faults>>

FlattenReconcile ==
  /\ mut.pc = "flatten" /\ CanBegin
  /\ mut' = [mut EXCEPT !.pc = "sync"]
  /\ rec' = [rec EXCEPT !["mut"] = Begun("flatten", mut.ok)]
  /\ verdict' = "RECONCILING" /\ auth' = Cleared
  /\ UNCHANGED <<ex, feed, link, led, state, recovered, faults>>

-----------------------------------------------------------------------------
Reconcile(s) ==
  \/ ReadPositions(s) \/ ReadOpenOrders(s)
  \/ RecoverTrades(s) \/ QueryOrder(s) \/ RecoverFills(s)

Mutate ==
  \/ Send \/ SendFills \/ Reply \/ CancelRefused \/ ReplyFills
  \/ Resolve \/ ResolveFills \/ CancelNext \/ FlattenReconcile

Next ==
  \/ \E o \in All : ExFill(o)
  \/ \E o \in Own : ExCancel(o)
  \/ ExForeign
  \/ \E s \in Slots : Reconcile(s) \/ ReconcileFails(s) \/ RequestFails(s)
  \/ \E s \in Tasks : Connect(s) \/ trigger_reconciliation(s) \/ Drop(s) \/ Reconnect(s)
  \/ KeepaliveTick \/ on_ws_event
  \/ \E o \in Own : Submit(o) \/ Change(o, "DELETE") \/ Change(o, "PUT")
  \/ Mutate \/ NotSent \/ Rejected \/ AuthRejected \/ Ambiguous
  \/ CancelAll \/ EmergencyFlatten

Spec == Init /\ [][Next]_vars

\* The loop runs every coroutine that can go on, the reconnect loop and the
\* keepalive loop never give up, and somebody keeps asking for a
\* reconciliation: POST /reconcile is the only caller left when no stream
\* event or mutation starts one.  Faults are finitely many.  Only the bound on
\* overlapping reconciliations makes a connection wait: strong fairness.
FairSpec ==
  /\ Spec
  /\ \A s \in Slots : WF_vars(Reconcile(s))
  /\ \A s \in Tasks : WF_vars(trigger_reconciliation(s)) /\ SF_vars(Connect(s)) /\ SF_vars(Reconnect(s))
  /\ WF_vars(Mutate) /\ WF_vars(on_ws_event) /\ WF_vars(KeepaliveTick)

-----------------------------------------------------------------------------
(* Properties.                                                             *)

Reconciliation ==
  [pc : {"idle", "positions", "open", "trades", "query", "fills"},
   caller : {"none", "connect", "trigger", "disconnect", "reconnected", "post", "resolve",
             "flat", "flatten"},
   boot : BOOLEAN, pos : Int, open : [All -> [status : ExStatus, done : Nat]],
   held : [Own -> Status \cup {"same"}], todo : Nat, bad : BOOLEAN, lost : SUBSET Trades,
   moved : BOOLEAN, reduced : BOOLEAN, known : BOOLEAN, view : {"calm", "moved", "event"},
   mine : Status, got : [status : ExStatus, done : Nat], queried : BOOLEAN,
   curable : BOOLEAN]

Mutation ==
  [pc : {"idle", "send", "reply", "fills", "resolve", "doubtfills", "sync", "all", "flatten"},
   kind : {"none", "POST", "PUT", "DELETE"}, order : Own, resp : ExStatus, done : Nat,
   todo : SUBSET All, flat : BOOLEAN, ok : BOOLEAN]

\* The variables have their types.
TypeOK ==
  /\ ex \in [All -> [status : ExStatus, done : Nat]]
  /\ feed \in Seq([e : {"ORDER_TRADE_UPDATE"}, order : All, status : ExStatus, trade : Nat]
                  \cup [e : {"ACCOUNT_UPDATE"}, pos : Int])
  /\ link \in [up : BOOLEAN, retry : BOOLEAN, keepalive : BOOLEAN]
  /\ led \in Ledger
  /\ rec \in [Slots -> Reconciliation]
  /\ verdict \in {"UNKNOWN", "RECONCILING", "MISMATCH", "IN_SYNC"}
  /\ state \in {"DISCONNECTED", "SYNCING", "READY", "RECONCILING", "DEGRADED"}
  /\ auth \in {"ok", "doubt", "lost"}
  /\ mut \in Mutation
  /\ recovered \subseteq Trades
  /\ faults \in Nat

\* A fill is in the ledger at most once, and only if the exchange executed it
\* for an order of this worker: the stream, bootstrap, order recovery and the
\* resolution of a lost reply all report the same trade (append_fill).
FillsAreExecutions ==
  \A t \in Trades : led.fills[t] > 0 =>
    led.fills[t] = 1 /\ t[1] \in Own /\ t[2] <= ex[t[1]].done

\* The ledger knows every order of this worker the exchange knows, from before
\* the exchange can report it, and never one of somebody else: _execute_decision
\* plans before it posts, _on_ws_event quarantines, bootstrap does not adopt.
LineageIsExact ==
  /\ \A o \in Own : ex[o].status # "NONE" => led.orders[o] # "ABSENT"
  /\ led.orders[Foreign] = "ABSENT" /\ Foreign \notin led.ids

Agrees(l, e) ==
  /\ \A o \in All : e[o].status \in Working => l.orders[o] = e[o].status
  /\ \A o \in Own : l.orders[o] \in Working => l.orders[o] = e[o].status
  /\ l.pos = Position(e)
  /\ \A t \in Executions(e) : l.fills[t] > 0

\* When neither the exchange nor anybody else touched the ledger since its first
\* read, a reconcile() that returns IN_SYNC leaves a ledger that agrees with the
\* exchange on working orders, position and fills (_collect_diffs).
InSyncIsTrue ==
  [][\A s \in Slots :
       (Running(rec[s]) /\ rec'[s].pc = "idle" /\ rec[s].view = "calm" /\ verdict' = "IN_SYNC")
         => Agrees(led', ex)]_vars

\* Where the first reads of a reconcile() met only such differences and nobody
\* disturbs it, it reports no mismatch: fills whose messages were lost with the
\* stream, and the position they moved, are recovered, and what it has recovered
\* it does not report.
RepairsWhatItCan ==
  [][\A s \in Slots :
       (rec[s].pc \in {"trades", "query", "fills"} /\ rec'[s].pc = "idle"
          /\ rec[s].view = "calm" /\ rec[s].curable /\ faults' = faults)
         => verdict' # "MISMATCH"]_vars

\* Once only repairable differences are left, reconciliation keeps returning to
\* IN_SYNC: fills whose messages were lost with the stream, and the position
\* they moved, are recovered.
Converges == <>[]Curable(led, ex) => []<>(verdict = "IN_SYNC")

\* Each update of an order invalidates all prior evidence (_on_ws_event): with
\* every message handled and nothing running, an IN_SYNC verdict is one of a
\* ledger that agrees with the exchange on this worker's orders and position.
EvidenceIsCurrent ==
  (/\ verdict = "IN_SYNC" /\ feed = <<>> /\ link.up /\ mut.pc = "idle"
   /\ \A s \in Slots : ~Running(rec[s]))
     => /\ led.pos = Position(ex)
        /\ \A o \in Own : (led.orders[o] \in Working \/ ex[o].status \in Working)
                            => led.orders[o] = ex[o].status

\* A stream that ended is brought back (_trigger_reconnect).
StreamRecovers == ~link.up /\ state # "DISCONNECTED" ~> link.up
=============================================================================
