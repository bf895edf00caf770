--------------------------- MODULE ExecutionLedger ---------------------------
(***************************************************************************)
(* InMemoryLedger: what the worker believes about its orders, their fills  *)
(* and its position, as a record and one operator per method.  There is    *)
(* one symbol, every trade is one unit, and trade k of order o is <<o, k>>.*)
(***************************************************************************)
EXTENDS Integers, FiniteSets

CONSTANTS
  N,           \* orders this worker may submit: 1 .. N, in submission order
  Qty,         \* [0..N -> Nat \ {0}]; order 0 belongs to somebody else
  Side,        \* [0..N -> {-1, 1}]
  ReduceOnly   \* the own orders that only reduce

Own == 1..N
Foreign == 0
All == 0..N

ASSUME LedgerAssumption ==
  /\ N \in Nat \ {0}
  /\ Qty \in [All -> Nat \ {0}]
  /\ Side \in [All -> {-1, 1}]
  /\ ReduceOnly \subseteq Own

TradesOf(o) == {o} \X (1..Qty[o])
Trades == UNION {TradesOf(o) : o \in All}

Working == {"NEW", "PARTIALLY_FILLED"}
Executed == {"FILLED", "PARTIALLY_FILLED"}
Status == {"ABSENT", "PENDING", "NEW", "PARTIALLY_FILLED", "FILLED", "CANCELED", "REJECTED"}

\* orders: the status by client order id.  ids: the orders whose exchange id
\* is known.  fills: how often a trade was recorded.  priced: the position row
\* carries the mark price only a REST row brings.  snap: an account snapshot
\* is held.
Ledger == [orders : [All -> Status], ids : SUBSET All, fills : [Trades -> Nat],
           pos : Int, priced : BOOLEAN, snap : BOOLEAN, init : BOOLEAN]

EmptyLedger == [orders |-> [o \in All |-> "ABSENT"], ids |-> {},
                fills |-> [t \in Trades |-> 0],
                pos |-> 0, priced |-> FALSE, snap |-> FALSE, init |-> FALSE]

\* upsert_order
upsert_order(l, o, s) == [l EXCEPT !.orders[o] = s]
identify(l, o) == [l EXCEPT !.ids = @ \cup {o}]

\* append_fill of each of a set of trades.
\* Seeded fault: the key is not looked up.
append_always(l, T) ==
  [l EXCEPT !.fills = [t \in Trades |-> IF t \in T THEN @[t] + 1 ELSE @[t]]]

append_fills(l, T) ==
  [l EXCEPT !.fills = [t \in Trades |-> IF t \in T /\ @[t] = 0 THEN 1 ELSE @[t]]]

\* replace_positions and upsert_position with a REST row, which is complete.
rest_position(l, amount) == [l EXCEPT !.pos = amount, !.priced = TRUE]

\* replace_positions of bootstrap, which passes active rows only.
active_positions(l, amount) == [l EXCEPT !.pos = amount, !.priced = (amount # 0)]

\* clear_positions_for_symbol
clear_positions(l) == [l EXCEPT !.pos = 0, !.priced = FALSE]

\* upsert_position with the delta of an ACCOUNT_UPDATE: an active amount is
\* refused when no earlier row supplies the mark price.
delta_position(l, amount) ==
  IF amount # 0 /\ ~l.priced THEN l ELSE [l EXCEPT !.pos = amount]

set_account_snapshot(l, b) == [l EXCEPT !.snap = b]

FillsOf(l, o) == {t \in TradesOf(o) : l.fills[t] > 0}
=============================================================================
