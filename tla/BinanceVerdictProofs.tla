------------------------- MODULE BinanceVerdictProofs -------------------------
(***************************************************************************)
(* The verdict of a reconcile() that nobody disturbed, for any number of   *)
(* orders of any size: IN_SYNC is true of the ledger it leaves, and        *)
(* differences it is able to repair are not reported as a mismatch.        *)
(***************************************************************************)
EXTENDS BinanceVenueProofs

\* The loop of _collect_diffs, with ledger l, before it looks at order k: nobody
\* replaced an object of its list, a foreign execution stays unexplained, and
\* what it passed without a difference agrees with the exchange.
Passed(l, e, k) == \A o \in Own : o < k /\ l.orders[o] \in Working => l.orders[o] = e[o].status
ForeignTrades(e) == {t \in Executions(e) : t[1] = Foreign}
Reviewing(r, l, e, k) ==
  /\ \A o \in Own : r.held[o] = IF l.orders[o] = "ABSENT" THEN "ABSENT" ELSE "same"
  /\ ForeignTrades(e) \subseteq r.lost
  /\ ~r.bad => Passed(l, e, k)

\* Every own execution is recorded; curable differences are repaired so far.
Recorded(l, e) == \A t \in Executions(e) : t[1] \in Own => l.fills[t] > 0
Repaired(r, l, e, k) ==
  /\ ~r.bad /\ Curable(l, e) /\ r.lost \subseteq ForeignTrades(e)
  /\ \A o \in Own : o < k /\ e[o].status = "FILLED" => r.moved /\ l.orders[o] = "FILLED"
Looping(r, l, e, k) ==
  /\ Reviewing(r, l, e, k)
  /\ Recorded(l, e)
  /\ r.curable => Repaired(r, l, e, k)

\* The request it waits for.
Asking(r, l, e) ==
  /\ r.pc = "query" => Query(l, r, r.todo) /\ r.mine = l.orders[r.todo]
  /\ r.pc = "fills" /\ r.queried => Query(l, r, r.todo) /\ r.got = e[r.todo]
  /\ r.pc = "fills" /\ ~r.queried =>
       /\ Fills(l, r, r.todo) /\ r.got = e[r.todo]
       /\ ~r.bad /\ l.orders[r.todo] \in Working => l.orders[r.todo] = e[r.todo].status

\* What a reconcile() holds while its view is calm.
Calm(r, l, e) ==
  r.view = "calm" =>
    /\ r.pc \in {"open", "trades", "query", "fills"} => r.pos = Position(e)
    /\ r.pc \in {"trades", "query", "fills"} => r.open = OpenView(e)
    /\ r.pc = "trades" => (r.curable => Curable(l, e))
    /\ r.pc \in {"query", "fills"} => Looping(r, l, e, r.todo) /\ Asking(r, l, e)

\* The mutation in progress reconciles only at its end; only own trades are ever
\* recovered order by order.
MutSync == Running(rec["mut"]) => mut.pc = "sync"
OwnTrades == \A t \in recovered : t[1] \in Own

Undisturbed ==
  /\ \A s \in Slots : Calm(rec[s], led, ex)
  /\ MutSync
  /\ OwnTrades
-----------------------------------------------------------------------------
(* What the loop sees.                                                     *)

LEMMA OwnAll == Own \subseteq All /\ Foreign \in All /\ Foreign \notin Own
  BY LedgerAssumption DEF Own, All, Foreign

\* openOrders lists the working orders, as they are.
LEMMA FoundIs ==
  ASSUME NEW e, NEW r, r.open = OpenView(e), NEW o \in All
  PROVE  /\ Found(r, o) <=> e[o].status \in Working
         /\ Found(r, o) => r.open[o] = e[o]
  BY DEF Found, OpenView, OpenOrders, Working

\* The list shows the ledger.
LEMMA LocalCalm ==
  ASSUME NEW e, NEW r, NEW l, NEW k, Reviewing(r, l, e, k), NEW o \in Own
  PROVE  Local(l, r, o) = l.orders[o]
  BY DEF Reviewing, Local

\* The tests of the loop in terms of ledger and exchange.
LEMMA TestsAre ==
  ASSUME NEW e, NEW r, NEW l, NEW k, Reviewing(r, l, e, k), r.open = OpenView(e), NEW o \in Own
  PROVE  /\ Differs(l, r, o) <=> /\ l.orders[o] # "ABSENT" /\ e[o].status \in Working
                                 /\ l.orders[o] # e[o].status
         /\ Query(l, r, o) <=> /\ l.orders[o] # "ABSENT"
                               /\ e[o].status \in Working => l.orders[o] \notin Working \cup Executed
         /\ Fills(l, r, o) <=> /\ e[o].status \in Working
                               /\ \/ l.orders[o] = "FILLED"
                                  \/ l.orders[o] = "PARTIALLY_FILLED" /\ e[o].done > 0
<1>1. o \in All
  BY OwnAll
<1>2. Local(l, r, o) = l.orders[o]
  BY LocalCalm
<1>3. (Found(r, o) <=> e[o].status \in Working) /\ (Found(r, o) => r.open[o] = e[o])
  BY <1>1, FoundIs
<1> QED
  BY <1>2, <1>3 DEF Differs, Query, Fills

\* The records of one loop differ in fields Looping does not read.
LEMMA LoopingKept ==
  ASSUME NEW e, NEW l, NEW k, NEW r, NEW q, Looping(r, l, e, k),
         q.held = r.held, q.lost = r.lost, q.bad = r.bad, q.moved = r.moved, q.curable = r.curable
  PROVE  Looping(q, l, e, k)
  BY DEF Looping, Reviewing, Repaired

\* The loop runs on to the next order it makes a request for.
LEMMA LoopsOn ==
  ASSUME NEW e, NEW l \in Ledger, NEW r \in Reconciliation, NEW k \in 1..(N + 1),
         r.open = OpenView(e), Reviewing(r, l, e, k)
  PROVE  LET q == Compared(l, r, k) n == NextOrder(l, r, k) IN
         /\ Reviewing(q, l, e, n)
         /\ Looping(r, l, e, k) => Looping(q, l, e, n)
         /\ n <= N /\ Fills(l, r, n) /\ ~q.bad /\ l.orders[n] \in Working => l.orders[n] = e[n].status
<1> DEFINE q == Compared(l, r, k)
           n == NextOrder(l, r, k)
<1>1. /\ q.bad <=> r.bad \/ \E o \in k..N : o <= n /\ Differs(l, r, o)
      /\ q.held = r.held /\ q.lost = r.lost /\ q.moved = r.moved /\ q.curable = r.curable
      /\ q \in Reconciliation
  BY ComparedIs
<1>2. n \in k..(N + 1) /\ \A o \in k..N : o < n => ~Fills(l, r, o) /\ ~Query(l, r, o)
  BY NextOrderIs
<1> HIDE DEF q, n
<1>0. k \in Nat /\ N \in Nat /\ n \in Nat /\ k >= 1
  BY <1>2, LedgerAssumption
<1>3. ~q.bad => Passed(l, e, n)
  <2> SUFFICES ASSUME ~q.bad, NEW o \in Own, o < n, l.orders[o] \in Working
               PROVE  l.orders[o] = e[o].status
    BY DEF Passed
  <2>1. CASE o < k
    BY <1>1, <2>1 DEF Reviewing, Passed
  <2>2. CASE ~(o < k)
    <3>1. o \in k..N
      BY <1>0, <2>2 DEF Own
    <3>2. ~Query(l, r, o) /\ ~Differs(l, r, o)
      BY <1>0, <1>1, <1>2, <3>1
    <3> QED
      BY <3>2, TestsAre DEF Working
  <2> QED
    BY <2>1, <2>2
<1>4. Looping(r, l, e, k) /\ q.curable => Repaired(q, l, e, n)
  <2> SUFFICES ASSUME Looping(r, l, e, k), q.curable PROVE Repaired(q, l, e, n)
    OBVIOUS
  <2>1. Repaired(r, l, e, k)
    BY <1>1 DEF Looping
  <2>2. ~q.bad
    <3>1. \A o \in Own : ~Differs(l, r, o)
      BY <2>1, TestsAre DEF Repaired, Curable, Working
    <3>2. k..N \subseteq Own
      BY <1>0 DEF Own
    <3> QED
      BY <1>1, <2>1, <3>1, <3>2 DEF Repaired
  <2>3. ASSUME NEW o \in Own, o < n, e[o].status = "FILLED"
        PROVE  q.moved /\ l.orders[o] = "FILLED"
    <3>1. CASE o < k
      BY <1>1, <2>1, <2>3, <3>1 DEF Repaired
    <3>2. CASE ~(o < k)
      <4>1. o \in k..N
        BY <1>0, <3>2 DEF Own
      <4>2. ~Query(l, r, o)
        BY <1>2, <2>3, <4>1
      <4> QED
        BY <2>1, <2>3, <4>2, TestsAre DEF Repaired, Curable, Working
    <3> QED
      BY <3>1, <3>2
  <2> QED
    BY <1>1, <2>1, <2>2, <2>3 DEF Repaired
<1>5. /\ Reviewing(q, l, e, n)
      /\ Looping(r, l, e, k) => Looping(q, l, e, n)
  BY <1>1, <1>3, <1>4 DEF Looping, Reviewing
<1>6. ASSUME n <= N, Fills(l, r, n), ~q.bad, l.orders[n] \in Working PROVE l.orders[n] = e[n].status
  <2>1. n \in k..N /\ n \in Own
    BY <1>0, <1>2, <1>6 DEF Own
  <2>2. ~Differs(l, r, n)
    BY <1>0, <1>1, <1>6, <2>1
  <2> QED
    BY <1>6, <2>1, <2>2, TestsAre DEF Working
<1> QED
  BY <1>5, <1>6 DEF q, n
-----------------------------------------------------------------------------
(* The verdict.                                                            *)

LEMMA RowIs ==
  ASSUME NEW l \in Ledger, NEW p \in Int, NEW b \in BOOLEAN
  PROVE  LET q == [l EXCEPT !.pos = p, !.priced = b] IN
         q \in Ledger /\ q.orders = l.orders /\ q.ids = l.ids /\ q.fills = l.fills /\ q.pos = p
  BY DEF Ledger

LEMMA SeededIs ==
  ASSUME NEW l \in Ledger, NEW r \in Reconciliation
  PROVE  LET q == Seeded(l, r) IN
         /\ q \in Ledger /\ q.orders = l.orders /\ q.ids = l.ids /\ q.fills = l.fills
         /\ q.pos = l.pos \/ q.pos = r.pos
         /\ r.moved => q.pos = r.pos
<1>0. r.pos \in Int /\ 0 \in Int /\ TRUE \in BOOLEAN /\ FALSE \in BOOLEAN
  BY DEF Reconciliation
<1> DEFINE a == rest_position(l, r.pos)
           taken == IF r.moved THEN a ELSE l
<1>1. a \in Ledger /\ a.orders = l.orders /\ a.ids = l.ids /\ a.fills = l.fills /\ a.pos = r.pos
  BY <1>0, RowIs DEF rest_position
<1> HIDE DEF a
<1>2. /\ taken \in Ledger /\ taken.orders = l.orders /\ taken.ids = l.ids /\ taken.fills = l.fills
      /\ taken.pos = l.pos \/ taken.pos = r.pos
      /\ r.moved => taken.pos = r.pos
  BY <1>1
<1>3. Seeded(l, r) = IF r.reduced /\ r.pos = 0 THEN clear_positions(taken) ELSE taken
  BY DEF Seeded, a
<1> HIDE DEF taken
<1> DEFINE c == clear_positions(taken)
<1>4. c \in Ledger /\ c.orders = taken.orders /\ c.ids = taken.ids /\ c.fills = taken.fills /\ c.pos = 0
  BY <1>0, <1>2, RowIs DEF clear_positions
<1> HIDE DEF c
<1>5. Seeded(l, r) = IF r.reduced /\ r.pos = 0 THEN c ELSE taken
  BY <1>3 DEF c
<1> QED
  BY <1>2, <1>4, <1>5

LEMMA SnapIs ==
  ASSUME NEW l \in Ledger, NEW b \in BOOLEAN
  PROVE  LET q == set_account_snapshot(l, b) IN
         q \in Ledger /\ q.orders = l.orders /\ q.fills = l.fills /\ q.pos = l.pos
  BY DEF Ledger, set_account_snapshot

LEMMA CommittedIs ==
  ASSUME NEW l \in Ledger, NEW r \in Reconciliation
  PROVE  LET q == Committed(l, r) IN
         /\ q.fills = l.fills /\ q.pos = r.pos
         /\ \A o \in All : q.orders[o] = IF r.boot /\ Found(r, o) THEN r.open[o].status ELSE l.orders[o]
<1>0. r.pos \in Int /\ TRUE \in BOOLEAN /\ (r.pos # 0) \in BOOLEAN
  BY DEF Reconciliation
<1>1. CASE ~r.boot
  <2> DEFINE a == rest_position(l, r.pos)
  <2>1. a \in Ledger /\ a.orders = l.orders /\ a.fills = l.fills /\ a.pos = r.pos
    BY <1>0, RowIs DEF rest_position
  <2>2. Committed(l, r) = set_account_snapshot(a, TRUE)
    BY <1>1 DEF Committed
  <2> HIDE DEF a
  <2> QED
    BY <1>0, <1>1, <2>1, <2>2, SnapIs
<1>2. CASE r.boot
  <2> DEFINE a == active_positions(l, r.pos)
             F == {o \in All : Found(r, o)}
             G == [o \in All |-> IF Found(r, o) THEN r.open[o].status ELSE a.orders[o]]
             I == a.ids \cup F
             q == [a EXCEPT !.orders = G, !.ids = I, !.init = TRUE]
  <2>1. a \in Ledger /\ a.orders = l.orders /\ a.fills = l.fills /\ a.pos = r.pos
    <3> DEFINE b == r.pos # 0
    <3>1. b \in BOOLEAN /\ a = [l EXCEPT !.pos = r.pos, !.priced = b]
      BY DEF active_positions
    <3> HIDE DEF a, b
    <3> QED
      BY <1>0, <3>1 DEF Ledger
  <2>2. Committed(l, r) = set_account_snapshot(q, TRUE)
    BY <1>2 DEF Committed
  <2> HIDE DEF a
  <2>3. \A o \in All : Found(r, o) => r.open[o].status \in Status
    BY DEF Found, Reconciliation, ExStatus, Status
  <2>4. G \in [All -> Status] /\ I \in SUBSET All
    BY <2>1, <2>3 DEF Ledger
  <2>5. \A o \in All : G[o] = IF Found(r, o) THEN r.open[o].status ELSE l.orders[o]
    BY <2>1
  <2> HIDE DEF F, G, I
  <2>6. q \in Ledger /\ q.orders = G /\ q.fills = a.fills /\ q.pos = a.pos
    BY <2>1, <2>4 DEF Ledger
  <2> HIDE DEF q
  <2> DEFINE c == set_account_snapshot(q, TRUE)
  <2>7. c.orders = q.orders /\ c.fills = q.fills /\ c.pos = q.pos
    BY <1>0, <2>6, SnapIs
  <2> HIDE DEF c
  <2>8. Committed(l, r) = c
    BY <2>2 DEF c
  <2> QED
    BY <1>2, <2>1, <2>5, <2>6, <2>7, <2>8
<1> QED
  BY <1>1, <1>2

\* Where the loop has found no difference, the ledger left behind agrees with the
\* exchange.
LEMMA EndAgrees ==
  ASSUME NEW e, ExOK(e), NEW K, NEW l, LedOK(l, e, K), NEW r \in Reconciliation,
         r.pos = Position(e), r.open = OpenView(e), Reviewing(r, l, e, N + 1), OwnTrades,
         Recorded(l, e), ~Unexplained(Seeded(l, r), r)
  PROVE  Agrees(Committed(Seeded(l, r), r), e)
<1> DEFINE m == Seeded(l, r)
           c == Committed(m, r)
<1>0. l \in Ledger
  BY DEF LedOK
<1>1. m \in Ledger /\ m.orders = l.orders /\ m.fills = l.fills
  BY <1>0, SeededIs
<1>2. ~Unexplained(m, r)
  OBVIOUS
<1> HIDE DEF m
<1>3. /\ c.fills = m.fills /\ c.pos = r.pos
      /\ \A o \in All : c.orders[o] = IF r.boot /\ Found(r, o) THEN r.open[o].status ELSE m.orders[o]
  BY <1>1, CommittedIs
<1> HIDE DEF c
<1>4. ~r.bad /\ r.lost \subseteq recovered /\ \A o \in All : Found(r, o) => m.orders[o] \in Working
  BY <1>2 DEF Unexplained
<1>5. \A o \in All : Found(r, o) <=> e[o].status \in Working
  BY FoundIs
<1>6. \A o \in All : Found(r, o) => r.open[o] = e[o]
  BY FoundIs
<1>7. \A o \in Own : l.orders[o] \in Working => l.orders[o] = e[o].status
  <2>1. \A o \in Own : o < N + 1
    BY LedgerAssumption DEF Own
  <2> QED
    BY <1>4, <2>1 DEF Reviewing, Passed
<1>8. ~Found(r, Foreign)
  BY <1>1, <1>4, OwnAll DEF LedOK, Working
<1>9. \A o \in All : o # Foreign => o \in Own
  BY LedgerAssumption DEF All, Own, Foreign
<1>10. \A o \in All : e[o].status \in Working => c.orders[o] = e[o].status
  BY <1>1, <1>3, <1>4, <1>5, <1>6, <1>7, <1>8, <1>9
<1>11. \A o \in Own : c.orders[o] \in Working => c.orders[o] = e[o].status
  BY <1>1, <1>3, <1>6, <1>7, OwnAll
<1>12. \A t \in Executions(e) : c.fills[t] > 0
  <2> TAKE t \in Executions(e)
  <2>1. t \in Trades /\ t[1] \in All
    BY TradeShape DEF Executions
  <2>2. t[1] # Foreign
    BY <1>4, OwnAll DEF Reviewing, ForeignTrades, OwnTrades
  <2> QED
    BY <1>1, <1>3, <1>9, <2>1, <2>2 DEF Recorded
<1> QED
  BY <1>3, <1>10, <1>11, <1>12 DEF Agrees, c, m

\* A set of trades 1 to n of an order has n elements.
LEMMA TradesOfCardinality ==
  ASSUME NEW o \in All PROVE Cardinality(TradesOf(o)) = Qty[o]
<1>1. IsFiniteSet({o}) /\ Cardinality({o}) = 1
  BY FS_Singleton
<1>2. Qty[o] \in Nat /\ Qty[o] > 0
  BY LedgerAssumption
<1>3. IsFiniteSet(1..Qty[o]) /\ Cardinality(1..Qty[o]) = Qty[o]
  <2>1. 1 \in Int /\ Qty[o] \in Int
    BY <1>2
  <2>2. /\ IsFiniteSet(1..Qty[o])
        /\ Cardinality(1..Qty[o]) = IF 1 > Qty[o] THEN 0 ELSE Qty[o] - 1 + 1
    BY <2>1, FS_Interval
  <2> QED
    BY <1>2, <2>2
<1>4. Cardinality({o} \X (1..Qty[o])) = Cardinality({o}) * Cardinality(1..Qty[o])
  <2> DEFINE S == {o}
             T == 1..Qty[o]
  <2>1. IsFiniteSet(S) /\ IsFiniteSet(T)
    BY <1>1, <1>3
  <2> HIDE DEF S, T
  <2>2. Cardinality(S \X T) = Cardinality(S) * Cardinality(T)
    BY <2>1, FS_Product, Zenon
  <2> QED
    BY <2>2 DEF S, T
<1>5. Cardinality({o} \X (1..Qty[o])) = 1 * Qty[o]
  BY <1>1, <1>3, <1>4, Zenon
<1> QED
  BY <1>2, <1>5 DEF TradesOf

\* Where only curable differences were met, none is left at the end.
LEMMA EndRepaired ==
  ASSUME NEW e, ExOK(e), NEW K, NEW l, LedOK(l, e, K), NEW r \in Reconciliation,
         r.pos = Position(e), r.open = OpenView(e), Looping(r, l, e, N + 1), r.curable
  PROVE  ~Unexplained(Seeded(l, r), r)
<1> DEFINE m == Seeded(l, r)
<1>0. l \in Ledger /\ ~r.bad /\ Curable(l, e)
  BY DEF LedOK, Looping, Repaired
<1>1. /\ m \in Ledger /\ m.orders = l.orders /\ m.fills = l.fills
      /\ m.pos = l.pos \/ m.pos = r.pos
      /\ r.moved => m.pos = r.pos
  BY <1>0, SeededIs
<1> HIDE DEF m
<1>2. \A o \in Own : e[o].status = "FILLED" => r.moved /\ l.orders[o] = "FILLED"
  <2>1. \A o \in Own : o < N + 1
    BY LedgerAssumption DEF Own
  <2> QED
    BY <2>1 DEF Looping, Repaired
<1>3. r.lost = {}
  <2>1. e[Foreign].done = 0
    BY <1>0, OwnAll DEF Curable, ExOK, OrderOK
  <2> SUFFICES ASSUME NEW t \in Executions(e), t[1] = Foreign PROVE FALSE
    BY DEF Looping, Repaired, ForeignTrades
  <2>2. t[2] \in Nat /\ t[2] > 0 /\ t[2] <= e[t[1]].done
    BY TradeShape DEF Executions
  <2> QED
    BY <2>1, <2>2
<1>4. \A o \in All : Found(r, o) => m.orders[o] \in Working
  <2> TAKE o \in All
  <2>1. Found(r, o) <=> e[o].status \in Working
    BY FoundIs
  <2>2. o = Foreign \/ o \in Own
    BY LedgerAssumption DEF All, Own, Foreign
  <2> QED
    BY <1>0, <1>1, <2>1, <2>2 DEF Curable, Working
<1>5. m.pos = r.pos
  BY <1>0, <1>1, <1>2 DEF Curable
<1>6. ASSUME NEW o \in Own
      PROVE  LET n == Cardinality(FillsOf(m, o)) IN
             ~(Local(m, r, o) = "FILLED" /\ n # Qty[o]) /\ ~(Local(m, r, o) = "PARTIALLY_FILLED" /\ n = 0)
  <2>0. o \in All /\ OrderOK(e[o], Qty[o]) /\ Qty[o] \in Nat
    BY OwnAll, LedgerAssumption DEF ExOK
  <2>1. Local(m, r, o) = l.orders[o]
    BY <1>1 DEF Local, Looping, Reviewing
  <2>2. ASSUME NEW t \in TradesOf(o), t[2] <= e[o].done PROVE t \in FillsOf(m, o)
    <3>1. t \in Trades /\ t[1] = o
      BY <2>0 DEF Trades, TradesOf
    <3>2. t \in Executions(e)
      BY <2>2, <3>1 DEF Executions
    <3> QED
      BY <1>1, <3>1, <3>2 DEF FillsOf, Looping, Recorded
  <2>3. CASE l.orders[o] = "FILLED"
    <3>1. e[o].done = Qty[o]
      BY <1>0, <2>0, <2>3 DEF Curable, Working, Executed, OrderOK
    <3>2. \A t \in TradesOf(o) : t[2] <= e[o].done
      BY <2>0, <3>1 DEF TradesOf
    <3>3. FillsOf(m, o) = TradesOf(o)
      BY <2>2, <3>2 DEF FillsOf
    <3> QED
      BY <2>0, <2>1, <2>3, <3>3, TradesOfCardinality
  <2>4. CASE l.orders[o] = "PARTIALLY_FILLED"
    <3>1. e[o].status = "PARTIALLY_FILLED"
      BY <1>0, <1>2, <2>4 DEF Curable, Working, Executed
    <3>2. e[o].done > 0 /\ e[o].done < Qty[o] /\ e[o].done \in Nat
      BY <2>0, <3>1 DEF OrderOK, Working
    <3> DEFINE t == <<o, 1>>
    <3>3. t \in TradesOf(o) /\ t[2] <= e[o].done
      BY <2>0, <3>2 DEF TradesOf
    <3>4. FillsOf(m, o) # {}
      BY <2>2, <3>3
    <3>5. IsFiniteSet(FillsOf(m, o))
      <4>1. FillsOf(m, o) \subseteq Trades
        BY <2>0 DEF FillsOf, Trades
      <4> QED
        BY <4>1, TradesFinite, FS_Subset
    <3>6. Cardinality(FillsOf(m, o)) # 0
      BY <3>4, <3>5, FS_EmptySet
    <3> QED
      BY <2>1, <2>4, <3>6
  <2> QED
    BY <2>1, <2>3, <2>4
<1> QED
  BY <1>0, <1>3, <1>4, <1>5, <1>6 DEF Unexplained, m

\* A loop that starts with the first order and makes no request and finds no
\* difference has met no order with an execution.
LEMMA NothingExecuted ==
  ASSUME NEW e, ExOK(e), NEW l \in Ledger, NEW r \in Reconciliation, r.open = OpenView(e),
         Reviewing(r, l, e, 1), \A o \in Own : e[o].status # "NONE" => l.orders[o] # "ABSENT",
         NextOrder(l, r, 1) > N, ~Compared(l, r, 1).bad
  PROVE  Recorded(l, e)
<1>0. 1 \in 1..(N + 1) /\ 1..N = Own /\ N \in Nat
  BY LedgerAssumption DEF Own
<1>1. \A o \in Own : ~Fills(l, r, o) /\ ~Query(l, r, o)
  <2>1. \A o \in 1..N : o < NextOrder(l, r, 1) => ~Fills(l, r, o) /\ ~Query(l, r, o)
    BY <1>0, NextOrderIs
  <2>2. NextOrder(l, r, 1) \in 1..(N + 1)
    BY <1>0, NextOrderIs
  <2> QED
    BY <1>0, <2>1, <2>2
<1>2. \A o \in Own : ~Differs(l, r, o)
  <2>1. ~(\E o \in 1..N : o <= NextOrder(l, r, 1) /\ Differs(l, r, o))
    BY <1>0, ComparedIs
  <2>2. NextOrder(l, r, 1) \in 1..(N + 1)
    BY <1>0, NextOrderIs
  <2> QED
    BY <1>0, <2>1, <2>2
<1>3. ASSUME NEW o \in Own PROVE e[o].done = 0
  <2>1. OrderOK(e[o], Qty[o])
    BY OwnAll DEF ExOK
  <2>2. CASE e[o].status = "NONE"
    BY <2>1, <2>2 DEF OrderOK
  <2>3. CASE e[o].status # "NONE"
    <3>1. l.orders[o] # "ABSENT"
      BY <2>3
    <3>2. e[o].status \in Working /\ l.orders[o] = e[o].status
      BY <1>1, <1>2, <3>1, TestsAre
    <3> QED
      BY <1>1, <2>1, <3>2, TestsAre DEF OrderOK, Working
  <2> QED
    BY <2>2, <2>3
<1>4. \A t \in Executions(e) : t[1] \notin Own
  <2> SUFFICES ASSUME NEW t \in Executions(e), t[1] \in Own PROVE FALSE
    OBVIOUS
  <2>1. t[2] \in Nat /\ t[2] > 0 /\ t[2] <= e[t[1]].done
    BY TradeShape DEF Executions
  <2> QED
    BY <1>3, <2>1
<1> QED
  BY <1>4 DEF Recorded

\* What a reconcile() that returns has to be right about.
Right(r) ==
  /\ verdict' = "IN_SYNC" => Agrees(led', ex)
  /\ r.curable => verdict' # "MISMATCH"

\* The loop of an undisturbed reconcile() goes on undisturbed or returns a right
\* verdict.
LEMMA LoopCalm ==
  ASSUME Inv, OwnTrades, NEW s \in Slots, NEW l, LedOK(l, ex, Known), NEW r \in Reconciliation,
         NEW rs, RecsOK(rs), NEW k \in 1..(N + 1), GoOn(s, l, r, rs, k),
         r.pos = Position(ex), r.open = OpenView(ex), Looping(r, l, ex, k)
  PROVE  Calm(rec'[s], led', ex) /\ (rec'[s].pc = "idle" => Right(r))
<1> DEFINE n == NextOrder(l, r, k)
           q == Compared(l, r, k)
           f == IF Fills(l, r, n) THEN ToFills(r, q, n) ELSE ToQuery(l, r, q, n)
<1>1. l \in Ledger /\ ExOK(ex)
  BY Parts DEF LedOK
<1>2. /\ q \in Reconciliation /\ q.todo = n /\ q.pos = r.pos /\ q.open = r.open /\ q.curable = r.curable
      /\ q.held = r.held
  BY <1>1, ComparedIs
<1>9. q \in Reconciliation
  BY <1>2
<1>3. n \in k..(N + 1) /\ (n <= N => Fills(l, r, n) \/ Query(l, r, n))
  BY NextOrderIs
<1>4. IF n > N THEN Conclude(s, l, q, rs)
      ELSE /\ led' = l
           /\ rec' = [rs EXCEPT ![s] = f]
           /\ UNCHANGED <<verdict, state, mut, link>>
  BY GoOnIs
<1>5. Reviewing(r, l, ex, k)
  BY DEF Looping
<1>6. /\ Looping(q, l, ex, n)
      /\ n <= N /\ Fills(l, r, n) /\ ~q.bad /\ l.orders[n] \in Working => l.orders[n] = ex[n].status
  BY <1>1, <1>5, LoopsOn
<1> HIDE DEF n, q
<1>7. CASE n > N
  <2> DEFINE m == Seeded(l, q)
  <2>1. n = N + 1
    BY <1>3, <1>7, LedgerAssumption
  <2>2. q.pos = Position(ex) /\ q.open = OpenView(ex) /\ Looping(q, l, ex, N + 1)
    BY <1>2, <1>6, <2>1
  <2>3. /\ led' = IF ~Unexplained(m, q) THEN Committed(m, q) ELSE m
        /\ verdict' = IF ~Unexplained(m, q) THEN "IN_SYNC" ELSE "MISMATCH"
        /\ rec' = [rs EXCEPT ![s] = NoRec]
    BY <1>4, <1>7 DEF Conclude
  <2>4. rec'[s] = NoRec
    BY <2>3 DEF RecsOK
  <2>5. ~Unexplained(m, q) => Agrees(Committed(m, q), ex)
    BY <1>1, <1>2, <2>2, EndAgrees DEF Looping
  <2>6. q.curable => ~Unexplained(m, q)
    BY <1>1, <1>2, <2>2, EndRepaired
  <2> HIDE DEF m
  <2>7. Right(r)
    BY <1>2, <2>3, <2>5, <2>6 DEF Right
  <2>8. Calm(NoRec, led', ex)
    BY DEF Calm, NoRec
  <2> QED
    BY <2>4, <2>7, <2>8
<1>8. CASE ~(n > N)
  <2>1. n \in Own /\ n <= N /\ n \in All
    BY <1>3, <1>8, LedgerAssumption DEF Own, All
  <2>2. led' = l /\ rec'[s] = f
    BY <1>4, <1>8 DEF RecsOK
  <2>3. Local(l, r, n) = l.orders[n]
    BY <1>5, <2>1, LocalCalm
  <2>4. CASE Fills(l, r, n)
    <3> DEFINE g == ToFills(r, q, n)
    <3>0. Found(r, n) /\ r.open[n] = ex[n]
      BY <2>1, <2>4, FoundIs DEF Fills
    <3>1. /\ g.pc = "fills" /\ g.got = r.open[n]
          /\ g.todo = q.todo /\ g.bad = q.bad
          /\ g.pos = q.pos /\ g.open = q.open /\ g.held = q.held /\ g.lost = q.lost
          /\ g.moved = q.moved /\ g.curable = q.curable
      <4>1. g.pc = "fills" /\ g.got = r.open[n] /\ g.todo = q.todo
        BY <1>9, <2>1, ToFillsIs
      <4>2. g.bad = q.bad /\ g.moved = q.moved /\ g.curable = q.curable
        BY <1>9, <2>1, ToFillsIs
      <4>3. g.pos = q.pos /\ g.open = q.open /\ g.held = q.held /\ g.lost = q.lost
        BY <1>9, <2>1, ToFillsIs
      <4> QED
        BY <4>1, <4>2, <4>3
    <3>7. ~g.queried
      BY <1>9, <2>1, ToFillsIs
    <3> HIDE DEF g
    <3>6. rec'[s] = g
      BY <2>2, <2>4 DEF g
    <3>2. Looping(g, l, ex, g.todo)
      BY <1>2, <1>6, <3>1, LoopingKept
    <3>3. Fills(l, g, g.todo)
      BY <1>2, <2>4, <3>1 DEF Fills, Found, Local
    <3>4. Asking(g, l, ex)
      BY <1>2, <1>6, <2>1, <2>4, <3>0, <3>1, <3>3, <3>7 DEF Asking
    <3> QED
      BY <1>2, <2>2, <3>1, <3>2, <3>4, <3>6 DEF Calm
  <2>5. CASE ~Fills(l, r, n)
    <3> DEFINE g == ToQuery(l, r, q, n)
    <3>1. /\ g.pc = "query" /\ g.mine = Local(l, r, n)
          /\ g.todo = q.todo /\ g.bad = q.bad
          /\ g.pos = q.pos /\ g.open = q.open /\ g.held = q.held /\ g.lost = q.lost
          /\ g.moved = q.moved /\ g.curable = q.curable
      <4>1. g.pc = "query" /\ g.mine = Local(l, r, n) /\ g.todo = q.todo
        BY <1>1, <1>9, <2>1, ToQueryIs
      <4>2. g.bad = q.bad /\ g.moved = q.moved /\ g.curable = q.curable
        BY <1>1, <1>9, <2>1, ToQueryIs
      <4>3. g.pos = q.pos /\ g.open = q.open /\ g.held = q.held /\ g.lost = q.lost
        BY <1>1, <1>9, <2>1, ToQueryIs
      <4> QED
        BY <4>1, <4>2, <4>3
    <3> HIDE DEF g
    <3>6. rec'[s] = g
      BY <2>2, <2>5 DEF g
    <3>2. Looping(g, l, ex, g.todo)
      BY <1>2, <1>6, <3>1, LoopingKept
    <3>3. Query(l, g, g.todo)
      BY <1>2, <1>3, <2>1, <2>5, <3>1 DEF Query, Found, Local
    <3>4. Asking(g, l, ex)
      BY <1>2, <2>3, <3>1, <3>3 DEF Asking
    <3> QED
      BY <1>2, <2>2, <3>1, <3>2, <3>4, <3>6 DEF Calm
  <2> QED
    BY <2>4, <2>5
<1> QED
  BY <1>7, <1>8
-----------------------------------------------------------------------------
(* Who is disturbed by whom.                                               *)

\* Nothing is claimed of a reconcile() in this state.
Quiet(r) == r.view = "calm" => r.pc \in {"idle", "positions"}

LEMMA QuietCalm == ASSUME NEW r, NEW l, NEW e, Quiet(r) PROVE Calm(r, l, e)
  BY DEF Quiet, Calm

LEMMA NoRecQuiet == Quiet(NoRec) /\ NoRec.pc = "idle" /\ ~Running(NoRec)
  BY DEF Quiet, NoRec, Running

LEMMA BegunQuiet ==
  ASSUME NEW c, NEW known PROVE Quiet(Begun(c, known)) /\ Running(Begun(c, known))
  BY DEF Quiet, Begun, NoRec, Running

\* Only the view changes.
LEMMA ViewIs ==
  ASSUME NEW r \in Reconciliation, NEW v \in {"calm", "moved", "event"}
  PROVE  [r EXCEPT !.view = v].view = v /\ [r EXCEPT !.view = v].pc = r.pc
  BY DEF Reconciliation

LEMMA DisturbQuiet ==
  ASSUME RecsOK(rec), NEW s, NEW t \in Slots, t # s
  PROVE  Quiet(Disturb(s)[t]) /\ Disturb(s)[t].pc = rec[t].pc
<1> DEFINE x == rec[t]
           q == [x EXCEPT !.view = "moved"]
<1>1. x \in Reconciliation
  BY DEF RecsOK
<1>2. Disturb(s)[t] = IF Running(x) /\ x.view = "calm" THEN q ELSE x
  BY DEF Disturb
<1> HIDE DEF x
<1>3. q.view = "moved" /\ q.pc = x.pc
  BY <1>1, ViewIs
<1> HIDE DEF q
<1>4. Quiet(Disturb(s)[t]) /\ Disturb(s)[t].pc = x.pc
  BY <1>2, <1>3 DEF Quiet, Running
<1> QED
  BY <1>4 DEF x

LEMMA ObservedQuiet ==
  ASSUME RecsOK(rec), NEW t \in Slots
  PROVE  Quiet(Observed(rec)[t]) /\ Observed(rec)[t].pc = rec[t].pc
<1> DEFINE x == rec[t]
           q == [x EXCEPT !.view = "event"]
<1>1. x \in Reconciliation
  BY DEF RecsOK
<1>2. Observed(rec)[t] = IF Running(x) THEN q ELSE x
  BY DEF Observed
<1> HIDE DEF x
<1>3. q.view = "event" /\ q.pc = x.pc
  BY <1>1, ViewIs
<1> HIDE DEF q
<1>4. Quiet(Observed(rec)[t]) /\ Observed(rec)[t].pc = x.pc
  BY <1>2, <1>3 DEF Quiet, Running
<1> QED
  BY <1>4 DEF x

LEMMA ReplacedQuiet ==
  ASSUME NEW rs, RecsOK(rs), NEW o \in Own, NEW t \in Slots
  PROVE  /\ Replaced(rs, o)[t].pc = rs[t].pc /\ Replaced(rs, o)[t].view = rs[t].view
         /\ Quiet(rs[t]) => Quiet(Replaced(rs, o)[t])
<1> DEFINE x == rs[t]
           h == [x.held EXCEPT ![o] = led.orders[o]]
           q == [x EXCEPT !.held = h]
<1>1. x \in Reconciliation
  BY DEF RecsOK
<1>2. Replaced(rs, o)[t] = IF x.held[o] = "same" THEN q ELSE x
  BY DEF Replaced
<1> HIDE DEF x, h
<1>3. q.view = x.view /\ q.pc = x.pc
  BY <1>1 DEF Reconciliation
<1> HIDE DEF q
<1>4. Replaced(rs, o)[t].pc = x.pc /\ Replaced(rs, o)[t].view = x.view
  BY <1>2, <1>3
<1> QED
  BY <1>4 DEF x, Quiet

\* The slots other than s.
Others(rs, s) == \A t \in Slots \ {s} : Quiet(rs[t]) /\ rs[t].pc = rec[t].pc

LEMMA OthersIs ==
  ASSUME Inv, NEW s, NEW o \in Own
  PROVE  Others(Disturb(s), s) /\ Others(Replaced(Disturb(s), o), s) /\ Others(WrittenBack(s, o), s)
<1>1. RecsOK(rec) /\ RecsOK(Disturb(s))
  BY Parts, DisturbOK
<1>2. Others(Disturb(s), s)
  BY <1>1, DisturbQuiet DEF Others
<1>3. Others(Replaced(Disturb(s), o), s)
  BY <1>1, <1>2, ReplacedQuiet DEF Others
<1> QED
  BY <1>2, <1>3 DEF WrittenBack

\* A step that is not one of the reconcile() in slot t.
SameBooks == ex' = ex /\ led'.orders = led.orders /\ led'.fills = led.fills /\ led'.pos = led.pos
Aside(t) == /\ Running(rec[t]) => Running(rec'[t])
            /\ Quiet(rec'[t]) \/ (rec'[t] = rec[t] /\ SameBooks)

\* A step of the reconcile() in slot s.
Turn(s) ==
  /\ \A t \in Slots \ {s} : Aside(t)
  /\ Calm(rec'[s], led', ex)
  /\ Running(rec[s]) /\ rec'[s].pc = "idle" /\ rec[s].view = "calm" =>
       /\ verdict' = "IN_SYNC" => Agrees(led', ex)
       /\ rec[s].pc \in {"trades", "query", "fills"} /\ rec[s].curable /\ faults' = faults
            => verdict' # "MISMATCH"
  /\ MutSync'

\* What the loop does to the slots.
LEMMA GoOnSlots ==
  ASSUME Inv, NEW s \in Slots, NEW l \in Ledger, NEW r \in Reconciliation,
         NEW rs, RecsOK(rs), NEW k \in 1..(N + 1), GoOn(s, l, r, rs, k)
  PROVE  /\ \A t \in Slots \ {s} : rec'[t] = rs[t]
         /\ rec'[s].pc = "idle" \/ (rec'[s].view = r.view /\ mut' = mut)
         /\ s # "mut" => mut' = mut
<1> DEFINE n == NextOrder(l, r, k)
           q == Compared(l, r, k)
           f == IF Fills(l, r, n) THEN ToFills(r, q, n) ELSE ToQuery(l, r, q, n)
<1>1. q \in Reconciliation /\ q.view = r.view
  BY ComparedIs
<1>2. n \in k..(N + 1)
  BY NextOrderIs
<1>3. IF n > N THEN Conclude(s, l, q, rs)
      ELSE /\ led' = l
           /\ rec' = [rs EXCEPT ![s] = f]
           /\ UNCHANGED <<verdict, state, mut, link>>
  BY GoOnIs
<1> HIDE DEF n, q
<1>4. CASE n > N
  <2>1. rec' = [rs EXCEPT ![s] = NoRec] /\ Release(s)
    BY <1>3, <1>4 DEF Conclude
  <2>2. s # "mut" => mut' = mut
    BY <2>1 DEF Release
  <2> QED
    BY <2>1, <2>2, NoRecQuiet DEF RecsOK
<1>5. CASE ~(n > N)
  <2>1. n \in Own
    BY <1>2, <1>5, LedgerAssumption DEF Own
  <2>2. ToFills(r, q, n).view = q.view
    BY <1>1, <2>1, ToFillsIs
  <2>3. ToQuery(l, r, q, n).view = q.view
    BY <1>1, <2>1, ToQueryIs
  <2>4. f.view = r.view
    BY <1>1, <2>2, <2>3
  <2>5. rec' = [rs EXCEPT ![s] = f] /\ mut' = mut
    BY <1>3, <1>5
  <2> HIDE DEF f
  <2> QED
    BY <2>4, <2>5 DEF RecsOK
<1> QED
  BY <1>4, <1>5

LEMMA LoopAside ==
  ASSUME Inv, MutSync, NEW s \in Slots, Running(rec[s]), NEW l \in Ledger, NEW r \in Reconciliation,
         NEW rs, RecsOK(rs), Others(rs, s), NEW k \in 1..(N + 1), GoOn(s, l, r, rs, k)
  PROVE  /\ \A t \in Slots \ {s} : Aside(t)
         /\ MutSync'
         /\ r.view # "calm" => Calm(rec'[s], led', ex)
<1>1. /\ \A t \in Slots \ {s} : rec'[t] = rs[t]
      /\ rec'[s].pc = "idle" \/ (rec'[s].view = r.view /\ mut' = mut)
      /\ s # "mut" => mut' = mut
  BY GoOnSlots
<1>2. \A t \in Slots \ {s} : Aside(t)
  BY <1>1 DEF Others, Running, Aside
<1>3. MutSync'
  <2>1. "mut" \in Slots
    BY DEF Slots
  <2>2. CASE s = "mut"
    BY <1>1, <2>2 DEF MutSync, Running
  <2>3. CASE s # "mut"
    BY <1>1, <2>1, <2>3 DEF MutSync, Running, Others
  <2> QED
    BY <2>2, <2>3
<1>4. r.view # "calm" => Calm(rec'[s], led', ex)
  BY <1>1, QuietCalm DEF Quiet
<1> QED
  BY <1>2, <1>3, <1>4

\* A step of the loop is a turn.
LEMMA LoopTurn ==
  ASSUME Inv, MutSync, OwnTrades, NEW s \in Slots, Running(rec[s]),
         NEW l, LedOK(l, ex, Known), NEW r \in Reconciliation,
         NEW rs, RecsOK(rs), Others(rs, s), NEW k \in 1..(N + 1), GoOn(s, l, r, rs, k),
         r.view = rec[s].view, r.curable = rec[s].curable,
         rec[s].view = "calm" => r.pos = Position(ex) /\ r.open = OpenView(ex) /\ Looping(r, l, ex, k)
  PROVE  Turn(s)
<1>1. l \in Ledger
  BY DEF LedOK
<1>2. /\ \A t \in Slots \ {s} : Aside(t)
      /\ MutSync'
      /\ r.view # "calm" => Calm(rec'[s], led', ex)
  BY <1>1, LoopAside
<1>3. CASE rec[s].view = "calm"
  <2>1. Calm(rec'[s], led', ex) /\ (rec'[s].pc = "idle" => Right(r))
    BY <1>3, LoopCalm
  <2> QED
    BY <1>2, <2>1 DEF Turn, Right
<1>4. CASE rec[s].view # "calm"
  BY <1>2, <1>4 DEF Turn
<1> QED
  BY <1>3, <1>4

\* How the loop ends, for a reconcile() that met a failed request.
LEMMA LoopFaulty ==
  ASSUME Inv, OwnTrades, NEW s \in Slots, NEW l, LedOK(l, ex, Known), NEW r \in Reconciliation,
         NEW rs, RecsOK(rs), NEW k \in 1..(N + 1), GoOn(s, l, r, rs, k),
         rec'[s].pc = "idle", verdict' = "IN_SYNC"
  PROVE  /\ ~r.bad
         /\ /\ k = 1 /\ Reviewing(r, l, ex, 1)
            /\ r.pos = Position(ex) /\ r.open = OpenView(ex)
            => Agrees(led', ex)
<1> DEFINE n == NextOrder(l, r, k)
           q == Compared(l, r, k)
           f == IF Fills(l, r, n) THEN ToFills(r, q, n) ELSE ToQuery(l, r, q, n)
<1>1. l \in Ledger /\ ExOK(ex)
  BY Parts DEF LedOK
<1>2. /\ q \in Reconciliation /\ q.pos = r.pos /\ q.open = r.open
      /\ r.bad => q.bad
  BY <1>1, ComparedIs
<1>3. n \in k..(N + 1)
  BY NextOrderIs
<1>4. IF n > N THEN Conclude(s, l, q, rs)
      ELSE /\ led' = l
           /\ rec' = [rs EXCEPT ![s] = f]
           /\ UNCHANGED <<verdict, state, mut, link>>
  BY GoOnIs
<1>9. q \in Reconciliation
  BY <1>2
<1>5. n > N
  <2> SUFFICES ASSUME ~(n > N) PROVE FALSE
    OBVIOUS
  <2> HIDE DEF n, q
  <2>1. n \in Own
    BY <1>3, LedgerAssumption DEF Own
  <2>2. ToFills(r, q, n).pc = "fills"
    BY <1>9, <2>1, ToFillsIs
  <2>3. ToQuery(l, r, q, n).pc = "query"
    BY <1>1, <1>9, <2>1, ToQueryIs
  <2>4. f.pc # "idle"
    BY <2>2, <2>3
  <2>5. rec' = [rs EXCEPT ![s] = f]
    BY <1>4
  <2> HIDE DEF f
  <2> QED
    BY <2>4, <2>5 DEF RecsOK
<1> DEFINE m == Seeded(l, q)
<1>6. ~Unexplained(m, q) /\ led' = Committed(m, q)
  BY <1>4, <1>5 DEF Conclude
<1>7. ~q.bad
  BY <1>6 DEF Unexplained
<1>8. ASSUME k = 1, Reviewing(r, l, ex, 1), r.pos = Position(ex), r.open = OpenView(ex)
      PROVE  Agrees(led', ex)
  <2>1. \A o \in Own : ex[o].status # "NONE" => l.orders[o] # "ABSENT"
    BY DEF LedOK, Known
  <2>2. Recorded(l, ex)
    BY <1>1, <1>5, <1>7, <1>8, <2>1, NothingExecuted
  <2>3. n = N + 1
    BY <1>3, <1>5, LedgerAssumption
  <2>4. Reviewing(q, l, ex, n)
    BY <1>1, <1>8, LoopsOn
  <2> HIDE DEF q, n
  <2>5. Agrees(Committed(m, q), ex)
    BY <1>1, <1>2, <1>6, <1>8, <2>2, <2>3, <2>4, EndAgrees
  <2> QED
    BY <1>6, <2>5
<1> QED
  BY <1>2, <1>7, <1>8
-----------------------------------------------------------------------------
(* The turns of a reconcile().                                             *)

\* The ledger's operations, field by field.
LEMMA AppendIs ==
  ASSUME NEW l \in Ledger, NEW T
  PROVE  LET q == append_fills(l, T) IN
         /\ q \in Ledger /\ q.orders = l.orders /\ q.pos = l.pos /\ q.ids = l.ids
         /\ \A t \in Trades : l.fills[t] > 0 \/ t \in T => q.fills[t] > 0
<1> DEFINE q == append_fills(l, T)
<1>1. /\ q \in Ledger /\ q.orders = l.orders /\ q.pos = l.pos /\ q.ids = l.ids
      /\ q.fills = [t \in Trades |-> IF t \in T /\ l.fills[t] = 0 THEN 1 ELSE l.fills[t]]
  BY DEF append_fills, Ledger
<1>2. \A t \in Trades : l.fills[t] \in Nat
  BY DEF Ledger
<1> HIDE DEF q
<1>3. \A t \in Trades : l.fills[t] > 0 \/ t \in T => q.fills[t] > 0
  BY <1>1, <1>2
<1> QED
  BY <1>1, <1>3 DEF q

LEMMA UpsertIs ==
  ASSUME NEW l \in Ledger, NEW o \in Own, NEW x \in Status
  PROVE  LET q == upsert_order(l, o, x) IN
         /\ q \in Ledger /\ q.fills = l.fills /\ q.pos = l.pos
         /\ \A p \in All : q.orders[p] = IF p = o THEN x ELSE l.orders[p]
<1> DEFINE q == upsert_order(l, o, x)
<1>1. /\ q \in Ledger /\ q.fills = l.fills /\ q.pos = l.pos
      /\ q.orders = [l.orders EXCEPT ![o] = x]
  BY OwnAll DEF upsert_order, Ledger
<1>2. l.orders \in [All -> Status]
  BY DEF Ledger
<1> HIDE DEF q
<1>3. \A p \in All : q.orders[p] = IF p = o THEN x ELSE l.orders[p]
  BY <1>1, <1>2
<1> QED
  BY <1>1, <1>3 DEF q

LEMMA IdentifyIs ==
  ASSUME NEW l \in Ledger, NEW S \in SUBSET All
  PROVE  LET q == [l EXCEPT !.ids = @ \cup S] IN
         /\ q \in Ledger /\ q.orders = l.orders /\ q.fills = l.fills /\ q.pos = l.pos
         /\ q.ids = l.ids \cup S
  BY DEF Ledger

\* The list as RecoverTrades makes it.
LEMMA ListedLoops ==
  ASSUME Inv, NEW s \in Slots, rec[s].pc = "trades", rec[s].view = "calm", Calm(rec[s], led, ex),
         NEW named \in BOOLEAN, NEW skipped \in SUBSET Unidentified(led)
  PROVE  LET l == Identified(led, skipped)
             a == append_fills(l, Mine(l, named))
             q == Listed(rec[s], l, named, skipped) IN
         /\ q.pos = Position(ex) /\ q.open = OpenView(ex) /\ q.curable = rec[s].curable
         /\ Reviewing(q, a, ex, 1)
         /\ skipped = {} => Looping(q, a, ex, 1)
<1> DEFINE S == Unidentified(led) \ skipped
           l == Identified(led, skipped)
           T == Mine(l, named)
           a == append_fills(l, T)
           q == Listed(rec[s], l, named, skipped)
<1>0. led \in Ledger /\ rec[s] \in Reconciliation /\ ExOK(ex) /\ LedOK(led, ex, Known) /\ ~rec[s].bad
  BY Parts DEF RecOK
<1>1. S \in SUBSET All
  BY OwnAll DEF Unidentified, Tracked
<1>2. l = [led EXCEPT !.ids = @ \cup S]
  BY DEF Identified
<1> HIDE DEF S
<1>3. l \in Ledger /\ l.orders = led.orders /\ l.pos = led.pos /\ l.ids = led.ids \cup S
  BY <1>0, <1>1, <1>2, IdentifyIs
<1> HIDE DEF l
<1>4. /\ a \in Ledger /\ a.orders = l.orders /\ a.pos = l.pos
      /\ \A t \in Trades : l.fills[t] > 0 \/ t \in T => a.fills[t] > 0
  BY <1>3, AppendIs
<1>5. /\ q.lost = Executions(ex) \ T
      /\ \A o \in Own : q.held[o] = IF o \in Tracked(l) THEN "same" ELSE "ABSENT"
      /\ q.pos = rec[s].pos /\ q.open = rec[s].open /\ q.curable = rec[s].curable
  BY <1>0, ListedIs
<1>6. ~q.bad
  <2>1. rec[s] \in Reconciliation
    BY <1>0
  <2>2. q.bad = rec[s].bad
    BY <2>1, ListedIs
  <2> QED
    BY <1>0, <2>2
<1>7. \A t \in T : t[1] \in Own
  BY DEF Mine, Attributable, Tracked
<1>8. \A t \in Executions(ex) : t[1] \in Own /\ skipped = {} => t \in T
  <2> SUFFICES ASSUME NEW t \in Executions(ex), t[1] \in Own, skipped = {} PROVE t \in T
    OBVIOUS
  <2>1. t[2] \in Nat /\ t[2] > 0 /\ t[2] <= ex[t[1]].done
    BY TradeShape DEF Executions
  <2>2. ex[t[1]].status # "NONE"
    BY <1>0, <2>1, OwnAll DEF ExOK, OrderOK
  <2>3. led.orders[t[1]] # "ABSENT"
    BY <1>0, <2>2 DEF LedOK, Known
  <2>4. t[1] \in Tracked(l)
    BY <1>3, <2>3 DEF Tracked
  <2>5. t[1] \in l.ids
    BY <1>3, <2>2, <2>3 DEF S, Unidentified, Tracked
  <2> QED
    BY <2>4, <2>5 DEF Mine, Attributable
<1>9. q.pos = Position(ex) /\ q.open = OpenView(ex)
  BY <1>5 DEF Calm
<1> HIDE DEF T, a, q
<1>10. \A o \in Own : q.held[o] = IF a.orders[o] = "ABSENT" THEN "ABSENT" ELSE "same"
  BY <1>4, <1>5 DEF Tracked
<1>11. ForeignTrades(ex) \subseteq q.lost
  BY <1>5, <1>7, OwnAll DEF ForeignTrades
<1>12. ~(\E o \in Own : o < 1)
  BY LedgerAssumption DEF Own
<1>13. Reviewing(q, a, ex, 1)
  BY <1>10, <1>11, <1>12 DEF Reviewing, Passed
<1>14. ASSUME skipped = {} PROVE Looping(q, a, ex, 1)
  <2>1. Recorded(a, ex)
    BY <1>4, <1>8, <1>14 DEF Recorded, Executions
  <2>2. q.lost \subseteq ForeignTrades(ex)
    <3> SUFFICES ASSUME NEW t \in q.lost PROVE t \in ForeignTrades(ex)
      OBVIOUS
    <3>1. t \in Executions(ex) /\ t \notin T
      BY <1>5
    <3>2. t[1] \in All /\ t[1] \notin Own
      BY <1>8, <1>14, <3>1, TradeShape DEF Executions
    <3>3. t[1] = Foreign
      BY <3>2, LedgerAssumption DEF All, Own, Foreign
    <3> QED
      BY <3>1, <3>3 DEF ForeignTrades
  <2>3. q.curable => Curable(a, ex)
    <3>1. q.curable => Curable(led, ex)
      BY <1>5 DEF Calm
    <3> QED
      BY <1>3, <1>4, <3>1 DEF Curable
  <2> QED
    BY <1>6, <1>12, <1>13, <2>1, <2>2, <2>3 DEF Looping, Repaired
<1> QED
  BY <1>5, <1>9, <1>13, <1>14 DEF q, a, T, l

LEMMA TroubledIs == ASSUME NEW r PROVE Troubled(r) # "calm"
  BY DEF Troubled

LEMMA RecoverTradesTurn ==
  ASSUME Inv, Undisturbed, NEW s \in Slots, RecoverTrades(s)
  PROVE  Turn(s) /\ OwnTrades'
<1>1. PICK named \in BOOLEAN, skipped \in SUBSET Unidentified(led) :
        LET l == Identified(led, skipped) IN
        /\ IF skipped = {} THEN UNCHANGED faults ELSE Fault
        /\ GoOn(s, append_fills(l, Mine(l, named)), Listed(rec[s], l, named, skipped), Disturb(s), 1)
        /\ UNCHANGED <<ex, feed, auth, recovered>>
  BY DEF RecoverTrades, Identified, Mine, Listed
<1> DEFINE l == Identified(led, skipped)
           a == append_fills(l, Mine(l, named))
           q == Listed(rec[s], l, named, skipped)
<1>2. Unidentified(led) \ skipped \in SUBSET Own
  BY DEF Unidentified, Tracked
<1>3. LedOK(l, ex, Known)
  BY <1>2, Parts, IdsOK DEF Identified
<1>4. \A t \in Mine(l, named) : t[1] \in Own /\ t[2] <= ex[t[1]].done
  BY DEF Mine, Attributable, Tracked, Executions
<1>5. LedOK(a, ex, Known)
  <2> HIDE DEF l
  <2> QED
    BY <1>3, <1>4, AppendOK
<1>0. rec[s] \in Reconciliation
  BY Parts
<1>6. q \in Reconciliation
  BY <1>0, ListedIs
<1>7. q.view = IF skipped = {} THEN rec[s].view ELSE Troubled(rec[s])
  BY <1>0, ListedIs
<1>8. q.curable = rec[s].curable
  BY <1>0, ListedIs
<1>9. GoOn(s, a, q, Disturb(s), 1) /\ UNCHANGED <<ex, feed, auth, recovered>>
  BY <1>1
<1>10. RecsOK(Disturb(s)) /\ Others(Disturb(s), s) /\ 1 \in 1..(N + 1)
  <2>1. 1 \in Own /\ 1 \in 1..(N + 1)
    BY LedgerAssumption DEF Own
  <2> QED
    BY <2>1, Parts, DisturbOK, OthersIs
<1>11. rec[s].pc = "trades" /\ Running(rec[s]) /\ Calm(rec[s], led, ex) /\ MutSync /\ OwnTrades
  BY DEF RecoverTrades, Running, Undisturbed
<1>12. rec[s].view = "calm" =>
         /\ q.pos = Position(ex) /\ q.open = OpenView(ex)
         /\ Reviewing(q, a, ex, 1)
         /\ skipped = {} => Looping(q, a, ex, 1)
  BY <1>11, ListedLoops
<1> HIDE DEF l, a, q
<1>13. OwnTrades'
  BY <1>9, <1>11 DEF OwnTrades
<1>14. CASE skipped = {}
  <2>1. q.view = rec[s].view
    BY <1>7, <1>14
  <2>2. Turn(s)
    BY <1>5, <1>6, <1>8, <1>9, <1>10, <1>11, <1>12, <1>14, <2>1, LoopTurn
  <2> QED
    BY <1>13, <2>2
<1>15. CASE skipped # {}
  <2>1. q.view # "calm"
    BY <1>7, <1>15, TroubledIs
  <2>2. a \in Ledger
    BY <1>5 DEF LedOK
  <2>3. (\A t \in Slots \ {s} : Aside(t)) /\ MutSync' /\ Calm(rec'[s], led', ex)
    BY <1>6, <1>9, <1>10, <1>11, <2>1, <2>2, LoopAside
  <2>4. faults' # faults
    BY <1>1, <1>15, Parts DEF Fault
  <2>5. rec[s].view = "calm" /\ rec'[s].pc = "idle" /\ verdict' = "IN_SYNC" => Agrees(led', ex)
    BY <1>5, <1>6, <1>9, <1>10, <1>11, <1>12, LoopFaulty
  <2>6. Turn(s)
    BY <2>3, <2>4, <2>5 DEF Turn
  <2> QED
    BY <1>13, <2>6
<1> QED
  BY <1>14, <1>15

\* One order's part of Curable: exchange status x, ledger status y.
Fits(x, y) == \/ x = "NONE" /\ y = "ABSENT"
              \/ x \in Working /\ y = x
              \/ x = "FILLED" /\ y # "ABSENT"
              \/ x = "CANCELED" /\ y \notin Executed \cup {"ABSENT"}

LEMMA CurableIs ==
  ASSUME NEW l, NEW e
  PROVE  Curable(l, e) <=> /\ e[Foreign].status = "NONE"
                           /\ \A o \in Own : Fits(e[o].status, l.orders[o])
                           /\ l.pos = Position(e) \/ \E o \in Own : e[o].status = "FILLED"
  BY DEF Curable, Fits

\* The loop is done with order o.
LEMMA Advance ==
  ASSUME NEW e, NEW l, NEW m, NEW r, NEW q, NEW o \in Own, Looping(r, l, e, o),
         l.orders[o] # "ABSENT", m.orders[o] # "ABSENT", m.pos = l.pos,
         \A p \in Own : p # o => m.orders[p] = l.orders[p],
         \A t \in Trades : l.fills[t] > 0 => m.fills[t] > 0,
         \A p \in Own : q.held[p] = IF p = o THEN "same" ELSE r.held[p],
         q.lost = r.lost, q.curable = r.curable, r.moved => q.moved, r.bad => q.bad,
         ~q.bad /\ m.orders[o] \in Working => m.orders[o] = e[o].status,
         ~r.bad /\ Fits(e[o].status, l.orders[o]) /\ r.curable =>
           /\ ~q.bad /\ Fits(e[o].status, m.orders[o])
           /\ e[o].status = "FILLED" => q.moved /\ m.orders[o] = "FILLED"
  PROVE  Looping(q, m, e, o + 1)
<1>0. \A p \in Own : p < o + 1 <=> (p < o \/ p = o)
  BY LedgerAssumption DEF Own
<1>1. \A p \in Own : q.held[p] = IF m.orders[p] = "ABSENT" THEN "ABSENT" ELSE "same"
  BY DEF Looping, Reviewing
<1>2. ~q.bad => Passed(m, e, o + 1)
  BY <1>0 DEF Looping, Reviewing, Passed
<1>3. Recorded(m, e)
  BY DEF Looping, Recorded, Executions
<1>4. q.curable => Repaired(q, m, e, o + 1)
  <2> SUFFICES ASSUME q.curable PROVE Repaired(q, m, e, o + 1)
    OBVIOUS
  <2>1. Repaired(r, l, e, o)
    BY DEF Looping
  <2>2. Curable(l, e) /\ ~r.bad
    BY <2>1 DEF Repaired
  <2>3. /\ e[Foreign].status = "NONE"
        /\ \A p \in Own : Fits(e[p].status, l.orders[p])
        /\ l.pos = Position(e) \/ \E p \in Own : e[p].status = "FILLED"
    BY <2>2, CurableIs
  <2>4. /\ ~q.bad /\ Fits(e[o].status, m.orders[o])
        /\ e[o].status = "FILLED" => q.moved /\ m.orders[o] = "FILLED"
    BY <2>2, <2>3
  <2>5. \A p \in Own : Fits(e[p].status, m.orders[p])
    BY <2>3, <2>4
  <2>6. Curable(m, e)
    BY <2>3, <2>5, CurableIs
  <2>7. \A p \in Own : p < o + 1 /\ e[p].status = "FILLED" => q.moved /\ m.orders[p] = "FILLED"
    BY <1>0, <2>1, <2>4 DEF Repaired
  <2> QED
    BY <2>1, <2>4, <2>6, <2>7 DEF Repaired
<1> QED
  BY <1>1, <1>2, <1>3, <1>4 DEF Looping, Reviewing

\* What an undisturbed reconcile() that waits for an answer knows.
LEMMA AskingIs ==
  ASSUME Inv, Undisturbed, NEW s \in Slots, rec[s].pc \in {"query", "fills"}, rec[s].view = "calm"
  PROVE  LET r == rec[s] o == rec[s].todo IN
         /\ r.pos = Position(ex) /\ r.open = OpenView(ex) /\ Looping(r, led, ex, o) /\ Asking(r, led, ex)
         /\ o \in Own /\ OrderOK(ex[o], Qty[o])
         /\ led.orders[o] # "ABSENT" /\ r.held[o] = "same"
<1> DEFINE r == rec[s]
           o == r.todo
<1>1. r \in Reconciliation /\ o \in Own /\ ExOK(ex)
  BY Parts DEF RecOK
<1>2. r.pos = Position(ex) /\ r.open = OpenView(ex) /\ Looping(r, led, ex, o) /\ Asking(r, led, ex)
  BY DEF Undisturbed, Calm
<1>3. OrderOK(ex[o], Qty[o])
  BY <1>1, OwnAll DEF ExOK
<1>4. Query(led, r, o) \/ Fills(led, r, o)
  BY <1>1, <1>2 DEF Asking, Reconciliation
<1>5. Reviewing(r, led, ex, o)
  BY <1>2 DEF Looping
<1>6. led.orders[o] # "ABSENT"
  BY <1>1, <1>2, <1>4, <1>5, TestsAre
<1>7. r.held[o] = "same"
  BY <1>1, <1>5, <1>6 DEF Reviewing
<1> QED
  BY <1>1, <1>2, <1>3, <1>6, <1>7

\* A step that sets the slot only.
LEMMA SlotTurn ==
  ASSUME Inv, Undisturbed, NEW s \in Slots, NEW q, rec' = [rec EXCEPT ![s] = q], SameBooks, mut' = mut,
         Running(rec[s]), q.pc # "idle", Calm(q, led', ex)
  PROVE  Turn(s)
<1>1. rec'[s] = q /\ \A t \in Slots \ {s} : rec'[t] = rec[t]
  BY Parts DEF RecsOK
<1>2. \A t \in Slots \ {s} : Aside(t)
  BY <1>1 DEF Aside
<1>3. "mut" \in Slots
  BY DEF Slots
<1>4. MutSync'
  BY <1>1, <1>3 DEF MutSync, Undisturbed, Running
<1> QED
  BY <1>1, <1>2, <1>4 DEF Turn

LEMMA QueryOrderTurn ==
  ASSUME Inv, Undisturbed, NEW s \in Slots, QueryOrder(s)
  PROVE  Turn(s) /\ OwnTrades'
<1> DEFINE r == rec[s]
           o == r.todo
           bad == [r EXCEPT !.bad = TRUE]
           calm == r.view = "calm"
<1>1. r \in Reconciliation /\ r.pc = "query" /\ o \in Own /\ Running(r)
  BY Parts DEF QueryOrder, RecOK, Running
<1>2. UNCHANGED <<ex, feed, auth, faults, recovered>>
  BY DEF QueryOrder
<1>3. o + 1 \in 1..(N + 1) /\ o \in All
  BY <1>1, LedgerAssumption DEF Own, All
<1>4. MutSync /\ OwnTrades /\ led \in Ledger /\ LedOK(led, ex, Known)
  BY Parts DEF Undisturbed
<1>5. OwnTrades'
  BY <1>2, <1>4 DEF OwnTrades
<1>6. /\ RecsOK(Disturb(s)) /\ RecsOK(WrittenBack(s, o))
      /\ Others(Disturb(s), s) /\ Others(WrittenBack(s, o), s)
  BY <1>1, Parts, DisturbOK, WrittenBackOK, OthersIs
<1>7. ex[o] \in [status : ExStatus, done : Nat] /\ OrderOK(ex[o], Qty[o])
  BY <1>3, Parts DEF ExOK
<1>8. calm => /\ r.pos = Position(ex) /\ r.open = OpenView(ex) /\ Looping(r, led, ex, o)
              /\ Query(led, r, o) /\ r.mine = led.orders[o]
              /\ led.orders[o] # "ABSENT" /\ r.held[o] = "same"
  BY <1>1, AskingIs DEF Asking
<1>9. calm => (ex[o].status \in Working => led.orders[o] \notin Working \cup Executed)
  BY <1>1, <1>8, TestsAre DEF Looping
<1>10. CASE ex[o].status \in Executed
  <2> DEFINE g == ex[o]
             q == [r EXCEPT !.pc = "fills", !.got = g, !.queried = TRUE]
  <2>1. rec' = [rec EXCEPT ![s] = q] /\ UNCHANGED <<led, verdict, state, mut, link>>
    BY <1>10 DEF QueryOrder, Executed
  <2>2. g \in [status : ExStatus, done : Nat]
    BY <1>7
  <2> HIDE DEF g, r
  <2>3. /\ q.pc = "fills" /\ q.todo = o /\ q.got = g /\ q.view = r.view /\ q.pos = r.pos /\ q.open = r.open
        /\ q.held = r.held /\ q.lost = r.lost /\ q.bad = r.bad /\ q.moved = r.moved
        /\ q.curable = r.curable
    BY <1>1, <2>2 DEF Reconciliation
  <2>4. q.queried = TRUE
    BY <1>1, <2>2 DEF Reconciliation
  <2> HIDE DEF q
  <2>5. calm => Looping(q, led, ex, q.todo)
    BY <1>8, <2>3, LoopingKept
  <2>6. calm => Query(led, q, q.todo)
    BY <1>8, <2>3 DEF Query, Found, Local
  <2>7. calm => Asking(q, led, ex)
    BY <2>3, <2>4, <2>6 DEF Asking, g
  <2>8. Calm(q, led, ex)
    BY <1>8, <2>3, <2>5, <2>7 DEF Calm
  <2>9. SameBooks /\ mut' = mut /\ Calm(q, led', ex) /\ q.pc # "idle"
    BY <1>2, <2>1, <2>3, <2>8 DEF SameBooks
  <2>10. Turn(s)
    BY <1>1, <2>1, <2>9, SlotTurn DEF r
  <2> QED
    BY <1>5, <2>10
<1>11. CASE ex[o].status = "CANCELED" /\ r.mine = "NEW"
  <2> DEFINE l == upsert_order(led, o, "CANCELED")
             q == [r EXCEPT !.held[o] = "same"]
  <2>1. GoOn(s, l, q, WrittenBack(s, o), o + 1)
    BY <1>11 DEF QueryOrder, Executed
  <2>2. LedOK(l, ex, Known)
    BY <1>1, Parts, KnownOwn, UpsertOK DEF Status
  <2>3. /\ l.fills = led.fills /\ l.pos = led.pos
        /\ \A p \in All : l.orders[p] = IF p = o THEN "CANCELED" ELSE led.orders[p]
    <3>1. "CANCELED" \in Status
      BY DEF Status
    <3> HIDE DEF r
    <3> QED
      BY <1>1, <1>4, <3>1, UpsertIs
  <2>4. /\ q \in Reconciliation /\ q.bad = r.bad /\ q.view = r.view /\ q.curable = r.curable
        /\ q.pos = r.pos /\ q.open = r.open /\ q.lost = r.lost /\ q.moved = r.moved
        /\ q.held = [r.held EXCEPT ![o] = "same"]
    BY <1>1, SameIs
  <2>5. r.held \in [Own -> Status \cup {"same"}]
    BY <1>1 DEF Reconciliation
  <2> HIDE DEF l, q, r
  <2>6. \A p \in Own : q.held[p] = IF p = o THEN "same" ELSE r.held[p]
    BY <1>1, <2>4, <2>5
  <2>7. l.orders[o] = "CANCELED" /\ \A p \in Own : p # o => l.orders[p] = led.orders[p]
    BY <1>3, <2>3, OwnAll
  <2>8. calm => Looping(q, l, ex, o + 1)
    <3> SUFFICES ASSUME calm PROVE Looping(q, l, ex, o + 1)
      OBVIOUS
    <3>1. Fits(ex[o].status, l.orders[o]) /\ ex[o].status # "FILLED" /\ l.orders[o] \notin Working
      BY <1>11, <2>7 DEF Fits, Executed, Working
    <3>2. q.lost = r.lost /\ q.curable = r.curable /\ q.moved = r.moved /\ q.bad = r.bad
      BY <2>4
    <3>3. l.orders[o] # "ABSENT" /\ led.orders[o] # "ABSENT" /\ l.pos = led.pos /\ l.fills = led.fills
      BY <1>8, <2>3, <2>7
    <3>4. Looping(r, led, ex, o) /\ o \in Own
      BY <1>1, <1>8
    <3> QED
      BY <2>6, <2>7, <3>1, <3>2, <3>3, <3>4, Advance
  <2>9. Turn(s)
    BY <1>1, <1>3, <1>4, <1>6, <1>8, <2>1, <2>2, <2>4, <2>8, LoopTurn DEF r
  <2> QED
    BY <1>5, <2>9
<1>12. CASE /\ GoOn(s, led, bad, Disturb(s), o + 1)
            /\ \/ ex[o].status = "CANCELED" /\ r.mine \in Executed
               \/ ex[o].status \in {"NONE", "NEW"}
  <2>1. /\ bad \in Reconciliation /\ bad.view = r.view /\ bad.curable = r.curable
        /\ bad.pos = r.pos /\ bad.open = r.open /\ bad.held = r.held /\ bad.lost = r.lost
        /\ bad.moved = r.moved
    BY <1>1, BadIs
  <2>2. bad.bad
    BY <1>1, BadIs
  <2> HIDE DEF r, bad
  <2>3. calm => Looping(bad, led, ex, o + 1)
    <3> SUFFICES ASSUME calm PROVE Looping(bad, led, ex, o + 1)
      OBVIOUS
    <3>1. ~Fits(ex[o].status, led.orders[o])
      BY <1>8, <1>9, <1>12 DEF Fits, Executed, Working
    <3>2. \A p \in Own : bad.held[p] = IF p = o THEN "same" ELSE r.held[p]
      BY <1>8, <2>1
    <3> QED
      BY <1>1, <1>8, <2>1, <2>2, <3>1, <3>2, Advance
  <2>4. Turn(s)
    BY <1>1, <1>3, <1>4, <1>6, <1>8, <1>12, <2>1, <2>3, LoopTurn DEF r
  <2> QED
    BY <1>5, <2>4
<1>13. CASE /\ GoOn(s, led, r, Disturb(s), o + 1)
            /\ ex[o].status = "CANCELED" /\ r.mine \notin Executed \cup {"NEW"}
  <2> HIDE DEF r
  <2>1. calm => Looping(r, led, ex, o + 1)
    <3> SUFFICES ASSUME calm PROVE Looping(r, led, ex, o + 1)
      OBVIOUS
    <3>1. led.orders[o] \notin Working /\ ex[o].status # "FILLED"
      BY <1>8, <1>13 DEF Executed, Working
    <3>2. \A p \in Own : r.held[p] = IF p = o THEN "same" ELSE r.held[p]
      BY <1>8
    <3> QED
      BY <1>1, <1>8, <3>1, <3>2, Advance
  <2>2. Turn(s)
    BY <1>1, <1>3, <1>4, <1>6, <1>8, <1>13, <2>1, LoopTurn DEF r
  <2> QED
    BY <1>5, <2>2
<1> QED
  BY <1>7, <1>10, <1>11, <1>12, <1>13 DEF QueryOrder, ExStatus, Executed

LEMMA RecoverFillsTurn ==
  ASSUME Inv, Undisturbed, NEW s \in Slots, RecoverFills(s)
  PROVE  Turn(s) /\ OwnTrades'
<1> DEFINE r == rec[s]
           o == r.todo
           bad == [r EXCEPT !.bad = TRUE]
           T == TradesNow(o)
           kept == append_fills(led, T)
           m == upsert_order(kept, o, r.got.status)
           l == identify(m, o)
           calm == r.view = "calm"
<1>1. /\ r \in Reconciliation /\ r.pc = "fills" /\ o \in Own /\ (r.queried => r.got.status \in Executed)
      /\ Running(r)
  BY Parts DEF RecoverFills, RecOK, Running
<1>2. UNCHANGED <<ex, feed, auth, faults>> /\ recovered' = recovered \cup T
  BY DEF RecoverFills
<1>3. o + 1 \in 1..(N + 1) /\ o \in All
  BY <1>1, LedgerAssumption DEF Own, All
<1>4. MutSync /\ OwnTrades /\ led \in Ledger /\ LedOK(led, ex, Known)
  BY Parts DEF Undisturbed
<1>5. OwnTrades'
  BY <1>1, <1>2, <1>4 DEF OwnTrades, TradesNow
<1>6. /\ RecsOK(Disturb(s)) /\ RecsOK(WrittenBack(s, o))
      /\ Others(Disturb(s), s) /\ Others(WrittenBack(s, o), s)
  BY <1>1, Parts, DisturbOK, WrittenBackOK, OthersIs
<1>7. calm => /\ r.pos = Position(ex) /\ r.open = OpenView(ex) /\ Looping(r, led, ex, o)
              /\ led.orders[o] # "ABSENT" /\ r.held[o] = "same" /\ OrderOK(ex[o], Qty[o])
              /\ Asking(r, led, ex)
  BY <1>1, AskingIs
<1>8. calm => r.got = ex[o] /\ AddUp(o, r.got)
  <2>1. calm => r.got = ex[o]
    BY <1>1, <1>7 DEF Asking, Reconciliation
  <2> QED
    BY <1>7, <2>1 DEF AddUp, OrderOK
<1>9. LedOK(kept, ex, Known)
  <2>1. \A t \in TradesNow(o) : t[1] \in Own /\ t[2] <= ex[t[1]].done
    BY <1>1 DEF TradesNow, Executions
  <2> QED
    BY <2>1, Parts, AppendOK
<1>10. /\ kept \in Ledger /\ kept.orders = led.orders /\ kept.pos = led.pos
       /\ \A t \in Trades : led.fills[t] > 0 => kept.fills[t] > 0
  BY <1>4, AppendIs
<1>11. CASE ~AddUp(o, r.got) /\ GoOn(s, led, bad, Disturb(s), o + 1)
  <2>1. bad \in Reconciliation /\ bad.view = r.view /\ bad.curable = r.curable
    BY <1>1, BadIs
  <2> HIDE DEF r, bad
  <2>2. Turn(s)
    BY <1>1, <1>3, <1>4, <1>6, <1>8, <1>11, <2>1, LoopTurn DEF r
  <2> QED
    BY <1>5, <2>2
<1>12. CASE ~r.queried /\ GoOn(s, kept, r, Disturb(s), o + 1)
  <2> HIDE DEF r, kept
  <2>1. calm => Looping(r, kept, ex, o + 1)
    <3> SUFFICES ASSUME calm PROVE Looping(r, kept, ex, o + 1)
      OBVIOUS
    <3>1. Fills(led, r, o) /\ (~r.bad /\ led.orders[o] \in Working => led.orders[o] = ex[o].status)
      BY <1>1, <1>7, <1>12 DEF Asking
    <3>2. ex[o].status # "FILLED"
      BY <1>1, <1>7, <3>1, TestsAre DEF Looping, Working
    <3>3. \A p \in Own : r.held[p] = IF p = o THEN "same" ELSE r.held[p]
      BY <1>7
    <3>4. Looping(r, led, ex, o) /\ o \in Own /\ led.orders[o] # "ABSENT"
      BY <1>1, <1>7
    <3> QED
      BY <1>10, <3>1, <3>2, <3>3, <3>4, Advance
  <2>2. Turn(s)
    BY <1>1, <1>3, <1>4, <1>6, <1>7, <1>9, <1>12, <2>1, LoopTurn DEF r
  <2> QED
    BY <1>5, <2>2
<1>13. CASE r.queried /\ GoOn(s, l, Took(r, o), WrittenBack(s, o), o + 1)
  <2> DEFINE q == Took(r, o)
             x == r.got.status
  <2>0. x \in Status /\ x \in Status \ {"ABSENT"}
    BY <1>1, <1>13 DEF Executed, Status
  <2>1. /\ q \in Reconciliation /\ q.bad = r.bad /\ q.view = r.view /\ q.curable = r.curable
        /\ q.pos = r.pos /\ q.open = r.open /\ q.lost = r.lost
        /\ q.held = [r.held EXCEPT ![o] = "same"]
    BY <1>1, TookIs
  <2>2. q.moved
    BY <1>1, TookIs
  <2>3. r.held \in [Own -> Status \cup {"same"}]
    BY <1>1 DEF Reconciliation
  <2> HIDE DEF r, q, kept, x
  <2>4. \A p \in Own : q.held[p] = IF p = o THEN "same" ELSE r.held[p]
    BY <1>1, <2>1, <2>3
  <2>5. m = upsert_order(kept, o, x)
    BY DEF x
  <2>6. /\ m \in Ledger /\ m.fills = kept.fills /\ m.pos = kept.pos
        /\ \A p \in All : m.orders[p] = IF p = o THEN x ELSE kept.orders[p]
    BY <1>1, <1>10, <2>0, <2>5, UpsertIs
  <2>7. LedOK(m, ex, Known)
    BY <1>1, <1>9, <2>0, <2>5, KnownOwn, UpsertOK
  <2> HIDE DEF m
  <2>8. l = [m EXCEPT !.ids = @ \cup {o}] /\ {o} \in SUBSET All
    BY <1>3 DEF identify
  <2>9. LedOK(l, ex, Known)
    BY <1>1, <2>7, IdentifyOK
  <2>10. l.orders = m.orders /\ l.fills = m.fills /\ l.pos = m.pos
    BY <2>6, <2>8, IdentifyIs
  <2> HIDE DEF l
  <2>11. l.orders[o] = x /\ \A p \in Own : p # o => l.orders[p] = led.orders[p]
    BY <1>3, <1>10, <2>6, <2>10, OwnAll
  <2>12. l.pos = led.pos /\ \A t \in Trades : led.fills[t] > 0 => l.fills[t] > 0
    BY <1>10, <2>6, <2>10
  <2>13. calm => Looping(q, l, ex, o + 1)
    <3> SUFFICES ASSUME calm PROVE Looping(q, l, ex, o + 1)
      OBVIOUS
    <3>1. Query(led, r, o)
      BY <1>1, <1>7, <1>13 DEF Asking
    <3>2. x = ex[o].status /\ x \in Executed
      BY <1>1, <1>8, <1>13 DEF x
    <3>3. ex[o].status \in Working => led.orders[o] \notin Working \cup Executed
      BY <1>1, <1>7, <3>1, TestsAre DEF Looping
    <3>4. Fits(ex[o].status, led.orders[o]) =>
            Fits(ex[o].status, l.orders[o]) /\ (ex[o].status = "FILLED" => l.orders[o] = "FILLED")
      BY <2>11, <3>2, <3>3 DEF Fits, Working, Executed
    <3>5. Looping(r, led, ex, o) /\ o \in Own /\ led.orders[o] # "ABSENT" /\ l.orders[o] # "ABSENT"
      BY <1>1, <1>7, <2>0, <2>11
    <3>6. q.lost = r.lost /\ q.curable = r.curable /\ q.bad = r.bad
      BY <2>1
    <3> QED
      BY <2>2, <2>4, <2>11, <2>12, <3>2, <3>4, <3>5, <3>6, Advance
  <2>14. GoOn(s, l, q, WrittenBack(s, o), o + 1)
    BY <1>13 DEF q
  <2>15. Turn(s)
    BY <1>1, <1>3, <1>4, <1>6, <1>7, <2>1, <2>9, <2>13, <2>14, LoopTurn DEF r
  <2> QED
    BY <1>5, <2>15
<1> QED
  BY <1>1, <1>11, <1>12, <1>13 DEF RecoverFills, Took, Reconciliation

LEMMA RequestFailsTurn ==
  ASSUME Inv, Undisturbed, NEW s \in Slots, RequestFails(s)
  PROVE  Turn(s) /\ OwnTrades'
<1> DEFINE r == rec[s]
           v == Troubled(r)
           q == [r EXCEPT !.bad = TRUE, !.view = v]
<1>1. r \in Reconciliation /\ r.todo \in Own /\ Running(r)
  BY Parts DEF RequestFails, RecOK, Running
<1>2. v \in {"calm", "moved", "event"} /\ v # "calm"
  BY <1>1 DEF Troubled, Reconciliation
<1>3. GoOn(s, led, q, Disturb(s), r.todo + 1) /\ Fault /\ UNCHANGED <<ex, feed, auth, recovered>>
  BY DEF RequestFails
<1>4. RecsOK(Disturb(s)) /\ Others(Disturb(s), s)
  BY <1>1, Parts, DisturbOK, OthersIs
<1> HIDE DEF r, v
<1>5. q \in Reconciliation /\ q.view = v
  BY <1>1, <1>2 DEF Reconciliation
<1>6. q.bad = TRUE
  BY <1>1, <1>2 DEF Reconciliation
<1>7. r.todo + 1 \in 1..(N + 1)
  BY <1>1, LedgerAssumption DEF Own
<1>8. MutSync /\ OwnTrades /\ led \in Ledger /\ LedOK(led, ex, Known) /\ faults \in Nat
  BY Parts DEF Undisturbed
<1>9. OwnTrades' /\ faults' # faults
  BY <1>3, <1>8 DEF OwnTrades, Fault
<1> HIDE DEF q
<1>10. (\A t \in Slots \ {s} : Aside(t)) /\ MutSync' /\ Calm(rec'[s], led', ex)
  BY <1>1, <1>2, <1>3, <1>4, <1>5, <1>7, <1>8, LoopAside DEF r
<1>11. ~(rec'[s].pc = "idle" /\ verdict' = "IN_SYNC")
  BY <1>3, <1>4, <1>5, <1>6, <1>7, <1>8, LoopFaulty
<1> QED
  BY <1>9, <1>10, <1>11 DEF Turn

LEMMA ReadPositionsTurn ==
  ASSUME Inv, Undisturbed, NEW s \in Slots, ReadPositions(s)
  PROVE  Turn(s) /\ OwnTrades'
<1> DEFINE p == Position(ex)
           q == [rec[s] EXCEPT !.pc = "open", !.pos = p, !.view = "calm"]
<1>1. p \in Int
  BY PositionInt
<1>2. rec[s] \in Reconciliation /\ Running(rec[s])
  BY Parts DEF ReadPositions, Running
<1>3. rec' = [rec EXCEPT ![s] = q] /\ UNCHANGED <<ex, led, mut, recovered>>
  BY Parts DEF ReadPositions, RecsOK
<1> HIDE DEF p
<1>4. q.pc = "open" /\ q.pos = p
  BY <1>1, <1>2 DEF Reconciliation
<1> HIDE DEF q
<1>5. Calm(q, led', ex) /\ q.pc # "idle" /\ SameBooks
  BY <1>3, <1>4 DEF Calm, SameBooks, p
<1>6. Turn(s)
  BY <1>2, <1>3, <1>5, SlotTurn
<1> QED
  BY <1>3, <1>6 DEF OwnTrades, Undisturbed

\* reconcile() returns without a verdict on the ledger.
LEMMA ReleasedTurn ==
  ASSUME Inv, Undisturbed, NEW s \in Slots, rec' = [rec EXCEPT ![s] = NoRec], SameBooks, Release(s),
         verdict' = "UNKNOWN"
  PROVE  Turn(s)
<1>1. rec'[s] = NoRec /\ \A t \in Slots \ {s} : rec'[t] = rec[t]
  BY Parts DEF RecsOK
<1>2. \A t \in Slots \ {s} : Aside(t)
  BY <1>1 DEF Aside
<1>3. "mut" \in Slots
  BY DEF Slots
<1>4. MutSync'
  BY <1>1, <1>3, NoRecQuiet DEF MutSync, Undisturbed, Release
<1>5. Calm(rec'[s], led', ex)
  BY <1>1, NoRecQuiet, QuietCalm
<1> QED
  BY <1>2, <1>4, <1>5 DEF Turn

LEMMA ReconcileFailsTurn ==
  ASSUME Inv, Undisturbed, NEW s \in Slots, ReconcileFails(s)
  PROVE  Turn(s) /\ OwnTrades'
<1>1. /\ rec' = [rec EXCEPT ![s] = NoRec] /\ Release(s) /\ verdict' = "UNKNOWN"
      /\ UNCHANGED <<ex, led, recovered>>
  BY DEF ReconcileFails
<1>2. SameBooks
  BY <1>1 DEF SameBooks
<1>3. Turn(s)
  BY <1>1, <1>2, ReleasedTurn
<1> QED
  BY <1>1, <1>3 DEF OwnTrades, Undisturbed

LEMMA ReadOpenOrdersTurn ==
  ASSUME Inv, Undisturbed, NEW s \in Slots, ReadOpenOrders(s)
  PROVE  Turn(s) /\ OwnTrades'
<1> DEFINE w == OpenView(ex)
           c == Curable(led, ex)
           q == [rec[s] EXCEPT !.pc = "trades", !.open = w, !.curable = c]
<1>1. w \in [All -> [status : ExStatus, done : Nat]] /\ c \in BOOLEAN /\ led \in Ledger
  BY Parts, OpenViewIs DEF Curable
<1>2. rec[s] \in Reconciliation /\ rec[s].pc = "open" /\ Running(rec[s])
  BY Parts DEF ReadOpenOrders, Running
<1>3. UNCHANGED <<ex, feed, auth, recovered, faults>>
  BY DEF ReadOpenOrders
<1>4. SameBooks
  <2>1. led' \in {led, set_account_snapshot(led, FALSE)}
    BY DEF ReadOpenOrders
  <2> QED
    BY <1>1, <1>3, <2>1, SnapIs DEF SameBooks
<1>5. OwnTrades'
  BY <1>3 DEF OwnTrades, Undisturbed
<1>6. CASE rec[s].boot /\ ~HasLocalState /\ (rec[s].pos # 0 \/ OpenOrders(ex) # {})
  <2>1. verdict' = "UNKNOWN" /\ rec' = [rec EXCEPT ![s] = NoRec] /\ Release(s)
    BY <1>6 DEF ReadOpenOrders
  <2>2. Turn(s)
    BY <1>4, <2>1, ReleasedTurn
  <2> QED
    BY <1>5, <2>2
<1>7. CASE ~(rec[s].boot /\ ~HasLocalState /\ (rec[s].pos # 0 \/ OpenOrders(ex) # {}))
  <2>1. rec' = [rec EXCEPT ![s] = q] /\ UNCHANGED <<verdict, state, mut, link>>
    BY <1>7, Parts DEF ReadOpenOrders, OpenView, RecsOK
  <2> HIDE DEF w, c
  <2>2. q.pc = "trades" /\ q.open = w /\ q.curable = c /\ q.pos = rec[s].pos /\ q.view = rec[s].view
    BY <1>1, <1>2 DEF Reconciliation
  <2> HIDE DEF q
  <2>3. Calm(rec[s], led, ex)
    BY DEF Undisturbed
  <2>4. q.curable => Curable(led', ex)
    BY <1>4, <2>2 DEF SameBooks, Curable, c
  <2>5. Calm(q, led', ex)
    BY <1>2, <2>2, <2>3, <2>4 DEF Calm, w
  <2>6. Turn(s)
    BY <1>2, <1>4, <2>1, <2>2, <2>5, SlotTurn
  <2> QED
    BY <1>5, <2>6
<1> QED
  BY <1>6, <1>7
-----------------------------------------------------------------------------
(* The steps of everybody else.                                            *)

Passive == (\A t \in Slots : Aside(t)) /\ MutSync' /\ OwnTrades'
OwnOnly == \A t \in recovered' : t \in recovered \/ t[1] \in Own

\* The mutation is not at its reconcile(), or goes on as it is.
MutFree == mut.pc # "sync" \/ mut' = mut

LEMMA MutIdle == ASSUME Undisturbed, mut.pc # "sync" PROVE ~Running(rec["mut"])
  BY DEF Undisturbed, MutSync

\* No slot is touched.
LEMMA RecKept ==
  ASSUME Inv, Undisturbed, rec' = rec, SameBooks, MutFree, OwnOnly
  PROVE  Passive
<1>1. \A t \in Slots : Aside(t)
  BY DEF Aside
<1>2. MutSync'
  BY DEF MutSync, Undisturbed, MutFree
<1> QED
  BY <1>1, <1>2 DEF Passive, OwnOnly, OwnTrades, Undisturbed

\* Every slot is told.
LEMMA AllTold ==
  ASSUME Inv, Undisturbed, \A t \in Slots : Quiet(rec'[t]) /\ rec'[t].pc = rec[t].pc, MutFree, OwnOnly
  PROVE  Passive
<1>1. \A t \in Slots : Aside(t)
  BY DEF Aside, Running
<1>2. "mut" \in Slots
  BY DEF Slots
<1>3. MutSync'
  BY <1>2 DEF MutSync, Undisturbed, MutFree, Running
<1> QED
  BY <1>1, <1>3 DEF Passive, OwnOnly, OwnTrades, Undisturbed

\* The exchange moves.
LEMMA ExchangeTold ==
  ASSUME Inv, Undisturbed, rec' = Disturb("none"), MutFree, recovered' = recovered
  PROVE  Passive
<1>1. "none" \notin Slots
  BY VenueAssumption DEF Slots
<1>2. \A t \in Slots : Quiet(rec'[t]) /\ rec'[t].pc = rec[t].pc
  BY <1>1, Parts, DisturbQuiet
<1> QED
  BY <1>2, AllTold DEF OwnOnly

\* What a mutation writes to the ledger is told to the others.
MutWrites(rs) == \A t \in Slots : Quiet(rs[t]) /\ rs[t].pc = rec[t].pc

LEMMA MutWritesIs ==
  ASSUME Inv, Undisturbed, mut.pc # "sync"
  PROVE  MutWrites(Disturb("mut")) /\ MutWrites(Replaced(Disturb("mut"), mut.order))
<1>0. RecsOK(rec) /\ RecsOK(Disturb("mut")) /\ mut.order \in Own
  BY Parts, DisturbOK, MutOrder
<1>1. "mut" \in Slots
  BY DEF Slots
<1>2. rec["mut"].pc = "idle"
  BY MutIdle DEF Running
<1>3. Disturb("mut")["mut"] = rec["mut"]
  BY <1>1 DEF Disturb
<1>4. Quiet(Disturb("mut")["mut"]) /\ Disturb("mut")["mut"].pc = rec["mut"].pc
  BY <1>2, <1>3 DEF Quiet
<1>5. MutWrites(Disturb("mut"))
  BY <1>0, <1>4, DisturbQuiet DEF MutWrites
<1>6. MutWrites(Replaced(Disturb("mut"), mut.order))
  BY <1>0, <1>5, ReplacedQuiet DEF MutWrites
<1> QED
  BY <1>5, <1>6

LEMMA MutTold ==
  ASSUME Inv, Undisturbed, mut.pc # "sync", MutWrites(rec'), OwnOnly PROVE Passive
  BY AllTold DEF MutWrites, MutFree

\* The mutation begins its reconcile().
LEMMA MutBegins ==
  ASSUME Inv, Undisturbed, NEW rs, RecsOK(rs), MutWrites(rs) \/ (rs = rec /\ SameBooks),
         NEW c, NEW known, rec' = [rs EXCEPT !["mut"] = Begun(c, known)], mut'.pc = "sync", OwnOnly
  PROVE  Passive
<1>1. rec'["mut"] = Begun(c, known) /\ \A t \in Slots \ {"mut"} : rec'[t] = rs[t]
  BY DEF RecsOK, Slots
<1>2. \A t \in Slots : Aside(t)
  BY <1>1, BegunQuiet DEF Aside, MutWrites, Running
<1>3. MutSync'
  BY DEF MutSync
<1> QED
  BY <1>2, <1>3 DEF Passive, OwnOnly, OwnTrades, Undisturbed

\* A reconcile() outside mutations begins.
LEMMA TaskBegins ==
  ASSUME Inv, Undisturbed, NEW s \in Tasks, NEW c, rec' = Start(s, c), SameBooks, mut' = mut,
         recovered' = recovered
  PROVE  Passive
<1>0. s \in Slots /\ s # "mut" /\ "mut" \in Slots
  BY VenueAssumption DEF Slots
<1>1. rec'[s] = Begun(c, TRUE) /\ \A t \in Slots \ {s} : rec'[t] = rec[t]
  BY <1>0, Parts DEF RecsOK, Start
<1>2. \A t \in Slots : Aside(t)
  BY <1>1, BegunQuiet DEF Aside
<1>3. MutSync'
  BY <1>0, <1>1 DEF MutSync, Undisturbed
<1> QED
  BY <1>2, <1>3 DEF Passive, OwnTrades, Undisturbed

LEMMA ExchangePassive ==
  ASSUME Inv, Undisturbed, (\E o \in All : ExFill(o)) \/ (\E o \in Own : ExCancel(o)) \/ ExForeign
  PROVE  Passive
<1>1. rec' = Disturb("none") /\ mut' = mut /\ recovered' = recovered
  BY DEF ExFill, ExCancel, ExForeign
<1> QED
  BY <1>1, ExchangeTold DEF MutFree

LEMMA StreamPassive ==
  ASSUME Inv, Undisturbed,
         NEW s \in Tasks, Connect(s) \/ trigger_reconciliation(s) \/ Drop(s) \/ Reconnect(s)
  PROVE  Passive
<1>1. UNCHANGED <<ex, led, mut, recovered>>
  BY DEF Connect, trigger_reconciliation, Drop, Reconnect
<1>2. \/ rec' = Start(s, "connect") \/ rec' = Start(s, "trigger") \/ rec' = Start(s, "disconnect")
      \/ rec' = Start(s, "reconnected") \/ rec' = rec
  BY DEF Connect, trigger_reconciliation, Drop, Reconnect
<1>3. SameBooks
  BY <1>1 DEF SameBooks
<1> QED
  BY <1>1, <1>2, <1>3, TaskBegins, RecKept DEF MutFree, OwnOnly

LEMMA EventPassive == ASSUME Inv, Undisturbed, KeepaliveTick \/ on_ws_event PROVE Passive
<1>1. CASE KeepaliveTick
  <2>1. rec' = rec /\ SameBooks /\ MutFree /\ OwnOnly
    BY <1>1 DEF KeepaliveTick, SameBooks, MutFree, OwnOnly
  <2> QED
    BY <2>1, RecKept
<1>2. CASE on_ws_event
  <2>1. rec' = Observed(rec) /\ MutFree /\ OwnOnly
    BY <1>2 DEF on_ws_event, MutFree, OwnOnly
  <2>2. \A t \in Slots : Quiet(rec'[t]) /\ rec'[t].pc = rec[t].pc
    BY <2>1, Parts, ObservedQuiet
  <2> QED
    BY <2>1, <2>2, AllTold
<1> QED
  BY <1>1, <1>2

\* Mutation steps that only write to the ledger, or to nothing.
LEMMA WritePassive ==
  ASSUME Inv, Undisturbed, mut.pc # "sync", recovered' = recovered,
         \/ rec' = Disturb("mut") \/ rec' = Replaced(Disturb("mut"), mut.order)
         \/ rec' = rec /\ UNCHANGED <<ex, led>>
         \/ rec' = Disturb("none")
  PROVE  Passive
<1>1. OwnOnly /\ MutFree
  BY DEF OwnOnly, MutFree
<1>2. CASE rec' = Disturb("mut") \/ rec' = Replaced(Disturb("mut"), mut.order)
  <2>1. MutWrites(rec')
    BY <1>2, MutWritesIs
  <2> QED
    BY <1>1, <2>1, MutTold
<1>3. CASE rec' = rec /\ UNCHANGED <<ex, led>>
  <2>1. SameBooks
    BY <1>3 DEF SameBooks
  <2> QED
    BY <1>1, <1>3, <2>1, RecKept
<1>4. CASE rec' = Disturb("none")
  BY <1>1, <1>4, ExchangeTold
<1> QED
  BY <1>2, <1>3, <1>4

LEMMA SubmitPassive ==
  ASSUME Inv, Undisturbed,
         \E o \in Own : Submit(o) \/ Change(o, "DELETE") \/ Change(o, "PUT")
  PROVE  Passive
<1>1. mut.pc # "sync" /\ recovered' = recovered
  BY DEF Submit, Change
<1>2. rec' = Disturb("mut") \/ (rec' = rec /\ UNCHANGED <<ex, led>>)
  BY DEF Submit, Change
<1> QED
  BY <1>1, <1>2, WritePassive

LEMMA UnansweredPassive ==
  ASSUME Inv, Undisturbed, NotSent \/ Rejected \/ AuthRejected \/ Ambiguous \/ CancelAll \/ CancelRefused
  PROVE  Passive
<1>1. mut.pc # "sync" /\ recovered' = recovered
  BY DEF NotSent, Rejected, AuthRejected, Ambiguous, CancelAll, CancelRefused
<1>2. CASE NotSent \/ AuthRejected \/ Ambiguous \/ CancelAll \/ CancelRefused
  <2>1. rec' = rec /\ UNCHANGED <<ex, led>>
    BY <1>2 DEF NotSent, AuthRejected, Ambiguous, CancelAll, CancelRefused
  <2> QED
    BY <1>1, <2>1, WritePassive
<1>3. CASE Rejected
  <2>1. mut.kind \in {"POST", "PUT", "DELETE"}
    BY <1>3, Parts DEF Rejected, MutOK, Mutation
  <2>2. rec' = Replaced(Disturb("mut"), mut.order) \/ (rec' = rec /\ UNCHANGED <<ex, led>>)
    BY <1>3, <2>1 DEF Rejected
  <2> QED
    BY <1>1, <2>2, WritePassive
<1> QED
  BY <1>2, <1>3

LEMMA SendPassive ==
  ASSUME Inv, Undisturbed, Send \/ SendFills \/ CancelNext PROVE Passive
<1>1. mut.pc # "sync" /\ recovered' = recovered
  BY DEF Send, SendFills, CancelNext
<1>2. rec' = Disturb("none") \/ (rec' = rec /\ UNCHANGED <<ex, led>>)
  BY DEF Send, SendFills, CancelNext
<1> QED
  BY <1>1, <1>2, WritePassive

\* What a mutation writes before its reconcile().
LEMMA BeginPassive ==
  ASSUME Inv, Undisturbed, mut.pc # "sync", OwnOnly, mut'.pc = "sync",
         NEW rs, \/ rs = Disturb("mut") \/ rs = Replaced(Disturb("mut"), mut.order)
                 \/ rs = rec /\ UNCHANGED <<ex, led>>,
         NEW c, NEW known, rec' = [rs EXCEPT !["mut"] = Begun(c, known)]
  PROVE  Passive
<1>1. RecsOK(rs)
  BY Parts, DisturbOK, ReplacedOK, MutOrder
<1>2. MutWrites(rs) \/ (rs = rec /\ SameBooks)
  BY MutWritesIs DEF SameBooks
<1> QED
  BY <1>1, <1>2, MutBegins

LEMMA SyncIs == ASSUME NEW m \in Mutation PROVE [m EXCEPT !.pc = "sync"].pc = "sync"
  BY DEF Mutation

LEMMA ReplyPassive == ASSUME Inv, Undisturbed, Reply PROVE Passive
<1> DEFINE rs == IF mut.kind = "DELETE" THEN Disturb("mut") ELSE Replaced(Disturb("mut"), mut.order)
<1>1. mut.pc # "sync" /\ recovered' = recovered /\ mut \in Mutation /\ OwnOnly
  BY MutOrder DEF Reply, OwnOnly
<1>2. rs = Disturb("mut") \/ rs = Replaced(Disturb("mut"), mut.order)
  OBVIOUS
<1>3. CASE mut.resp \in Executed
  <2>1. rec' = rs
    BY <1>3 DEF Reply
  <2> QED
    BY <1>1, <1>2, <2>1, WritePassive
<1>4. CASE mut.resp \notin Executed
  <2>1. mut' = [mut EXCEPT !.pc = "sync"] /\ rec' = [rs EXCEPT !["mut"] = Begun("post", TRUE)]
    BY <1>4 DEF Reply
  <2>2. mut'.pc = "sync"
    BY <1>1, <2>1, SyncIs
  <2> HIDE DEF rs
  <2> QED
    BY <1>1, <1>2, <2>1, <2>2, BeginPassive
<1> QED
  BY <1>3, <1>4

LEMMA FillsPassive == ASSUME Inv, Undisturbed, ReplyFills \/ ResolveFills PROVE Passive
<1>1. mut.pc # "sync" /\ mut \in Mutation /\ mut.order \in Own
  BY MutOrder DEF ReplyFills, ResolveFills
<1>2. recovered' = recovered \cup TradesNow(mut.order)
  BY DEF ReplyFills, ResolveFills
<1>3. OwnOnly
  BY <1>1, <1>2 DEF OwnOnly, TradesNow
<1> DEFINE ok == AddUp(mut.order, [status |-> mut.resp, done |-> mut.done])
<1>4. CASE ReplyFills /\ ~ok
  <2>1. rec' = rec /\ SameBooks
    BY <1>4 DEF ReplyFills, SameBooks
  <2> QED
    BY <1>1, <1>3, <2>1, RecKept DEF MutFree
<1>5. CASE ReplyFills /\ ok
  <2>1. /\ mut' = [mut EXCEPT !.pc = "sync"]
        /\ rec' = [Disturb("mut") EXCEPT !["mut"] = Begun("post", TRUE)]
    BY <1>5 DEF ReplyFills
  <2>2. mut'.pc = "sync"
    BY <1>1, <2>1, SyncIs
  <2> QED
    BY <1>1, <1>3, <2>1, <2>2, BeginPassive
<1>6. CASE ResolveFills
  <2>1. /\ mut' = [mut EXCEPT !.pc = "sync"]
        /\ rec' = [Disturb("mut") EXCEPT !["mut"] = Begun("resolve", ok)]
    BY <1>6 DEF ResolveFills
  <2>2. mut'.pc = "sync"
    BY <1>1, <2>1, SyncIs
  <2> HIDE DEF ok
  <2> QED
    BY <1>1, <1>3, <2>1, <2>2, BeginPassive
<1> QED
  BY <1>4, <1>5, <1>6

LEMMA ResolvePassive == ASSUME Inv, Undisturbed, Resolve PROVE Passive
<1> DEFINE o == mut.order
           seen == IF ex[o].status = "NONE" THEN led
                   ELSE identify(upsert_order(led, o, ex[o].status), o)
           rs == IF mut.kind = "DELETE" \/ seen = led THEN Disturb("mut")
                 ELSE Replaced(Disturb("mut"), o)
<1>1. mut.pc # "sync" /\ recovered' = recovered /\ mut \in Mutation /\ OwnOnly /\ ex' = ex
  BY MutOrder DEF Resolve, OwnOnly
<1>2. rs = Disturb("mut") \/ rs = Replaced(Disturb("mut"), mut.order)
  OBVIOUS
<1>3. \/ rec' = rs
      \/ mut' = [mut EXCEPT !.pc = "sync"] /\ rec' = [rs EXCEPT !["mut"] = Begun("resolve", TRUE)]
      \/ /\ mut' = [mut EXCEPT !.pc = "sync"] /\ rec' = [rec EXCEPT !["mut"] = Begun("resolve", FALSE)]
         /\ led' = led
  BY DEF Resolve
<1> HIDE DEF rs, seen
<1>4. CASE rec' = rs
  BY <1>1, <1>2, <1>4, WritePassive
<1>5. CASE mut' = [mut EXCEPT !.pc = "sync"] /\ rec' = [rs EXCEPT !["mut"] = Begun("resolve", TRUE)]
  <2>1. mut'.pc = "sync"
    BY <1>1, <1>5, SyncIs
  <2> QED
    BY <1>1, <1>2, <1>5, <2>1, BeginPassive
<1>6. CASE /\ mut' = [mut EXCEPT !.pc = "sync"] /\ rec' = [rec EXCEPT !["mut"] = Begun("resolve", FALSE)]
           /\ led' = led
  <2>1. mut'.pc = "sync"
    BY <1>1, <1>6, SyncIs
  <2> QED
    BY <1>1, <1>6, <2>1, BeginPassive
<1> QED
  BY <1>3, <1>4, <1>5, <1>6

LEMMA FlattenPassive == ASSUME Inv, Undisturbed, EmergencyFlatten \/ FlattenReconcile PROVE Passive
<1>1. mut.pc # "sync" /\ recovered' = recovered /\ mut \in Mutation /\ OwnOnly /\ NoMut \in Mutation
  BY MutOrder, DoneOK DEF EmergencyFlatten, FlattenReconcile, OwnOnly, MutOK
<1>2. CASE FlattenReconcile
  <2>1. /\ mut' = [mut EXCEPT !.pc = "sync"] /\ rec' = [rec EXCEPT !["mut"] = Begun("flatten", mut.ok)]
        /\ UNCHANGED <<ex, led>>
    BY <1>2 DEF FlattenReconcile
  <2>2. mut'.pc = "sync"
    BY <1>1, <2>1, SyncIs
  <2> QED
    BY <1>1, <2>1, <2>2, BeginPassive
<1>3. CASE EmergencyFlatten
  <2>1. \/ rec' = Disturb("mut")
        \/ /\ mut' = [NoMut EXCEPT !.pc = "sync"]
           /\ rec' = [Disturb("mut") EXCEPT !["mut"] = Begun("flat", TRUE)]
    BY <1>3 DEF EmergencyFlatten
  <2>2. CASE rec' = Disturb("mut")
    BY <1>1, <2>2, WritePassive
  <2>3. CASE /\ mut' = [NoMut EXCEPT !.pc = "sync"]
             /\ rec' = [Disturb("mut") EXCEPT !["mut"] = Begun("flat", TRUE)]
    <3>1. mut'.pc = "sync"
      BY <1>1, <2>3, SyncIs
    <3> QED
      BY <1>1, <2>3, <3>1, BeginPassive
  <2> QED
    BY <2>1, <2>2, <2>3
<1> QED
  BY <1>2, <1>3
-----------------------------------------------------------------------------
(* The theorems.                                                           *)

LEMMA InitUndisturbed == Init => Undisturbed
<1> SUFFICES ASSUME Init PROVE Undisturbed
  OBVIOUS
<1>1. \A s \in Slots : rec[s] = NoRec
  BY DEF Init
<1>2. \A s \in Slots : Calm(rec[s], led, ex)
  BY <1>1, NoRecQuiet, QuietCalm
<1>3. "mut" \in Slots
  BY DEF Slots
<1> QED
  BY <1>1, <1>2, <1>3, NoRecQuiet DEF Undisturbed, MutSync, OwnTrades, Init

\* Every step is a turn of one reconcile() or passes all of them by.
LEMMA EveryStep ==
  ASSUME Inv, Undisturbed, [Next]_vars
  PROVE  Passive \/ (ex' = ex /\ OwnTrades' /\ \E s \in Slots : Turn(s))
<1>1. ASSUME NEW s \in Slots, Reconcile(s) \/ ReconcileFails(s) \/ RequestFails(s)
      PROVE  ex' = ex /\ OwnTrades' /\ Turn(s)
  <2>1. ex' = ex
    BY <1>1 DEF Reconcile, ReconcileFails, RequestFails, ReadPositions, ReadOpenOrders, RecoverTrades,
                QueryOrder, RecoverFills
  <2> QED
    BY <1>1, <2>1, ReadPositionsTurn, ReadOpenOrdersTurn, RecoverTradesTurn, QueryOrderTurn,
       RecoverFillsTurn, ReconcileFailsTurn, RequestFailsTurn DEF Reconcile
<1>2. CASE UNCHANGED vars
  BY <1>2, RecKept DEF vars, SameBooks, MutFree, OwnOnly
<1>3. CASE Mutate
  BY <1>3, SendPassive, ReplyPassive, UnansweredPassive, FillsPassive, ResolvePassive,
     FlattenPassive DEF Mutate
<1> QED
  BY <1>1, <1>2, <1>3, ExchangePassive, StreamPassive, EventPassive, SubmitPassive,
     UnansweredPassive, FlattenPassive DEF Next

\* A step that is not one of its own leaves a calm reconcile() right.
LEMMA AsideCalm ==
  ASSUME NEW t \in Slots, Aside(t), Calm(rec[t], led, ex) PROVE Calm(rec'[t], led', ex')
<1>1. CASE Quiet(rec'[t])
  BY <1>1, QuietCalm
<1>2. CASE rec'[t] = rec[t] /\ SameBooks
  <2> DEFINE r == rec[t]
  <2>1. ASSUME NEW k PROVE Looping(r, led, ex, k) => Looping(r, led', ex, k)
    BY <1>2 DEF SameBooks, Looping, Reviewing, Passed, Recorded, Repaired, Curable
  <2>2. Curable(led, ex) => Curable(led', ex)
    BY <1>2 DEF SameBooks, Curable
  <2>3. Asking(r, led, ex) => Asking(r, led', ex)
    BY <1>2 DEF SameBooks, Asking, Query, Fills, Local, Found
  <2>4. Calm(r, led', ex)
    BY <2>1, <2>2, <2>3 DEF Calm
  <2> QED
    BY <1>2, <2>4 DEF SameBooks
<1> QED
  BY <1>1, <1>2 DEF Aside

LEMMA UndisturbedStep == ASSUME Inv, Undisturbed, [Next]_vars PROVE Undisturbed'
<1>1. \A t \in Slots : Calm(rec[t], led, ex)
  BY DEF Undisturbed
<1>2. CASE Passive
  <2>1. \A t \in Slots : Calm(rec'[t], led', ex')
    BY <1>1, <1>2, AsideCalm DEF Passive
  <2> QED
    BY <1>2, <2>1 DEF Passive, Undisturbed
<1>3. CASE ex' = ex /\ OwnTrades' /\ \E s \in Slots : Turn(s)
  <2>1. PICK s \in Slots : Turn(s)
    BY <1>3
  <2>2. Calm(rec'[s], led', ex') /\ MutSync'
    BY <1>3, <2>1 DEF Turn
  <2>3. \A t \in Slots \ {s} : Calm(rec'[t], led', ex')
    BY <1>1, <2>1, AsideCalm DEF Turn
  <2> QED
    BY <1>3, <2>2, <2>3 DEF Undisturbed
<1> QED
  BY <1>2, <1>3, EveryStep

\* The invariants hold together.
LEMMA VerdictInvariant == Spec => [](Inv /\ Undisturbed)
<1>1. Init => Inv /\ Undisturbed
  BY InitInv, InitUndisturbed
<1>2. Inv /\ Undisturbed /\ [Next]_vars => (Inv /\ Undisturbed)'
  BY NextInv, StutterInv, UndisturbedStep
<1> QED
  BY <1>1, <1>2, PTL DEF Spec

\* The verdict of a step, for the two theorems below.
InSyncStep ==
  \A s \in Slots :
    (Running(rec[s]) /\ rec'[s].pc = "idle" /\ rec[s].view = "calm" /\ verdict' = "IN_SYNC")
      => Agrees(led', ex)
RepairStep ==
  \A s \in Slots :
    (rec[s].pc \in {"trades", "query", "fills"} /\ rec'[s].pc = "idle"
       /\ rec[s].view = "calm" /\ rec[s].curable /\ faults' = faults)
      => verdict' # "MISMATCH"

LEMMA VerdictSteps == ASSUME Inv, Undisturbed, [Next]_vars PROVE InSyncStep /\ RepairStep
<1>1. CASE Passive
  BY <1>1 DEF Passive, Aside, Running, InSyncStep, RepairStep
<1>2. CASE \E s \in Slots : Turn(s)
  <2>1. PICK s \in Slots : Turn(s)
    BY <1>2
  <2>2. \A t \in Slots \ {s} : Running(rec[t]) => rec'[t].pc # "idle"
    BY <2>1 DEF Turn, Aside, Running
  <2> QED
    BY <2>1, <2>2 DEF Turn, Running, InSyncStep, RepairStep
<1> QED
  BY <1>1, <1>2, EveryStep

\* BinanceReconciliation.reconcile: a verdict IN_SYNC that nobody disturbed is one
\* of a ledger that agrees with the exchange on working orders, position and fills.
THEOREM VenueInSync == Spec => InSyncIsTrue
<1>1. Inv /\ Undisturbed /\ [Next]_vars => [InSyncStep]_vars
  BY VerdictSteps
<1> QED
  BY <1>1, VerdictInvariant, PTL DEF Spec, InSyncIsTrue, InSyncStep

\* _collect_diffs: an undisturbed reconcile() that met only differences its
\* recovery removes does not report a mismatch.
THEOREM VenueRepairs == Spec => RepairsWhatItCan
<1>1. Inv /\ Undisturbed /\ [Next]_vars => [RepairStep]_vars
  BY VerdictSteps
<1> QED
  BY <1>1, VerdictInvariant, PTL DEF Spec, RepairsWhatItCan, RepairStep
===============================================================================
