------------------------- MODULE BinanceVenueProofs -------------------------
(***************************************************************************)
(* For any number of orders, of any size, and any number of overlapping    *)
(* reconciliations: the ledger holds a fill at most once and only if the   *)
(* exchange executed it, and knows the worker's orders and no others.      *)
(***************************************************************************)
EXTENDS BinanceVenue, FiniteSetTheorems, WellFoundedInduction, TLAPS

\* The exchange: an order has executed no more than its quantity, and its
\* status says whether it has executed nothing, something or all of it.
OrderOK(x, q) ==
  /\ x \in [status : ExStatus, done : Nat]
  /\ x.status \in {"NONE", "NEW"} => x.done = 0
  /\ x.status = "PARTIALLY_FILLED" => x.done > 0
  /\ x.status \in Working => x.done < q
  /\ x.status = "FILLED" => x.done = q
ExOK(e) == /\ e \in [All -> [status : ExStatus, done : Nat]]
           /\ \A o \in All : OrderOK(e[o], Qty[o])

\* The messages under way: none reports an execution the exchange did not make.
OrderMessage == [e : {"ORDER_TRADE_UPDATE"}, order : All, status : ExStatus, trade : Nat]
AccountMessage == [e : {"ACCOUNT_UPDATE"}, pos : Int]
Truthful(e) == {m \in OrderMessage : m.status # "NONE" /\ m.trade <= e[m.order].done}
               \cup AccountMessage

\* The ledger, given the exchange and a set of orders it has to know.
LedOK(l, e, K) ==
  /\ l \in Ledger
  /\ \A o \in K : l.orders[o] # "ABSENT"
  /\ l.orders[Foreign] = "ABSENT" /\ Foreign \notin l.ids
  /\ \A t \in Trades : l.fills[t] > 0 => l.fills[t] = 1 /\ t[1] \in Own /\ t[2] <= e[t[1]].done

\* It has to know its orders at the exchange and the one about to be sent.
Known == {o \in Own : ex[o].status # "NONE" \/ (mut.pc = "send" /\ mut.order = o)}

\* A reconcile() asks only about own orders and takes over an executed status;
\* it has found no difference before it compares.
RecOK(r) ==
  /\ r \in Reconciliation
  /\ r.pc \in {"query", "fills"} => r.todo \in Own
  /\ r.pc = "fills" /\ r.queried => r.got.status \in Executed
  /\ r.pc \in {"positions", "open", "trades"} => ~r.bad
RecsOK(rs) == rs \in [Slots -> Reconciliation] /\ \A s \in Slots : RecOK(rs[s])

\* A POST about to be sent is new to the exchange, an answer to a POST or PUT has
\* a status.
MutOK(m, e) ==
  /\ m \in Mutation
  /\ m.pc = "send" => m.kind # "none"
  /\ m.pc = "send" /\ m.kind = "POST" => e[m.order].status = "NONE"
  /\ m.pc = "reply" /\ m.kind # "DELETE" => m.resp # "NONE"

Verdicts == {"UNKNOWN", "RECONCILING", "MISMATCH", "IN_SYNC"}
States == {"DISCONNECTED", "SYNCING", "READY", "RECONCILING", "DEGRADED"}
Links == [up : BOOLEAN, retry : BOOLEAN, keepalive : BOOLEAN]

AdapterOK == /\ link \in Links
             /\ verdict \in Verdicts
             /\ state \in States
             /\ auth \in {"ok", "doubt", "lost"}
             /\ recovered \subseteq Trades
             /\ faults \in Nat

Inv ==
  /\ ExOK(ex)
  /\ feed \in Seq(Truthful(ex))
  /\ LedOK(led, ex, Known)
  /\ RecsOK(rec)
  /\ MutOK(mut, ex)
  /\ AdapterOK

-----------------------------------------------------------------------------
(* Numbers and sets.                                                       *)

\* A set of naturals that is not empty has a least element.
LEMMA LeastExists ==
  ASSUME NEW S \in SUBSET Nat, S # {}
  PROVE  \E x \in S : \A y \in S : x <= y
<1> DEFINE Less == {ss \in Nat \X Nat : ss[1] < ss[2]}
<1>1. IsWellFoundedOn(Less, Nat)
  BY NatLessThanWellFounded DEF OpToRel
<1> HIDE DEF Less
<1>2. PICK x \in S : \A y \in S : ~(<<y, x>> \in Less)
  BY <1>1, WFMin
<1>3. ASSUME NEW y \in S PROVE x <= y
  <2>1. x \in Nat /\ y \in Nat
    OBVIOUS
  <2>2. ~(y < x)
    BY <1>2, <2>1 DEF Less
  <2> QED
    BY <2>1, <2>2
<1> QED
  BY <1>3

LEMMA MinIsLeast ==
  ASSUME NEW S \in SUBSET Nat, S # {}
  PROVE  Min(S) \in S /\ \A y \in S : Min(S) <= y
  BY LeastExists DEF Min

\* There are finitely many trades.
LEMMA TradesFinite == IsFiniteSet(Trades)
<1> DEFINE S == {TradesOf(o) : o \in All}
           f == [o \in All |-> TradesOf(o)]
<1>1. IsFiniteSet(All)
  BY LedgerAssumption, FS_Interval DEF All
<1>2. f \in Surjection(All, S)
  BY DEF Surjection
<1>3. IsFiniteSet(S)
  BY <1>1, <1>2, FS_Surjection
<1>4. \A o \in All : IsFiniteSet(TradesOf(o))
  <2> TAKE o \in All
  <2>1. IsFiniteSet({o})
    BY FS_Singleton
  <2>2. IsFiniteSet(1..Qty[o])
    <3>1. Qty[o] \in Int
      BY LedgerAssumption
    <3> QED
      BY <3>1, FS_Interval
  <2> QED
    BY <2>1, <2>2, FS_Product DEF TradesOf
<1>5. IsFiniteSet(UNION S)
  BY <1>3, <1>4, FS_UNION
<1> QED
  BY <1>5 DEF Trades

\* The position is a number.
LEMMA PositionInt == ASSUME NEW e PROVE Position(e) \in Int
<1>1. \A side : Traded(e, side) \in SUBSET Trades
  BY DEF Traded, Executions
<1>2. \A side : Cardinality(Traded(e, side)) \in Nat
  BY <1>1, TradesFinite, FS_Subset, FS_CardinalityType
<1> QED
  BY <1>2 DEF Position

\* A trade is one of an order and has a number.
LEMMA TradeShape ==
  ASSUME NEW t \in Trades
  PROVE  t[1] \in All /\ t[2] \in Nat /\ t[2] > 0 /\ t[2] <= Qty[t[1]] /\ t = <<t[1], t[2]>>
<1>1. PICK o \in All : t \in {o} \X (1..Qty[o])
  BY DEF Trades, TradesOf
<1> QED
  BY <1>1, LedgerAssumption
-----------------------------------------------------------------------------
(* The ledger's operations.                                                *)

\* Writing an own order.
LEMMA UpsertOK ==
  ASSUME NEW l, NEW e, NEW K \in SUBSET Own, LedOK(l, e, K),
         NEW o \in Own, NEW s \in Status \ {"ABSENT"}
  PROVE  /\ LedOK(upsert_order(l, o, s), e, K \cup {o})
         /\ LedOK(upsert_order(l, o, s), e, K)
<1>1. o \in All /\ o # Foreign /\ Foreign \in All
  BY LedgerAssumption DEF Own, All, Foreign
<1> DEFINE q == upsert_order(l, o, s)
<1>2. /\ q \in Ledger /\ q.ids = l.ids /\ q.fills = l.fills
      /\ q.orders = [l.orders EXCEPT ![o] = s]
  BY <1>1 DEF LedOK, upsert_order, Ledger
<1> HIDE DEF q
<1>3. \A p \in All : q.orders[p] = IF p = o THEN s ELSE l.orders[p]
  BY <1>2 DEF LedOK, Ledger
<1>4. LedOK(q, e, K \cup {o}) /\ LedOK(q, e, K)
  <2>1. K \subseteq All
    BY LedgerAssumption DEF Own, All
  <2> QED
    BY <1>1, <1>2, <1>3, <2>1 DEF LedOK
<1> QED
  BY <1>4 DEF q

\* Learning the exchange ids of own orders.
LEMMA IdsOK ==
  ASSUME NEW l, NEW e, NEW K, LedOK(l, e, K), NEW S \in SUBSET Own
  PROVE  LedOK([l EXCEPT !.ids = @ \cup S], e, K)
<1> DEFINE q == [l EXCEPT !.ids = @ \cup S]
<1>1. S \subseteq All /\ Foreign \notin S
  BY LedgerAssumption DEF Own, All, Foreign
<1>2. q \in Ledger /\ q.ids = l.ids \cup S /\ q.fills = l.fills /\ q.orders = l.orders
  BY <1>1 DEF LedOK, Ledger
<1> HIDE DEF q
<1>3. LedOK(q, e, K)
  BY <1>1, <1>2 DEF LedOK
<1> QED
  BY <1>3 DEF q

LEMMA IdentifyOK ==
  ASSUME NEW l, NEW e, NEW K, LedOK(l, e, K), NEW o \in Own
  PROVE  LedOK(identify(l, o), e, K)
  BY IdsOK, {o} \in SUBSET Own DEF identify

\* Recording executions of own orders.
LEMMA AppendOK ==
  ASSUME NEW l, NEW e, NEW K, LedOK(l, e, K),
         NEW T, \A t \in T \cap Trades : t[1] \in Own /\ t[2] <= e[t[1]].done
  PROVE  LedOK(append_fills(l, T), e, K)
<1> DEFINE q == append_fills(l, T)
<1>1. /\ q \in Ledger /\ q.ids = l.ids /\ q.orders = l.orders
      /\ q.fills = [t \in Trades |-> IF t \in T /\ l.fills[t] = 0 THEN 1 ELSE l.fills[t]]
  BY DEF LedOK, append_fills, Ledger
<1> HIDE DEF q
<1>2. LedOK(q, e, K)
  BY <1>1 DEF LedOK
<1> QED
  BY <1>2 DEF q

\* What changes neither orders nor fills.
LEMMA OtherFieldsOK ==
  ASSUME NEW l, NEW e, NEW K, LedOK(l, e, K), NEW q \in Ledger,
         q.orders = l.orders, q.ids = l.ids, q.fills = l.fills
  PROVE  LedOK(q, e, K)
  BY DEF LedOK

\* The account snapshot.
LEMMA SnapshotOK ==
  ASSUME NEW l, NEW e, NEW K, LedOK(l, e, K), NEW b \in BOOLEAN
  PROVE  LedOK(set_account_snapshot(l, b), e, K)
<1> DEFINE q == set_account_snapshot(l, b)
<1>1. q \in Ledger /\ q.orders = l.orders /\ q.ids = l.ids /\ q.fills = l.fills
  BY DEF LedOK, set_account_snapshot, Ledger
<1> HIDE DEF q
<1>2. LedOK(q, e, K)
  BY <1>1, OtherFieldsOK
<1> QED
  BY <1>2 DEF q

\* The position row.
LEMMA PositionRowOK ==
  ASSUME NEW l, NEW e, NEW K, LedOK(l, e, K), NEW p \in Int, NEW b \in BOOLEAN
  PROVE  LedOK([l EXCEPT !.pos = p, !.priced = b], e, K)
<1> DEFINE q == [l EXCEPT !.pos = p, !.priced = b]
<1>1. q \in Ledger /\ q.orders = l.orders /\ q.ids = l.ids /\ q.fills = l.fills
  BY DEF LedOK, Ledger
<1> HIDE DEF q
<1>2. LedOK(q, e, K)
  BY <1>1, OtherFieldsOK
<1> QED
  BY <1>2 DEF q

LEMMA PositionOK ==
  ASSUME NEW l, NEW e, NEW K, LedOK(l, e, K), NEW p \in Int
  PROVE  /\ LedOK(rest_position(l, p), e, K)
         /\ LedOK(active_positions(l, p), e, K)
         /\ LedOK(clear_positions(l), e, K)
         /\ LedOK(delta_position(l, p), e, K)
<1>1. LedOK([l EXCEPT !.pos = p], e, K)
  <2> DEFINE q == [l EXCEPT !.pos = p]
  <2>1. q \in Ledger /\ q.orders = l.orders /\ q.ids = l.ids /\ q.fills = l.fills
    BY DEF LedOK, Ledger
  <2> HIDE DEF q
  <2>2. LedOK(q, e, K)
    BY <2>1, OtherFieldsOK
  <2> QED
    BY <2>2 DEF q
<1>2. (p # 0) \in BOOLEAN /\ TRUE \in BOOLEAN /\ FALSE \in BOOLEAN /\ 0 \in Int
  OBVIOUS
<1>3. LedOK(rest_position(l, p), e, K)
  BY <1>2, PositionRowOK DEF rest_position
<1>4. LedOK(active_positions(l, p), e, K)
  BY <1>2, PositionRowOK DEF active_positions
<1>5. LedOK(clear_positions(l), e, K)
  BY <1>2, PositionRowOK DEF clear_positions
<1>6. LedOK(delta_position(l, p), e, K)
  BY <1>1 DEF delta_position
<1> QED
  BY <1>3, <1>4, <1>5, <1>6

\* The exchange goes on.
LEMMA ExchangeGoesOn ==
  ASSUME NEW l, NEW e, NEW e2, NEW K, NEW K2 \in SUBSET K, LedOK(l, e, K),
         ExOK(e), ExOK(e2), \A o \in All : e[o].done <= e2[o].done
  PROVE  LedOK(l, e2, K2)
<1>1. \A t \in Trades : t[2] <= e[t[1]].done => t[2] <= e2[t[1]].done
  <2> TAKE t \in Trades
  <2>1. t[1] \in All /\ t[2] \in Nat
    BY TradeShape
  <2>2. e[t[1]].done \in Nat /\ e2[t[1]].done \in Nat /\ e[t[1]].done <= e2[t[1]].done
    BY <2>1 DEF ExOK
  <2> QED
    BY <2>1, <2>2
<1> QED
  BY <1>1 DEF LedOK

\* An in-sync reconciliation adopts nothing of somebody else.
LEMMA CommittedOK ==
  ASSUME NEW l, NEW e, NEW K \in SUBSET Own, LedOK(l, e, K), NEW r \in Reconciliation, ~Unexplained(l, r)
  PROVE  LedOK(Committed(l, r), e, K)
<1>0. l \in Ledger /\ r.pos \in Int /\ K \subseteq All /\ Foreign \in All
  BY LedgerAssumption DEF LedOK, Reconciliation, Own, All, Foreign
<1>1. CASE ~r.boot
  BY <1>0, <1>1, PositionOK, SnapshotOK DEF Committed
<1>2. CASE r.boot
  <2> DEFINE a == active_positions(l, r.pos)
             F == {o \in All : Found(r, o)}
             G == [o \in All |-> IF Found(r, o) THEN r.open[o].status ELSE a.orders[o]]
             q == [a EXCEPT !.orders = G, !.ids = a.ids \cup F, !.init = TRUE]
  <2>0. LedOK(a, e, K)
    BY <1>0, PositionOK
  <2>1. LedOK(a, e, K) /\ a \in Ledger
    BY <2>0 DEF LedOK
  <2> HIDE DEF a
  <2>2. Foreign \notin F
    BY <1>0 DEF Unexplained, LedOK, Working
  <2>3. \A o \in F : r.open[o].status \in Status \ {"ABSENT"}
    BY DEF Found, Reconciliation, ExStatus, Status
  <2>4. G \in [All -> Status] /\ F \in SUBSET All
    BY <2>1, <2>3 DEF Ledger
  <2>5. \A o \in All : G[o] = IF o \in F THEN r.open[o].status ELSE a.orders[o]
    OBVIOUS
  <2> HIDE DEF F, G
  <2>6. q \in Ledger /\ q.orders = G /\ q.ids = a.ids \cup F /\ q.fills = a.fills
    BY <2>1, <2>4 DEF Ledger
  <2> HIDE DEF q
  <2>8. LedOK(q, e, K)
    BY <1>0, <2>1, <2>2, <2>3, <2>5, <2>6 DEF LedOK
  <2>7. Committed(l, r) = set_account_snapshot(q, TRUE)
    BY <1>2 DEF Committed, q, a, F, G
  <2> QED
    BY <2>7, <2>8, SnapshotOK
<1> QED
  BY <1>1, <1>2

LEMMA SeededOK ==
  ASSUME NEW l, NEW e, NEW K, LedOK(l, e, K), NEW r \in Reconciliation
  PROVE  LedOK(Seeded(l, r), e, K)
<1>1. r.pos \in Int
  BY DEF Reconciliation
<1>2. LedOK(rest_position(l, r.pos), e, K)
  BY <1>1, PositionOK
<1>3. LedOK(clear_positions(l), e, K) /\ LedOK(clear_positions(rest_position(l, r.pos)), e, K)
  BY <1>1, <1>2, PositionOK
<1> QED
  BY <1>2, <1>3 DEF Seeded
-----------------------------------------------------------------------------
(* The reconciliations.                                                    *)

LEMMA NoRecOK == RecOK(NoRec)
<1>1. [o \in All |-> [status |-> "NONE", done |-> 0]] \in [All -> [status : ExStatus, done : Nat]]
  BY DEF ExStatus
<1>2. [o \in Own |-> "ABSENT"] \in [Own -> Status \cup {"same"}]
  BY DEF Status
<1>3. NoRec \in Reconciliation
  BY <1>1, <1>2 DEF NoRec, Reconciliation, ExStatus, Status
<1> QED
  BY <1>3 DEF RecOK, NoRec

\* reconcile() begins.
LEMMA BegunOK ==
  ASSUME NEW c \in {"connect", "trigger", "disconnect", "reconnected", "post", "resolve",
                    "flat", "flatten"},
         NEW known \in BOOLEAN, led \in Ledger
  PROVE  RecOK(Begun(c, known)) /\ Begun(c, known).pc = "positions"
<1> DEFINE r == Begun(c, known)
           b == ~led.init
<1>1. b \in BOOLEAN
  OBVIOUS
<1> HIDE DEF b
<1>2. NoRec \in Reconciliation /\ NoRec.bad = FALSE
  BY NoRecOK DEF RecOK, NoRec
<1>3. r = [NoRec EXCEPT !.pc = "positions", !.caller = c, !.boot = b, !.known = known]
  BY DEF Begun, b
<1>4. r \in Reconciliation /\ r.pc = "positions" /\ r.bad = NoRec.bad
  BY <1>1, <1>2, <1>3 DEF Reconciliation
<1> HIDE DEF r
<1>5. RecOK(r) /\ r.pc = "positions"
  BY <1>2, <1>4 DEF RecOK
<1> QED
  BY <1>5 DEF r

\* Only the view of a reconcile() changes.
LEMMA ViewOK ==
  ASSUME NEW r, RecOK(r), NEW v \in {"calm", "moved", "event"}
  PROVE  RecOK([r EXCEPT !.view = v])
<1> DEFINE q == [r EXCEPT !.view = v]
<1>1. /\ q \in Reconciliation /\ q.pc = r.pc /\ q.todo = r.todo /\ q.queried = r.queried
      /\ q.got = r.got /\ q.bad = r.bad
  BY DEF RecOK, Reconciliation
<1> HIDE DEF q
<1>2. RecOK(q)
  BY <1>1 DEF RecOK
<1> QED
  BY <1>2 DEF q

\* Only what the list holds for an order changes.
LEMMA HeldOK ==
  ASSUME NEW r, RecOK(r), NEW o \in Own, NEW h \in Status \cup {"same"}
  PROVE  RecOK([r EXCEPT !.held[o] = h])
<1> DEFINE q == [r EXCEPT !.held[o] = h]
<1>1. /\ q \in Reconciliation /\ q.pc = r.pc /\ q.todo = r.todo /\ q.queried = r.queried
      /\ q.got = r.got /\ q.bad = r.bad
  BY DEF RecOK, Reconciliation
<1> HIDE DEF q
<1>2. RecOK(q)
  BY <1>1 DEF RecOK
<1> QED
  BY <1>2 DEF q

LEMMA DisturbOK == ASSUME RecsOK(rec), NEW s PROVE RecsOK(Disturb(s))
<1> DEFINE rs == Disturb(s)
<1>1. \A t \in Slots : RecOK(rec[t])
  BY DEF RecsOK
<1>2. \A t \in Slots : RecOK([rec[t] EXCEPT !.view = "moved"])
  BY <1>1, ViewOK
<1>3. \A t \in Slots : RecOK(rs[t])
  BY <1>1, <1>2 DEF Disturb
<1>4. rs = [t \in Slots |-> rs[t]]
  BY DEF Disturb
<1> HIDE DEF rs
<1>5. RecsOK(rs)
  BY <1>3, <1>4 DEF RecsOK, RecOK
<1> QED
  BY <1>5 DEF rs

LEMMA ObservedOK == ASSUME NEW rs, RecsOK(rs) PROVE RecsOK(Observed(rs))
<1> DEFINE q == Observed(rs)
<1>1. \A t \in Slots : RecOK(rs[t])
  BY DEF RecsOK
<1>2. \A t \in Slots : RecOK([rs[t] EXCEPT !.view = "event"])
  BY <1>1, ViewOK
<1>3. \A t \in Slots : RecOK(q[t])
  BY <1>1, <1>2 DEF Observed
<1>4. q = [t \in Slots |-> q[t]]
  BY DEF Observed
<1> HIDE DEF q
<1>5. RecsOK(q)
  BY <1>3, <1>4 DEF RecsOK, RecOK
<1> QED
  BY <1>5 DEF q

LEMMA ReplacedOK ==
  ASSUME NEW rs, RecsOK(rs), NEW o \in Own, led \in Ledger PROVE RecsOK(Replaced(rs, o))
<1> DEFINE q == Replaced(rs, o)
           h == led.orders[o]
<1>0. h \in Status \cup {"same"}
  BY LedgerAssumption DEF Ledger, Own, All
<1> HIDE DEF h
<1>1. \A t \in Slots : RecOK(rs[t])
  BY DEF RecsOK
<1>2. \A t \in Slots : RecOK([rs[t] EXCEPT !.held[o] = h])
  BY <1>0, <1>1, HeldOK
<1>3. \A t \in Slots : RecOK(q[t])
  BY <1>1, <1>2 DEF Replaced, h
<1>4. q = [t \in Slots |-> q[t]]
  BY DEF Replaced
<1> HIDE DEF q
<1>5. RecsOK(q)
  BY <1>3, <1>4 DEF RecsOK, RecOK
<1> QED
  BY <1>5 DEF q

\* One slot is set.
LEMMA SlotOK ==
  ASSUME NEW rs, RecsOK(rs), NEW s \in Slots, NEW r, RecOK(r)
  PROVE  RecsOK([rs EXCEPT ![s] = r])
  BY DEF RecsOK, RecOK
-----------------------------------------------------------------------------
(* What a step of the worker leaves.                                       *)

\* The worker's own part of the invariant, after a step that sends nothing new.
Stepped ==
  /\ LedOK(led', ex, Known)
  /\ RecsOK(rec')
  /\ MutOK(mut', ex)
  /\ mut'.pc = "send" => mut' = mut
  /\ verdict' \in Verdicts /\ state' \in States /\ link' \in Links

LEMMA SteppedInv ==
  ASSUME Inv, Stepped, ex' = ex, feed' \in Seq(Truthful(ex)), auth' \in {"ok", "doubt", "lost"},
         recovered' \subseteq Trades, faults' \in Nat
  PROVE  Inv'
<1>1. Known' \subseteq Known
  BY DEF Known, Stepped
<1>2. LedOK(led', ex', Known')
  BY <1>1 DEF Stepped, LedOK
<1>3. ExOK(ex') /\ MutOK(mut', ex') /\ feed' \in Seq(Truthful(ex')) /\ RecsOK(rec')
  BY DEF Stepped, Inv
<1>4. AdapterOK'
  BY DEF Stepped, AdapterOK
<1> QED
  BY <1>2, <1>3, <1>4 DEF Inv

LEMMA KnownOwn == Known \in SUBSET Own
  BY DEF Known

LEMMA ReturnedOK ==
  ASSUME state \in States, NEW c, NEW known, NEW insync, NEW a
  PROVE  Returned(c, known, insync, a) \in States
  BY DEF Returned, States

\* An idle mutation, and one that gives emergency_flatten the lock back.
LEMMA DoneOK ==
  ASSUME MutOK(mut, ex), NEW ok \in BOOLEAN
  PROVE  /\ MutOK(NoMut, ex) /\ NoMut.pc = "idle"
         /\ MutOK(Done(ok), ex) /\ Done(ok).pc \in {"idle", "flatten"}
<1>1. 1 \in Own
  BY LedgerAssumption DEF Own
<1>2. NoMut \in Mutation /\ NoMut.pc = "idle"
  BY <1>1 DEF NoMut, Mutation, ExStatus
<1> DEFINE q == [NoMut EXCEPT !.pc = "flatten", !.ok = ok]
<1>3. q \in Mutation /\ q.pc = "flatten"
  BY <1>2 DEF Mutation
<1> HIDE DEF q
<1>4. MutOK(q, ex) /\ MutOK(NoMut, ex)
  BY <1>2, <1>3 DEF MutOK
<1>5. Done(ok) = IF mut.flat THEN q ELSE NoMut
  BY DEF Done, q
<1> QED
  BY <1>2, <1>3, <1>4, <1>5

LEMMA ReleaseOK ==
  ASSUME MutOK(mut, ex), link \in Links, NEW s, Release(s)
  PROVE  /\ MutOK(mut', ex)
         /\ mut'.pc = "send" => mut' = mut
         /\ link' \in Links
<1>1. link' \in Links
  BY DEF Release, Links
<1>2. (state' = "READY") \in BOOLEAN
  OBVIOUS
<1>3. mut' \in {mut, NoMut, Done(state' = "READY")}
  BY DEF Release
<1>4. /\ MutOK(NoMut, ex) /\ NoMut.pc = "idle"
      /\ MutOK(Done(state' = "READY"), ex) /\ Done(state' = "READY").pc \in {"idle", "flatten"}
  BY <1>2, DoneOK
<1> QED
  BY <1>1, <1>3, <1>4

\* reconcile() returns.
LEMMA ConcludeOK ==
  ASSUME Inv, NEW s \in Slots, NEW l, LedOK(l, ex, Known), NEW r \in Reconciliation,
         NEW rs, RecsOK(rs), Conclude(s, l, r, rs)
  PROVE  Stepped
<1> DEFINE q == Seeded(l, r)
<1>1. LedOK(q, ex, Known)
  BY SeededOK
<1>2. led' = IF ~Unexplained(q, r) THEN Committed(q, r) ELSE q
  BY DEF Conclude
<1> HIDE DEF q
<1>3. LedOK(led', ex, Known)
  BY <1>1, <1>2, CommittedOK, KnownOwn
<1>4. RecsOK([rs EXCEPT ![s] = NoRec])
  BY NoRecOK, SlotOK
<1>5. rec' = [rs EXCEPT ![s] = NoRec] /\ verdict' \in Verdicts
  BY DEF Conclude, Verdicts
<1>6. state' \in States
  BY ReturnedOK DEF Conclude, Inv, AdapterOK
<1>7. MutOK(mut, ex) /\ link \in Links /\ Release(s)
  BY DEF Conclude, Inv, AdapterOK
<1>8. MutOK(mut', ex) /\ (mut'.pc = "send" => mut' = mut) /\ link' \in Links
  BY <1>7, ReleaseOK
<1> QED
  BY <1>3, <1>4, <1>5, <1>6, <1>8 DEF Stepped

\* Where the loop goes next.
NextOrder(l, r, k) == Min({o \in k..N : Fills(l, r, o) \/ Query(l, r, o)} \cup {N + 1})
Compared(l, r, k) ==
  [r EXCEPT !.todo = NextOrder(l, r, k),
            !.bad = @ \/ \E o \in k..N : o <= NextOrder(l, r, k) /\ Differs(l, r, o)]
ToFills(r, q, o) ==
  [q EXCEPT !.pc = "fills", !.got = r.open[o], !.queried = FALSE, !.mine = "ABSENT"]
ToQuery(l, r, q, o) ==
  [q EXCEPT !.pc = "query", !.mine = Local(l, r, o), !.got = NoRec.got, !.queried = FALSE]

LEMMA NextOrderIs ==
  ASSUME NEW l, NEW r, NEW k \in 1..(N + 1)
  PROVE  LET n == NextOrder(l, r, k) IN
         /\ n \in k..(N + 1)
         /\ n <= N => Fills(l, r, n) \/ Query(l, r, n)
         /\ \A o \in k..N : o < n => ~Fills(l, r, o) /\ ~Query(l, r, o)
<1> DEFINE S == {o \in k..N : Fills(l, r, o) \/ Query(l, r, o)} \cup {N + 1}
<1>1. S \in SUBSET Nat /\ S # {}
  BY LedgerAssumption
<1>2. Min(S) \in S /\ \A y \in S : Min(S) <= y
  BY <1>1, MinIsLeast
<1>3. NextOrder(l, r, k) = Min(S)
  BY DEF NextOrder
<1> HIDE DEF NextOrder
<1> QED
  BY <1>2, <1>3, LedgerAssumption
LEMMA LocalIs ==
  ASSUME NEW l \in Ledger, NEW r \in Reconciliation, NEW o \in Own
  PROVE  Local(l, r, o) \in Status
  BY LedgerAssumption DEF Local, Ledger, Reconciliation, Own, All

\* The records the loop makes.
LEMMA ComparedIs ==
  ASSUME NEW l \in Ledger, NEW r \in Reconciliation, NEW k \in 1..(N + 1)
  PROVE  LET q == Compared(l, r, k) n == NextOrder(l, r, k) IN
         /\ q \in Reconciliation /\ q.todo = n
         /\ q.bad <=> r.bad \/ \E o \in k..N : o <= n /\ Differs(l, r, o)
         /\ q.pos = r.pos /\ q.open = r.open /\ q.held = r.held /\ q.lost = r.lost
         /\ q.moved = r.moved /\ q.reduced = r.reduced /\ q.boot = r.boot
         /\ q.curable = r.curable /\ q.view = r.view
         /\ q.caller = r.caller /\ q.known = r.known
<1> DEFINE n == NextOrder(l, r, k)
           b == r.bad \/ \E o \in k..N : o <= n /\ Differs(l, r, o)
<1>1. n \in Nat
  BY NextOrderIs, LedgerAssumption
<1>2. b \in BOOLEAN
  BY DEF Reconciliation
<1>3. Compared(l, r, k) = [r EXCEPT !.todo = n, !.bad = b]
  BY DEF Compared
<1> HIDE DEF n, b
<1> DEFINE q == [r EXCEPT !.todo = n, !.bad = b]
<1>4. /\ q \in Reconciliation /\ q.todo = n /\ q.bad = b
      /\ q.pos = r.pos /\ q.open = r.open /\ q.held = r.held /\ q.lost = r.lost
      /\ q.moved = r.moved /\ q.reduced = r.reduced /\ q.boot = r.boot
      /\ q.curable = r.curable /\ q.view = r.view
      /\ q.caller = r.caller /\ q.known = r.known
  BY <1>1, <1>2 DEF Reconciliation
<1> QED
  BY <1>3, <1>4 DEF n, b

LEMMA ToFillsIs ==
  ASSUME NEW r \in Reconciliation, NEW q \in Reconciliation, NEW o \in Own
  PROVE  LET f == ToFills(r, q, o) IN
         /\ f \in Reconciliation /\ f.pc = "fills" /\ f.got = r.open[o] /\ ~f.queried
         /\ f.todo = q.todo /\ f.bad = q.bad
         /\ f.pos = q.pos /\ f.open = q.open /\ f.held = q.held /\ f.lost = q.lost
         /\ f.moved = q.moved /\ f.reduced = q.reduced /\ f.boot = q.boot
         /\ f.curable = q.curable /\ f.view = q.view
<1> DEFINE g == r.open[o]
           f == [q EXCEPT !.pc = "fills", !.got = g, !.queried = FALSE, !.mine = "ABSENT"]
<1>1. g \in [status : ExStatus, done : Nat]
  BY LedgerAssumption DEF Reconciliation, Own, All
<1>2. ToFills(r, q, o) = f
  BY DEF ToFills
<1> HIDE DEF g
<1>3. /\ f \in Reconciliation /\ f.pc = "fills" /\ f.got = g /\ f.queried = FALSE
      /\ f.todo = q.todo /\ f.bad = q.bad
      /\ f.pos = q.pos /\ f.open = q.open /\ f.held = q.held /\ f.lost = q.lost
      /\ f.moved = q.moved /\ f.reduced = q.reduced /\ f.boot = q.boot
      /\ f.curable = q.curable /\ f.view = q.view
  BY <1>1 DEF Reconciliation, Status
<1> QED
  BY <1>2, <1>3 DEF g

LEMMA ToQueryIs ==
  ASSUME NEW l \in Ledger, NEW r \in Reconciliation, NEW q \in Reconciliation, NEW o \in Own
  PROVE  LET f == ToQuery(l, r, q, o) IN
         /\ f \in Reconciliation /\ f.pc = "query" /\ f.mine = Local(l, r, o) /\ ~f.queried
         /\ f.todo = q.todo /\ f.bad = q.bad
         /\ f.pos = q.pos /\ f.open = q.open /\ f.held = q.held /\ f.lost = q.lost
         /\ f.moved = q.moved /\ f.reduced = q.reduced /\ f.boot = q.boot
         /\ f.curable = q.curable /\ f.view = q.view
<1> DEFINE g == NoRec.got
           h == Local(l, r, o)
           f == [q EXCEPT !.pc = "query", !.mine = h, !.got = g, !.queried = FALSE]
<1>1. g \in [status : ExStatus, done : Nat] /\ h \in Status
  BY LocalIs DEF NoRec, ExStatus
<1>2. ToQuery(l, r, q, o) = f
  BY DEF ToQuery
<1> HIDE DEF g, h
<1>3. /\ f \in Reconciliation /\ f.pc = "query" /\ f.mine = h /\ f.queried = FALSE
      /\ f.todo = q.todo /\ f.bad = q.bad
      /\ f.pos = q.pos /\ f.open = q.open /\ f.held = q.held /\ f.lost = q.lost
      /\ f.moved = q.moved /\ f.reduced = q.reduced /\ f.boot = q.boot
      /\ f.curable = q.curable /\ f.view = q.view
  BY <1>1 DEF Reconciliation
<1> QED
  BY <1>2, <1>3 DEF h

\* GoOn in those terms.
LEMMA GoOnIs ==
  ASSUME NEW s \in Slots, NEW l, NEW r, NEW rs, NEW k, GoOn(s, l, r, rs, k)
  PROVE  LET n == NextOrder(l, r, k) q == Compared(l, r, k) IN
         IF n > N THEN Conclude(s, l, q, rs)
         ELSE /\ led' = l
              /\ rec' = [rs EXCEPT ![s] = IF Fills(l, r, n) THEN ToFills(r, q, n)
                                          ELSE ToQuery(l, r, q, n)]
              /\ UNCHANGED <<verdict, state, mut, link>>
  BY DEF GoOn, NextOrder, Compared, ToFills, ToQuery

\* The loop goes on or ends.
LEMMA GoOnOK ==
  ASSUME Inv, NEW s \in Slots, NEW l, LedOK(l, ex, Known), NEW r \in Reconciliation,
         NEW rs, RecsOK(rs), NEW k \in 1..(N + 1), GoOn(s, l, r, rs, k)
  PROVE  Stepped
<1> DEFINE n == NextOrder(l, r, k)
           q == Compared(l, r, k)
           f == IF Fills(l, r, n) THEN ToFills(r, q, n) ELSE ToQuery(l, r, q, n)
<1>1. l \in Ledger
  BY DEF LedOK
<1>2. q \in Reconciliation /\ q.todo = n
  BY <1>1, ComparedIs
<1>3. n \in k..(N + 1)
  BY NextOrderIs
<1>4. IF n > N THEN Conclude(s, l, q, rs)
      ELSE /\ led' = l
           /\ rec' = [rs EXCEPT ![s] = f]
           /\ UNCHANGED <<verdict, state, mut, link>>
  BY GoOnIs
<1> HIDE DEF n, q
<1>5. CASE n > N
  BY <1>2, <1>4, <1>5, ConcludeOK
<1>6. CASE ~(n > N)
  <2>1. n \in Own
    BY <1>3, <1>6, LedgerAssumption DEF Own
  <2>2. RecOK(ToFills(r, q, n))
    BY <1>2, <2>1, ToFillsIs DEF RecOK
  <2>3. RecOK(ToQuery(l, r, q, n))
    BY <1>1, <1>2, <2>1, ToQueryIs DEF RecOK
  <2>4. RecOK(f)
    BY <2>2, <2>3
  <2> HIDE DEF f
  <2>5. RecsOK([rs EXCEPT ![s] = f])
    BY <2>4, SlotOK
  <2>6. /\ led' = l /\ rec' = [rs EXCEPT ![s] = f]
        /\ verdict' = verdict /\ state' = state /\ mut' = mut /\ link' = link
    BY <1>4, <1>6
  <2>7. MutOK(mut', ex) /\ verdict' \in Verdicts /\ state' \in States /\ link' \in Links
    BY <2>6 DEF Inv, AdapterOK
  <2>8. LedOK(led', ex, Known) /\ RecsOK(rec')
    BY <2>5, <2>6
  <2> QED
    BY <2>6, <2>7, <2>8 DEF Stepped
<1> QED
  BY <1>5, <1>6
-----------------------------------------------------------------------------
(* The steps of a reconcile().                                             *)

\* The parts of the invariant most steps need.
LEMMA Parts ==
  ASSUME Inv
  PROVE  /\ led \in Ledger /\ LedOK(led, ex, Known) /\ RecsOK(rec) /\ ExOK(ex) /\ MutOK(mut, ex)
         /\ \A s \in Slots : RecOK(rec[s]) /\ rec[s] \in Reconciliation
         /\ verdict \in Verdicts /\ state \in States /\ link \in Links
         /\ auth \in {"ok", "doubt", "lost"} /\ recovered \subseteq Trades /\ faults \in Nat
         /\ feed \in Seq(Truthful(ex))
  BY DEF Inv, LedOK, RecsOK, RecOK, AdapterOK

LEMMA FaultOK == ASSUME faults \in Nat, Fault PROVE faults' \in Nat
  BY DEF Fault

LEMMA ReconcileFailsInv == ASSUME Inv, NEW s \in Slots, ReconcileFails(s) PROVE Inv'
<1>1. PICK authfail \in BOOLEAN :
        LET a == IF ~authfail THEN auth
                 ELSE IF rec[s].caller \in {"connect", "reconnected", "disconnect"} \/ auth = "lost"
                      THEN "lost" ELSE "doubt" IN
        /\ Running(rec[s]) /\ Fault
        /\ verdict' = "UNKNOWN"
        /\ auth' = a
        /\ state' = IF a = "lost" THEN "DEGRADED" ELSE Returned(rec[s].caller, rec[s].known, FALSE, a)
        /\ rec' = [rec EXCEPT ![s] = NoRec]
        /\ Release(s)
        /\ UNCHANGED <<ex, feed, led, recovered>>
  BY DEF ReconcileFails
<1>2. auth' \in {"ok", "doubt", "lost"} /\ faults' \in Nat
  BY <1>1, Parts, FaultOK
<1>3. state' \in States
  BY <1>1, Parts, ReturnedOK DEF States
<1>4. RecsOK(rec')
  BY <1>1, Parts, NoRecOK, SlotOK
<1>5. MutOK(mut', ex) /\ (mut'.pc = "send" => mut' = mut) /\ link' \in Links
  BY <1>1, Parts, ReleaseOK
<1>6. LedOK(led', ex, Known) /\ verdict' \in Verdicts
  BY <1>1, Parts DEF Verdicts
<1>7. Stepped
  BY <1>3, <1>4, <1>5, <1>6 DEF Stepped
<1> QED
  BY <1>1, <1>2, <1>7, Parts, SteppedInv

\* A step that changes no more than slots, verdict, state and link.
LEMMA SlotsInv ==
  ASSUME Inv, RecsOK(rec'), LedOK(led', ex, Known), mut' = mut, ex' = ex, feed' \in Seq(Truthful(ex)),
         verdict' \in Verdicts, state' \in States, link' \in Links, auth' \in {"ok", "doubt", "lost"},
         recovered' \subseteq Trades, faults' \in Nat
  PROVE  Inv'
<1>1. Stepped
  BY Parts DEF Stepped
<1> QED
  BY <1>1, SteppedInv

LEMMA ReadPositionsInv == ASSUME Inv, NEW s \in Slots, ReadPositions(s) PROVE Inv'
<1> DEFINE p == Position(ex)
           q == [rec[s] EXCEPT !.pc = "open", !.pos = p, !.view = "calm"]
<1>1. p \in Int
  BY PositionInt
<1> HIDE DEF p
<1>2. rec[s] \in Reconciliation /\ rec[s].pc = "positions" /\ ~rec[s].bad
  BY Parts DEF ReadPositions, RecOK
<1>3. q \in Reconciliation /\ q.pc = "open" /\ q.bad = rec[s].bad
  BY <1>1, <1>2 DEF Reconciliation
<1>4. rec' = [rec EXCEPT ![s] = q]
  BY Parts DEF ReadPositions, RecsOK, p
<1> HIDE DEF q
<1>5. RecOK(q)
  BY <1>2, <1>3 DEF RecOK
<1>6. RecsOK(rec')
  BY <1>4, <1>5, Parts, SlotOK
<1>7. UNCHANGED <<ex, feed, link, led, verdict, state, auth, mut, recovered, faults>>
  BY DEF ReadPositions
<1> QED
  BY <1>6, <1>7, Parts, SlotsInv

\* What openOrders shows.
OpenView(e) == [o \in All |-> IF o \in OpenOrders(e) THEN e[o] ELSE [status |-> "NONE", done |-> 0]]

LEMMA OpenViewIs ==
  ASSUME NEW e, ExOK(e) PROVE OpenView(e) \in [All -> [status : ExStatus, done : Nat]]
  BY DEF OpenView, ExOK, ExStatus

LEMMA ReadOpenOrdersInv == ASSUME Inv, NEW s \in Slots, ReadOpenOrders(s) PROVE Inv'
<1> DEFINE w == OpenView(ex)
           c == Curable(led, ex)
           q == [rec[s] EXCEPT !.pc = "trades", !.open = w, !.curable = c]
<1>1. w \in [All -> [status : ExStatus, done : Nat]] /\ c \in BOOLEAN
  BY Parts, OpenViewIs DEF Curable
<1>2. rec[s] \in Reconciliation /\ rec[s].pc = "open" /\ ~rec[s].bad
  BY Parts DEF ReadOpenOrders, RecOK
<1>3. LedOK(led', ex, Known)
  BY Parts, SnapshotOK DEF ReadOpenOrders
<1>4. UNCHANGED <<ex, feed, auth, recovered, faults>>
  BY DEF ReadOpenOrders
<1>5. CASE rec[s].boot /\ ~HasLocalState /\ (rec[s].pos # 0 \/ OpenOrders(ex) # {})
  <2>1. /\ verdict' = "UNKNOWN"
        /\ state' = Returned(rec[s].caller, rec[s].known, FALSE, auth)
        /\ rec' = [rec EXCEPT ![s] = NoRec]
        /\ Release(s)
    BY <1>5 DEF ReadOpenOrders
  <2>2. state' \in States /\ verdict' \in Verdicts
    BY <2>1, Parts, ReturnedOK DEF Verdicts
  <2>3. RecsOK(rec')
    BY <2>1, Parts, NoRecOK, SlotOK
  <2>4. MutOK(mut', ex) /\ (mut'.pc = "send" => mut' = mut) /\ link' \in Links
    BY <2>1, Parts, ReleaseOK
  <2>5. Stepped
    BY <1>3, <2>2, <2>3, <2>4 DEF Stepped
  <2> QED
    BY <1>4, <2>5, Parts, SteppedInv
<1>6. CASE ~(rec[s].boot /\ ~HasLocalState /\ (rec[s].pos # 0 \/ OpenOrders(ex) # {}))
  <2>1. rec' = [rec EXCEPT ![s] = q] /\ UNCHANGED <<verdict, state, mut, link>>
    BY <1>6, Parts DEF ReadOpenOrders, OpenView, RecsOK
  <2> HIDE DEF w, c
  <2>2. q \in Reconciliation /\ q.pc = "trades" /\ q.bad = rec[s].bad
    BY <1>1, <1>2 DEF Reconciliation
  <2> HIDE DEF q
  <2>3. RecOK(q)
    BY <1>2, <2>2 DEF RecOK
  <2>4. RecsOK(rec')
    BY <2>1, <2>3, Parts, SlotOK
  <2> QED
    BY <1>3, <1>4, <2>1, <2>4, Parts, SlotsInv
<1> QED
  BY <1>5, <1>6

\* A step of the loop.
LEMMA LoopInv ==
  ASSUME Inv, NEW s \in Slots, NEW l, LedOK(l, ex, Known), NEW r \in Reconciliation,
         NEW rs, RecsOK(rs), NEW k \in 1..(N + 1), GoOn(s, l, r, rs, k),
         UNCHANGED <<ex, feed, auth>>, recovered' \subseteq Trades, faults' \in Nat
  PROVE  Inv'
<1>1. Stepped
  BY GoOnOK
<1> QED
  BY <1>1, Parts, SteppedInv
\* userTrades: the reconcile() and the ledger the loop starts with.
Identified(l, skipped) == [l EXCEPT !.ids = @ \cup (Unidentified(l) \ skipped)]
Mine(l, named) == {t \in Executions(ex) : t[1] \in Attributable(l, named)}
Listed(r, l, named, skipped) ==
  [r EXCEPT !.lost = Executions(ex) \ Mine(l, named),
            !.view = IF skipped = {} THEN @ ELSE Troubled(r),
            !.held = [o \in Own |-> IF o \in Tracked(l) THEN "same" ELSE "ABSENT"]]

LEMMA ListedIs ==
  ASSUME NEW r \in Reconciliation, NEW l, NEW named, NEW skipped
  PROVE  LET q == Listed(r, l, named, skipped) IN
         /\ q \in Reconciliation
         /\ q.lost = Executions(ex) \ Mine(l, named)
         /\ q.view = (IF skipped = {} THEN r.view ELSE Troubled(r))
         /\ \A o \in Own : q.held[o] = IF o \in Tracked(l) THEN "same" ELSE "ABSENT"
         /\ q.pos = r.pos /\ q.open = r.open /\ q.bad = r.bad /\ q.moved = r.moved
         /\ q.reduced = r.reduced /\ q.boot = r.boot /\ q.curable = r.curable
<1> DEFINE x == Executions(ex) \ Mine(l, named)
           v == IF skipped = {} THEN r.view ELSE Troubled(r)
           h == [o \in Own |-> IF o \in Tracked(l) THEN "same" ELSE "ABSENT"]
           q == [r EXCEPT !.lost = x, !.view = v, !.held = h]
<1>1. x \in SUBSET Trades /\ h \in [Own -> Status \cup {"same"}]
  BY DEF Executions, Status
<1>2. v \in {"calm", "moved", "event"}
  BY DEF Troubled, Reconciliation
<1>3. Listed(r, l, named, skipped) = q
  BY DEF Listed
<1>5. \A o \in Own : h[o] = IF o \in Tracked(l) THEN "same" ELSE "ABSENT"
  OBVIOUS
<1> HIDE DEF x, v, h
<1>4. /\ q \in Reconciliation /\ q.lost = x /\ q.view = v /\ q.held = h
      /\ q.pos = r.pos /\ q.open = r.open /\ q.bad = r.bad /\ q.moved = r.moved
      /\ q.reduced = r.reduced /\ q.boot = r.boot /\ q.curable = r.curable
  BY <1>1, <1>2 DEF Reconciliation
<1> QED
  BY <1>3, <1>4, <1>5 DEF x, v

LEMMA RecoverTradesInv == ASSUME Inv, NEW s \in Slots, RecoverTrades(s) PROVE Inv'
<1>1. PICK named \in BOOLEAN, skipped \in SUBSET Unidentified(led) :
        LET l == Identified(led, skipped) IN
        /\ IF skipped = {} THEN UNCHANGED faults ELSE Fault
        /\ GoOn(s, append_fills(l, Mine(l, named)), Listed(rec[s], l, named, skipped), Disturb(s), 1)
        /\ UNCHANGED <<ex, feed, auth, recovered>>
  BY DEF RecoverTrades, Identified, Mine, Listed
<1> DEFINE l == Identified(led, skipped)
           a == append_fills(l, Mine(l, named))
           q == Listed(rec[s], l, named, skipped)
<1>2. Unidentified(led) \ skipped \in SUBSET Own
  BY DEF Unidentified, Tracked
<1>3. LedOK(l, ex, Known)
  BY <1>2, Parts, IdsOK DEF Identified
<1>4. \A t \in Mine(l, named) : t[1] \in Own /\ t[2] <= ex[t[1]].done
  BY DEF Mine, Attributable, Tracked, Executions
<1> HIDE DEF l
<1>5. LedOK(a, ex, Known)
  BY <1>3, <1>4, AppendOK
<1>6. q \in Reconciliation
  BY Parts, ListedIs
<1>7. GoOn(s, a, q, Disturb(s), 1) /\ UNCHANGED <<ex, feed, auth, recovered>>
  BY <1>1 DEF l
<1>8. faults' \in Nat
  BY <1>1, Parts, FaultOK
<1> HIDE DEF a, q
<1>9. RecsOK(Disturb(s))
  BY Parts, DisturbOK
<1>10. 1 \in 1..(N + 1)
  BY LedgerAssumption
<1> QED
  BY <1>5, <1>6, <1>7, <1>8, <1>9, <1>10, Parts, LoopInv

\* A difference is noted.
LEMMA BadIs ==
  ASSUME NEW r \in Reconciliation
  PROVE  LET q == [r EXCEPT !.bad = TRUE] IN
         /\ q \in Reconciliation /\ q.bad /\ q.view = r.view /\ q.curable = r.curable
         /\ q.pos = r.pos /\ q.open = r.open /\ q.held = r.held /\ q.lost = r.lost
         /\ q.moved = r.moved /\ q.reduced = r.reduced /\ q.boot = r.boot
<1> DEFINE q == [r EXCEPT !.bad = TRUE]
<1>1. /\ q \in Reconciliation /\ q.bad = TRUE /\ q.view = r.view /\ q.curable = r.curable
      /\ q.pos = r.pos /\ q.open = r.open /\ q.held = r.held /\ q.lost = r.lost
      /\ q.moved = r.moved /\ q.reduced = r.reduced /\ q.boot = r.boot
  BY DEF Reconciliation
<1> QED
  BY <1>1

\* The object of the list is the ledger's again.
LEMMA SameIs ==
  ASSUME NEW r \in Reconciliation, NEW o \in Own
  PROVE  LET q == [r EXCEPT !.held[o] = "same"] IN
         /\ q \in Reconciliation /\ q.bad = r.bad /\ q.view = r.view /\ q.curable = r.curable
         /\ q.pos = r.pos /\ q.open = r.open /\ q.lost = r.lost
         /\ q.held = [r.held EXCEPT ![o] = "same"]
         /\ q.moved = r.moved /\ q.reduced = r.reduced /\ q.boot = r.boot
<1> DEFINE h == [r.held EXCEPT ![o] = "same"]
           q == [r EXCEPT !.held = h]
<1>1. h \in [Own -> Status \cup {"same"}]
  BY DEF Reconciliation
<1> HIDE DEF h
<1>2. /\ q \in Reconciliation /\ q.bad = r.bad /\ q.view = r.view /\ q.curable = r.curable
      /\ q.pos = r.pos /\ q.open = r.open /\ q.lost = r.lost /\ q.held = h
      /\ q.moved = r.moved /\ q.reduced = r.reduced /\ q.boot = r.boot
  BY <1>1 DEF Reconciliation
<1> QED
  BY <1>2 DEF h

\* The order was recovered from its trades.
Took(r, o) == [r EXCEPT !.moved = TRUE, !.reduced = @ \/ o \in ReduceOnly, !.held[o] = "same"]

LEMMA TookIs ==
  ASSUME NEW r \in Reconciliation, NEW o \in Own
  PROVE  LET q == Took(r, o) IN
         /\ q \in Reconciliation /\ q.bad = r.bad /\ q.view = r.view /\ q.curable = r.curable
         /\ q.pos = r.pos /\ q.open = r.open /\ q.lost = r.lost
         /\ q.held = [r.held EXCEPT ![o] = "same"]
         /\ q.moved /\ q.boot = r.boot
<1> DEFINE h == [r.held EXCEPT ![o] = "same"]
           b == r.reduced \/ o \in ReduceOnly
           q == [r EXCEPT !.moved = TRUE, !.reduced = b, !.held = h]
<1>1. h \in [Own -> Status \cup {"same"}] /\ b \in BOOLEAN
  BY DEF Reconciliation
<1>2. Took(r, o) = q
  BY DEF Took
<1> HIDE DEF h, b
<1>3. /\ q \in Reconciliation /\ q.bad = r.bad /\ q.view = r.view /\ q.curable = r.curable
      /\ q.pos = r.pos /\ q.open = r.open /\ q.lost = r.lost /\ q.held = h
      /\ q.moved = TRUE /\ q.boot = r.boot
  BY <1>1 DEF Reconciliation
<1> QED
  BY <1>2, <1>3 DEF h

LEMMA WrittenBackOK ==
  ASSUME Inv, NEW s \in Slots, NEW o \in Own PROVE RecsOK(WrittenBack(s, o))
  BY Parts, DisturbOK, ReplacedOK DEF WrittenBack

LEMMA QueryOrderInv == ASSUME Inv, NEW s \in Slots, QueryOrder(s) PROVE Inv'
<1> DEFINE r == rec[s]
           o == r.todo
           bad == [r EXCEPT !.bad = TRUE]
<1>1. r \in Reconciliation /\ r.pc = "query" /\ o \in Own
  BY Parts DEF QueryOrder, RecOK
<1>2. UNCHANGED <<ex, feed, auth, faults, recovered>>
  BY DEF QueryOrder
<1>3. o + 1 \in 1..(N + 1) /\ o \in All
  BY <1>1, LedgerAssumption DEF Own, All
<1>4. bad \in Reconciliation
  BY <1>1, BadIs
<1>5. RecsOK(Disturb(s)) /\ RecsOK(WrittenBack(s, o))
  BY <1>1, Parts, DisturbOK, WrittenBackOK
<1>6. ex[o] \in [status : ExStatus, done : Nat]
  BY <1>3, Parts DEF ExOK
<1>7. CASE ex[o].status \in Executed
  <2> DEFINE g == ex[o]
             q == [r EXCEPT !.pc = "fills", !.got = g, !.queried = TRUE]
  <2>1. rec' = [rec EXCEPT ![s] = q] /\ UNCHANGED <<led, verdict, state, mut, link>>
    BY <1>7 DEF QueryOrder, Executed
  <2>2. g \in [status : ExStatus, done : Nat] /\ g.status \in Executed
    BY <1>6, <1>7
  <2> HIDE DEF g, r
  <2>3. q \in Reconciliation /\ q.pc = "fills" /\ q.todo = o /\ q.got = g
    BY <1>1, <2>2 DEF Reconciliation
  <2> HIDE DEF q
  <2>4. RecOK(q)
    BY <1>1, <2>2, <2>3 DEF RecOK
  <2>5. RecsOK(rec')
    BY <2>1, <2>4, Parts, SlotOK
  <2> QED
    BY <1>2, <2>1, <2>5, Parts, SlotsInv
<1>8. CASE ex[o].status = "CANCELED" /\ r.mine = "NEW"
  <2> DEFINE l == upsert_order(led, o, "CANCELED")
             q == [r EXCEPT !.held[o] = "same"]
  <2>1. GoOn(s, l, q, WrittenBack(s, o), o + 1)
    BY <1>8 DEF QueryOrder, Executed
  <2>2. LedOK(l, ex, Known)
    BY <1>1, Parts, KnownOwn, UpsertOK DEF Status
  <2>3. q \in Reconciliation
    BY <1>1, SameIs
  <2> HIDE DEF l, q, r
  <2> QED
    BY <1>2, <1>3, <1>5, <2>1, <2>2, <2>3, Parts, LoopInv
<1>9. CASE GoOn(s, led, bad, Disturb(s), o + 1)
  <2> HIDE DEF r, bad
  <2> QED
    BY <1>2, <1>3, <1>4, <1>5, <1>9, Parts, LoopInv
<1>10. CASE GoOn(s, led, r, Disturb(s), o + 1)
  <2> HIDE DEF r
  <2> QED
    BY <1>1, <1>2, <1>3, <1>5, <1>10, Parts, LoopInv
<1> QED
  BY <1>6, <1>7, <1>8, <1>9, <1>10 DEF QueryOrder, ExStatus, Executed

LEMMA RecoverFillsInv == ASSUME Inv, NEW s \in Slots, RecoverFills(s) PROVE Inv'
<1> DEFINE r == rec[s]
           o == r.todo
           bad == [r EXCEPT !.bad = TRUE]
           kept == append_fills(led, TradesNow(o))
           l == identify(upsert_order(kept, o, r.got.status), o)
<1>1. r \in Reconciliation /\ r.pc = "fills" /\ o \in Own /\ (r.queried => r.got.status \in Executed)
  BY Parts DEF RecoverFills, RecOK
<1>2. UNCHANGED <<ex, feed, auth, faults>> /\ recovered' = recovered \cup TradesNow(o)
  BY DEF RecoverFills
<1>3. o + 1 \in 1..(N + 1) /\ o \in All
  BY <1>1, LedgerAssumption DEF Own, All
<1>4. bad \in Reconciliation /\ Took(r, o) \in Reconciliation
  BY <1>1, BadIs, TookIs
<1>5. RecsOK(Disturb(s)) /\ RecsOK(WrittenBack(s, o))
  BY <1>1, Parts, DisturbOK, WrittenBackOK
<1>6. recovered' \subseteq Trades /\ faults' \in Nat
  BY <1>2, Parts DEF TradesNow, Executions
<1>7. LedOK(kept, ex, Known)
  <2>1. \A t \in TradesNow(o) : t[1] \in Own /\ t[2] <= ex[t[1]].done
    BY <1>1 DEF TradesNow, Executions
  <2> QED
    BY <2>1, Parts, AppendOK
<1>8. r.queried => LedOK(l, ex, Known)
  <2> HIDE DEF kept, r
  <2>1. r.queried => r.got.status \in Status \ {"ABSENT"}
    BY <1>1 DEF Executed, Status
  <2>2. r.queried => LedOK(upsert_order(kept, o, r.got.status), ex, Known)
    BY <1>1, <1>7, <2>1, KnownOwn, UpsertOK
  <2> QED
    BY <1>1, <2>2, IdentifyOK
<1>9. \/ GoOn(s, led, bad, Disturb(s), o + 1)
      \/ GoOn(s, kept, r, Disturb(s), o + 1)
      \/ r.queried /\ GoOn(s, l, Took(r, o), WrittenBack(s, o), o + 1)
  BY DEF RecoverFills, Took
<1> HIDE DEF r, bad, kept, l
<1>10. CASE GoOn(s, led, bad, Disturb(s), o + 1)
  BY <1>2, <1>3, <1>4, <1>5, <1>6, <1>10, Parts, LoopInv
<1>11. CASE GoOn(s, kept, r, Disturb(s), o + 1)
  BY <1>1, <1>2, <1>3, <1>5, <1>6, <1>7, <1>11, LoopInv
<1>12. CASE r.queried /\ GoOn(s, l, Took(r, o), WrittenBack(s, o), o + 1)
  BY <1>2, <1>3, <1>4, <1>5, <1>6, <1>8, <1>12, LoopInv
<1> QED
  BY <1>9, <1>10, <1>11, <1>12

LEMMA RequestFailsInv == ASSUME Inv, NEW s \in Slots, RequestFails(s) PROVE Inv'
<1> DEFINE r == rec[s]
           v == Troubled(r)
           q == [r EXCEPT !.bad = TRUE, !.view = v]
<1>1. r \in Reconciliation /\ r.todo \in Own
  BY Parts DEF RequestFails, RecOK
<1>2. v \in {"calm", "moved", "event"}
  BY <1>1 DEF Troubled, Reconciliation
<1>3. GoOn(s, led, q, Disturb(s), r.todo + 1) /\ Fault /\ UNCHANGED <<ex, feed, auth, recovered>>
  BY DEF RequestFails
<1> HIDE DEF r, v
<1>4. q \in Reconciliation
  BY <1>1, <1>2 DEF Reconciliation
<1>5. r.todo + 1 \in 1..(N + 1)
  BY <1>1, LedgerAssumption DEF Own
<1>6. faults' \in Nat /\ recovered' \subseteq Trades
  BY <1>3, Parts, FaultOK
<1>7. RecsOK(Disturb(s))
  BY Parts, DisturbOK
<1> HIDE DEF q
<1> QED
  BY <1>3, <1>4, <1>5, <1>6, <1>7, Parts, LoopInv
-----------------------------------------------------------------------------
(* The exchange.                                                           *)

\* One order of the exchange goes on.
Onward(e, o, x) == OrderOK(x, Qty[o]) /\ e[o].done <= x.done /\ x.status # "NONE"

Follows(e2, o, x) ==
  /\ ExOK(e2) /\ \A p \in All : ex[p].done <= e2[p].done
  /\ \A p \in All : e2[p] = IF p = o THEN x ELSE ex[p]
  /\ Truthful(ex) \subseteq Truthful(e2)

LEMMA OnwardIs ==
  ASSUME ExOK(ex), NEW o \in All, NEW x, Onward(ex, o, x)
  PROVE  Follows([ex EXCEPT ![o] = x], o, x)
<1> DEFINE e2 == [ex EXCEPT ![o] = x]
<1>1. \A p \in All : e2[p] = IF p = o THEN x ELSE ex[p]
  BY DEF ExOK
<1>2. \A p \in All : ex[p].done \in Nat /\ ex[p].done <= ex[p].done
  BY DEF ExOK
<1>3. \A p \in All : ex[p].done <= e2[p].done
  BY <1>1, <1>2 DEF Onward
<1>4. ExOK(e2)
  BY <1>1 DEF ExOK, Onward, OrderOK
<1>5. ASSUME NEW m \in Truthful(ex) PROVE m \in Truthful(e2)
  <2>1. CASE m \in AccountMessage
    BY <2>1 DEF Truthful
  <2>2. CASE m \in OrderMessage /\ m.status # "NONE" /\ m.trade <= ex[m.order].done
    <3>1. m.order \in All /\ m.trade \in Nat
      BY <2>2 DEF OrderMessage
    <3>2. e2[m.order].done \in Nat /\ ex[m.order].done \in Nat
      BY <1>2, <1>4, <3>1 DEF ExOK
    <3>3. m.trade <= e2[m.order].done
      BY <1>3, <2>2, <3>1, <3>2
    <3> QED
      BY <2>2, <3>3 DEF Truthful
  <2> QED
    BY <2>1, <2>2 DEF Truthful
<1> QED
  BY <1>1, <1>3, <1>4, <1>5 DEF Follows

LEMMA EmitOK ==
  ASSUME NEW e2, feed \in Seq(Truthful(ex)), Truthful(ex) \subseteq Truthful(e2),
         NEW msgs \in Seq(Truthful(e2)), Emit(msgs)
  PROVE  feed' \in Seq(Truthful(e2))
<1> DEFINE S == Truthful(ex)
           T == Truthful(e2)
<1>1. feed \in Seq(S) /\ S \subseteq T /\ msgs \in Seq(T)
  OBVIOUS
<1>2. feed' = IF link.up THEN feed \o msgs ELSE feed
  BY DEF Emit
<1> HIDE DEF S, T
<1>3. feed \in Seq(T)
  BY <1>1
<1>4. feed' \in Seq(T)
  BY <1>1, <1>2, <1>3
<1> QED
  BY <1>4 DEF T

\* The messages.
LEMMA OrderEventIs ==
  ASSUME NEW e, NEW o \in All, NEW s \in ExStatus \ {"NONE"}, NEW k \in Nat, k <= e[o].done
  PROVE  OrderEvent(o, s, k) \in Truthful(e)
  BY DEF OrderEvent, Truthful, OrderMessage

LEMMA AccountEventIs == ASSUME NEW e, NEW p \in Int PROVE AccountEvent(p) \in Truthful(e)
  BY DEF AccountEvent, Truthful, AccountMessage

\* A mutation in progress does not notice another order.
LEMMA MutKeeps ==
  ASSUME Inv, NEW o \in All, NEW x, Onward(ex, o, x), ex[o].status # "NONE" \/ o = Foreign
  PROVE  MutOK(mut, [ex EXCEPT ![o] = x])
<1>1. mut \in Mutation /\ mut.order \in Own /\ mut.order \in All /\ mut.order # Foreign
  BY Parts, LedgerAssumption DEF MutOK, Mutation, Own, All, Foreign
<1>2. mut.pc = "send" /\ mut.kind = "POST" => [ex EXCEPT ![o] = x][mut.order].status = "NONE"
  BY <1>1, Parts DEF MutOK, ExOK
<1> QED
  BY <1>1, <1>2, Parts DEF MutOK

LEMMA ExchangeInv ==
  ASSUME Inv, NEW o \in All, NEW x, Onward(ex, o, x), ex' = [ex EXCEPT ![o] = x],
         o \in Own => o \in Known,
         MutOK(mut', ex'), mut'.pc = "send" => mut' = mut,
         NEW msgs \in Seq(Truthful(ex')), Emit(msgs), rec' = Disturb("none"),
         UNCHANGED <<link, led, verdict, state, auth, recovered>>, faults' \in Nat
  PROVE  Inv'
<1>1. /\ ExOK(ex') /\ \A p \in All : ex[p].done <= ex'[p].done
      /\ \A p \in All : ex'[p] = IF p = o THEN x ELSE ex[p]
      /\ Truthful(ex) \subseteq Truthful(ex')
  <2>1. ExOK(ex)
    BY Parts
  <2>2. Follows([ex EXCEPT ![o] = x], o, x)
    BY <2>1, OnwardIs
  <2>3. Follows(ex', o, x)
    BY <2>2
  <2> QED
    BY <2>3 DEF Follows
<1>2. feed' \in Seq(Truthful(ex'))
  BY <1>1, Parts, EmitOK
<1>3. Known' \subseteq Known
  <2>1. Own \subseteq All
    BY LedgerAssumption DEF Own, All
  <2> QED
    BY <1>1, <2>1 DEF Known
<1>4. LedOK(led, ex', Known')
  BY <1>1, <1>3, Parts, ExchangeGoesOn
<1>5. RecsOK(rec')
  BY Parts, DisturbOK
<1>6. AdapterOK'
  BY DEF Inv, AdapterOK
<1> QED
  BY <1>1, <1>2, <1>4, <1>5, <1>6 DEF Inv

\* An order that is open at the exchange may be canceled there.
LEMMA CanceledIs ==
  ASSUME Inv, NEW o \in All, o \in OpenOrders(ex)
  PROVE  LET x == [ex[o] EXCEPT !.status = "CANCELED"] IN
         /\ Onward(ex, o, x) /\ ex[o].status # "NONE"
         /\ [ex EXCEPT ![o].status = "CANCELED"] = [ex EXCEPT ![o] = x]
         /\ o \in Own => o \in Known
         /\ <<OrderEvent(o, "CANCELED", 0)>> \in Seq(Truthful([ex EXCEPT ![o].status = "CANCELED"]))
<1> DEFINE x == [ex[o] EXCEPT !.status = "CANCELED"]
           e2 == [ex EXCEPT ![o].status = "CANCELED"]
<1>1. ex[o] \in [status : ExStatus, done : Nat] /\ ex[o].status \in Working
  BY Parts DEF ExOK, OpenOrders
<1>2. x \in [status : ExStatus, done : Nat] /\ x.status = "CANCELED" /\ x.done = ex[o].done
  BY <1>1 DEF ExStatus
<1>3. e2 = [ex EXCEPT ![o] = x]
  OBVIOUS
<1>4. ex[o].status # "NONE" /\ (o \in Own => o \in Known)
  BY <1>1 DEF Working, Known
<1>5. e2[o] = x
  BY <1>3, Parts DEF ExOK
<1> HIDE DEF x, e2
<1>6. Onward(ex, o, x)
  BY <1>1, <1>2 DEF Onward, OrderOK, Working
<1>7. OrderEvent(o, "CANCELED", 0) \in Truthful(e2)
  <2>1. "CANCELED" \in ExStatus \ {"NONE"} /\ 0 \in Nat /\ 0 <= e2[o].done
    BY <1>1, <1>2, <1>5 DEF ExStatus
  <2> QED
    BY <2>1, OrderEventIs
<1>8. <<OrderEvent(o, "CANCELED", 0)>> \in Seq(Truthful(e2))
  BY <1>7
<1> QED
  BY <1>3, <1>4, <1>6, <1>8 DEF x, e2

LEMMA ExCancelInv == ASSUME Inv, NEW o \in Own, ExCancel(o) PROVE Inv'
<1> DEFINE x == [ex[o] EXCEPT !.status = "CANCELED"]
           msgs == <<OrderEvent(o, "CANCELED", 0)>>
<1>1. o \in All /\ o \in OpenOrders(ex)
  BY LedgerAssumption DEF ExCancel, Own, All
<1>2. /\ Onward(ex, o, x) /\ ex[o].status # "NONE" /\ ex' = [ex EXCEPT ![o] = x]
      /\ o \in Known /\ msgs \in Seq(Truthful(ex'))
  BY <1>1, CanceledIs DEF ExCancel
<1>3. Emit(msgs) /\ rec' = Disturb("none")
      /\ UNCHANGED <<link, led, verdict, state, auth, mut, recovered, faults>>
  BY DEF ExCancel
<1> HIDE DEF x, msgs
<1>4. MutOK(mut', ex')
  BY <1>1, <1>2, <1>3, MutKeeps
<1>5. faults' \in Nat
  BY <1>3, Parts
<1> QED
  BY <1>1, <1>2, <1>3, <1>4, <1>5, ExchangeInv

LEMMA ExForeignInv == ASSUME Inv, ExForeign PROVE Inv'
<1> DEFINE x == [ex[Foreign] EXCEPT !.status = "NEW"]
           msgs == <<OrderEvent(Foreign, "NEW", 0)>>
<1>1. Foreign \in All /\ Foreign \notin Own
  BY LedgerAssumption DEF Foreign, Own, All
<1>2. ex[Foreign] \in [status : ExStatus, done : Nat] /\ ex[Foreign].done = 0 /\ Qty[Foreign] > 0
  BY <1>1, Parts, LedgerAssumption DEF ExForeign, ExOK, OrderOK
<1>3. x \in [status : ExStatus, done : Nat] /\ x.status = "NEW" /\ x.done = 0
  BY <1>2 DEF ExStatus
<1>4. ex' = [ex EXCEPT ![Foreign] = x]
  BY DEF ExForeign
<1>5. ex'[Foreign] = x
  BY <1>1, <1>4, Parts DEF ExOK
<1>6. Emit(msgs) /\ rec' = Disturb("none")
      /\ UNCHANGED <<link, led, verdict, state, auth, mut, recovered, faults>>
  BY DEF ExForeign
<1> HIDE DEF x
<1>7. Onward(ex, Foreign, x)
  BY <1>2, <1>3 DEF Onward, OrderOK
<1>8. msgs \in Seq(Truthful(ex'))
  <2>1. "NEW" \in ExStatus \ {"NONE"} /\ 0 \in Nat /\ 0 <= ex'[Foreign].done
    BY <1>3, <1>5 DEF ExStatus
  <2>2. OrderEvent(Foreign, "NEW", 0) \in Truthful(ex')
    BY <1>1, <2>1, OrderEventIs
  <2> QED
    BY <2>2
<1> HIDE DEF msgs
<1>9. MutOK(mut', ex')
  BY <1>1, <1>4, <1>6, <1>7, MutKeeps
<1>10. faults' \in Nat
  BY <1>6, Parts
<1> QED
  BY <1>1, <1>4, <1>6, <1>7, <1>8, <1>9, <1>10, ExchangeInv

\* The two messages of an execution.
LEMMA FillMessages ==
  ASSUME NEW e, NEW o \in All, NEW s \in ExStatus \ {"NONE"}, NEW k \in Nat, k <= e[o].done
  PROVE  <<AccountEvent(Position(e)), OrderEvent(o, s, k)>> \in Seq(Truthful(e))
<1>1. AccountEvent(Position(e)) \in Truthful(e)
  BY PositionInt, AccountEventIs
<1>2. OrderEvent(o, s, k) \in Truthful(e)
  BY OrderEventIs
<1> QED
  BY <1>1, <1>2

LEMMA ExFillInv == ASSUME Inv, NEW o \in All, ExFill(o) PROVE Inv'
<1> DEFINE done == ex[o].done + 1
           st == IF done = Qty[o] THEN "FILLED" ELSE "PARTIALLY_FILLED"
           x == [status |-> st, done |-> done]
           msgs == <<AccountEvent(Position(ex')), OrderEvent(o, st, done)>>
<1>1. ex[o].status \in Working /\ ex' = [ex EXCEPT ![o] = x]
  BY DEF ExFill, OpenOrders
<1>2. ex[o].done \in Nat /\ ex[o].done < Qty[o] /\ Qty[o] \in Nat
  BY <1>1, Parts, LedgerAssumption DEF ExOK, OrderOK
<1>3. Emit(msgs) /\ rec' = Disturb("none")
      /\ UNCHANGED <<link, led, verdict, state, auth, mut, recovered, faults>>
  BY DEF ExFill
<1>4. st \in ExStatus \ {"NONE"} /\ done \in Nat /\ done > 0 /\ done <= Qty[o]
      /\ x.status = st /\ x.done = done /\ ex[o].done <= done
      /\ (st = "FILLED" => done = Qty[o]) /\ (st \in Working => done < Qty[o]) /\ st # "NEW"
  BY <1>2 DEF ExStatus, Working
<1>5. ex'[o] = x
  BY <1>1, Parts DEF ExOK
<1>6. x \in [status : ExStatus, done : Nat]
  BY <1>4
<1> HIDE DEF st, done, x
<1>7. Onward(ex, o, x)
  BY <1>4, <1>6 DEF Onward, OrderOK
<1>8. done <= ex'[o].done
  BY <1>4, <1>5
<1>9. msgs \in Seq(Truthful(ex'))
  BY <1>4, <1>8, FillMessages
<1> HIDE DEF msgs
<1>10. ex[o].status # "NONE" /\ (o \in Own => o \in Known)
  BY <1>1 DEF Working, Known
<1>11. MutOK(mut', ex')
  BY <1>1, <1>3, <1>7, <1>10, MutKeeps
<1>12. faults' \in Nat
  BY <1>3, Parts
<1> QED
  BY <1>1, <1>3, <1>7, <1>9, <1>10, <1>11, <1>12, ExchangeInv
-----------------------------------------------------------------------------
(* The private stream.                                                     *)

Callers == {"connect", "trigger", "disconnect", "reconnected", "post", "resolve", "flat", "flatten"}

LEMMA StartOK ==
  ASSUME Inv, NEW rs, RecsOK(rs), NEW s \in Slots, NEW c \in Callers, NEW known \in BOOLEAN
  PROVE  RecsOK([rs EXCEPT ![s] = Begun(c, known)])
<1>1. RecOK(Begun(c, known))
  BY Parts, BegunOK DEF Callers
<1> QED
  BY <1>1, SlotOK

LEMMA StartTaskOK ==
  ASSUME Inv, NEW s \in Tasks, NEW c \in Callers PROVE s \in Slots /\ RecsOK(Start(s, c))
<1>1. s \in Slots /\ TRUE \in BOOLEAN
  BY DEF Slots
<1> QED
  BY <1>1, Parts, StartOK DEF Start

LEMMA ClearedOK == ASSUME Inv PROVE Cleared \in {"ok", "doubt", "lost"}
  BY Parts DEF Cleared

LEMMA StreamInv ==
  ASSUME Inv, NEW s \in Tasks, Connect(s) \/ trigger_reconciliation(s) \/ Drop(s) \/ Reconnect(s)
  PROVE  Inv'
<1> USE Parts, ClearedOK
<1>1. CASE Connect(s)
  <2>0. faults' \in Nat
    BY <1>1, FaultOK DEF Connect
  <2>1. link' \in Links
    <3>1. link \in Links
      OBVIOUS
    <3>2. [link EXCEPT !.retry = TRUE] \in Links
      BY <3>1 DEF Links
    <3>3. [up |-> TRUE, retry |-> FALSE, keepalive |-> TRUE] \in Links
      BY DEF Links
    <3> QED
      BY <1>1, <3>2, <3>3 DEF Connect
  <2>4. verdict' \in Verdicts /\ state' \in States
    BY <1>1 DEF Connect, Verdicts, States
  <2>2. RecsOK(rec')
    BY <1>1, StartTaskOK DEF Connect, Callers
  <2>3. UNCHANGED <<ex, feed, led, auth, mut, recovered>>
    BY <1>1 DEF Connect
  <2> QED
    BY <2>0, <2>1, <2>2, <2>3, <2>4, SlotsInv
<1>2. CASE trigger_reconciliation(s)
  <2>1. RecsOK(rec')
    BY <1>2, StartTaskOK DEF trigger_reconciliation, Callers
  <2>2. verdict' \in Verdicts /\ auth' \in {"ok", "doubt", "lost"}
        /\ UNCHANGED <<ex, feed, link, led, state, mut, recovered, faults>>
    BY <1>2 DEF trigger_reconciliation, Verdicts
  <2> QED
    BY <2>1, <2>2, SlotsInv
<1>3. CASE Drop(s)
  <2>1. link' \in Links /\ verdict' \in Verdicts /\ state' \in States /\ faults' \in Nat
        /\ auth' \in {"ok", "doubt", "lost"}
    BY <1>3, FaultOK DEF Drop, Links, Verdicts, States
  <2>2. RecsOK(rec')
    BY <1>3, StartTaskOK DEF Drop, Callers
  <2>3. feed' = <<>> /\ UNCHANGED <<ex, led, mut, recovered>>
    BY <1>3 DEF Drop
  <2>4. feed' \in Seq(Truthful(ex))
    BY <2>3
  <2> QED
    BY <2>1, <2>2, <2>3, <2>4, SlotsInv
<1>4. CASE Reconnect(s)
  <2>1. link' \in Links /\ verdict' \in Verdicts /\ state' \in States
        /\ auth' \in {"ok", "doubt", "lost"}
    BY <1>4 DEF Reconnect, Links, Verdicts, States
  <2>2. RecsOK(rec')
    BY <1>4, StartTaskOK DEF Reconnect, Callers
  <2>3. UNCHANGED <<ex, feed, led, mut, recovered, faults>>
    BY <1>4 DEF Reconnect
  <2> QED
    BY <2>1, <2>2, <2>3, SlotsInv
<1> QED
  BY <1>1, <1>2, <1>3, <1>4

LEMMA KeepaliveTickInv == ASSUME Inv, KeepaliveTick PROVE Inv'
<1>1. link' \in Links
  BY Parts DEF KeepaliveTick, Links
<1>2. UNCHANGED <<ex, feed, led, rec, verdict, state, auth, mut, recovered, faults>>
  BY DEF KeepaliveTick
<1> QED
  BY <1>1, <1>2, Parts, SlotsInv

\* A stream message reaches the ledger.
LEMMA AfterEventOK ==
  ASSUME Inv, NEW m \in OrderMessage, m.status # "NONE", m.trade <= ex[m.order].done
  PROVE  LedOK(AfterEvent(led, m), ex, Known)
<1>1. CASE led.orders[m.order] = "ABSENT"
  BY <1>1, Parts DEF AfterEvent
<1>2. CASE led.orders[m.order] # "ABSENT"
  <2> DEFINE o == m.order
             u == upsert_order(led, o, m.status)
             seen == identify(u, o)
  <2>1. o \in Own /\ m.status \in Status \ {"ABSENT"}
    BY <1>2, Parts DEF OrderMessage, LedOK, Foreign, Own, All, ExStatus, Status
  <2>2. LedOK(u, ex, Known)
    BY <2>1, Parts, KnownOwn, UpsertOK
  <2> HIDE DEF u
  <2>3. LedOK(seen, ex, Known)
    BY <2>1, <2>2, IdentifyOK
  <2> HIDE DEF seen
  <2>4. \A t \in {<<o, m.trade>>} : t[1] \in Own /\ t[2] <= ex[t[1]].done
    BY <2>1
  <2>5. LedOK(append_fills(seen, {<<o, m.trade>>}), ex, Known)
    BY <2>3, <2>4, AppendOK
  <2>6. AfterEvent(led, m) = IF m.trade > 0 THEN append_fills(seen, {<<o, m.trade>>}) ELSE seen
    BY <1>2 DEF AfterEvent, seen, u
  <2> QED
    BY <2>3, <2>5, <2>6
<1> QED
  BY <1>1, <1>2

LEMMA OnWsEventInv == ASSUME Inv, on_ws_event PROVE Inv'
<1> DEFINE m == Head(feed)
           l == IF m.e = "ACCOUNT_UPDATE" THEN delta_position(led, m.pos) ELSE AfterEvent(led, m)
<1>1. feed \in Seq(Truthful(ex)) /\ feed # <<>> /\ feed' = Tail(feed)
  BY Parts DEF on_ws_event
<1>2. m \in Truthful(ex) /\ feed' \in Seq(Truthful(ex))
  <2> DEFINE T == Truthful(ex)
  <2>1. feed \in Seq(T) /\ feed # <<>> /\ feed' = Tail(feed)
    BY <1>1
  <2> HIDE DEF T
  <2>2. Head(feed) \in T /\ Tail(feed) \in Seq(T)
    BY <2>1
  <2> QED
    BY <2>1, <2>2 DEF T
<1>3. led' = set_account_snapshot(l, FALSE) /\ verdict' \in Verdicts /\ rec' = Observed(rec)
      /\ UNCHANGED <<ex, link, state, auth, mut, recovered, faults>>
  BY DEF on_ws_event, Verdicts
<1> HIDE DEF m
<1>4. LedOK(l, ex, Known)
  <2>1. CASE m \in AccountMessage
    <3>1. m.e = "ACCOUNT_UPDATE" /\ m.pos \in Int
      BY <2>1 DEF AccountMessage
    <3> QED
      BY <3>1, Parts, PositionOK
  <2>2. CASE m \in OrderMessage /\ m.status # "NONE" /\ m.trade <= ex[m.order].done
    <3>1. m.e # "ACCOUNT_UPDATE"
      BY <2>2 DEF OrderMessage
    <3> QED
      BY <2>2, <3>1, AfterEventOK
  <2> QED
    BY <1>2, <2>1, <2>2 DEF Truthful
<1> HIDE DEF l
<1>5. LedOK(led', ex, Known)
  BY <1>3, <1>4, SnapshotOK
<1>6. RecsOK(rec')
  BY <1>3, Parts, ObservedOK
<1> QED
  BY <1>2, <1>3, <1>5, <1>6, Parts, SlotsInv
-----------------------------------------------------------------------------
(* The mutations.                                                          *)

\* The mutation goes on to a step that sends nothing and reads no answer.
LEMMA PcOK ==
  ASSUME MutOK(mut, ex), NEW c \in {"fills", "resolve", "sync", "flatten"}
  PROVE  MutOK([mut EXCEPT !.pc = c], ex) /\ [mut EXCEPT !.pc = c].pc = c
<1> DEFINE q == [mut EXCEPT !.pc = c]
<1>1. q \in Mutation /\ q.pc = c
  BY DEF MutOK, Mutation
<1> HIDE DEF q
<1>2. MutOK(q, ex)
  BY <1>1 DEF MutOK
<1> QED
  BY <1>1, <1>2 DEF q

\* A mutation that moves on without a request.
LEMMA MutationInv ==
  ASSUME Inv, LedOK(led', ex, Known), RecsOK(rec'), MutOK(mut', ex), mut'.pc # "send",
         verdict' \in Verdicts, state' \in States, link' = link, auth' \in {"ok", "doubt", "lost"},
         recovered' \subseteq Trades, faults' \in Nat, UNCHANGED <<ex, feed>>
  PROVE  Inv'
<1>1. Stepped
  BY Parts DEF Stepped
<1> QED
  BY <1>1, Parts, SteppedInv

\* A mutation that is about to send its request.
LEMMA SendingInv ==
  ASSUME Inv, NEW o \in Own, LedOK(led', ex, Known \cup {o}), MutOK(mut', ex), mut'.order = o,
         mut.pc = "idle", RecsOK(rec'), auth' = auth,
         UNCHANGED <<ex, feed, link, verdict, state, recovered, faults>>
  PROVE  Inv'
<1>1. Known' \subseteq Known \cup {o}
  BY DEF Known
<1>2. LedOK(led', ex', Known')
  BY <1>1 DEF LedOK
<1>3. ExOK(ex') /\ MutOK(mut', ex') /\ feed' \in Seq(Truthful(ex'))
  BY Parts
<1>4. AdapterOK'
  BY DEF AdapterOK, Inv
<1> QED
  BY <1>2, <1>3, <1>4 DEF Inv

\* The mutation record of a request.
Request(kind, o) == [NoMut EXCEPT !.pc = "send", !.kind = kind, !.order = o]
FlatRequest(o) == [NoMut EXCEPT !.pc = "send", !.kind = "POST", !.order = o, !.flat = TRUE]

LEMMA RequestIs ==
  ASSUME NEW kind \in {"POST", "PUT", "DELETE"}, NEW o \in Own,
         kind = "POST" => ex[o].status = "NONE"
  PROVE  MutOK(Request(kind, o), ex) /\ Request(kind, o).order = o
<1>1. NoMut \in Mutation
  BY LedgerAssumption DEF NoMut, Mutation, ExStatus, Own
<1> DEFINE q == Request(kind, o)
<1>2. q \in Mutation /\ q.pc = "send" /\ q.kind = kind /\ q.order = o
  BY <1>1 DEF Mutation, Request
<1> HIDE DEF q
<1>3. MutOK(q, ex) /\ q.order = o
  BY <1>2 DEF MutOK
<1> QED
  BY <1>3 DEF q

LEMMA FlatRequestIs ==
  ASSUME NEW o \in Own, ex[o].status = "NONE"
  PROVE  MutOK(FlatRequest(o), ex) /\ FlatRequest(o).order = o
<1>1. NoMut \in Mutation
  BY LedgerAssumption DEF NoMut, Mutation, ExStatus, Own
<1> DEFINE q == FlatRequest(o)
<1>2. q \in Mutation /\ q.pc = "send" /\ q.kind = "POST" /\ q.order = o
  BY <1>1 DEF Mutation, FlatRequest
<1> HIDE DEF q
<1>3. MutOK(q, ex) /\ q.order = o
  BY <1>2 DEF MutOK
<1> QED
  BY <1>3 DEF q

\* An unused order is not at the exchange.
LEMMA UnusedIs == ASSUME Inv, NEW o \in Own, Unused(o) PROVE ex[o].status = "NONE"
  BY Parts DEF Unused, LedOK, Known

LEMMA SubmitInv == ASSUME Inv, NEW o \in Own, Submit(o) PROVE Inv'
<1>1. CASE /\ led' = upsert_order(led, o, "PENDING")
           /\ mut' = Request("POST", o)
           /\ rec' = Disturb("mut")
           /\ UNCHANGED <<state, faults>>
  <2>1. ex[o].status = "NONE" /\ mut.pc = "idle"
    BY UnusedIs DEF Submit
  <2>2. MutOK(mut', ex) /\ mut'.order = o
    BY <1>1, <2>1, RequestIs
  <2>3. LedOK(led', ex, Known \cup {o})
    BY <1>1, Parts, KnownOwn, UpsertOK DEF Status
  <2>4. RecsOK(rec')
    BY <1>1, Parts, DisturbOK
  <2>5. UNCHANGED <<ex, feed, link, verdict, auth, recovered>>
    BY DEF Submit
  <2> QED
    BY <1>1, <2>1, <2>2, <2>3, <2>4, <2>5, SendingInv
<1>2. CASE o \notin ReduceOnly /\ Fault /\ state' = "DEGRADED" /\ UNCHANGED <<led, mut, rec>>
  <2>1. faults' \in Nat /\ state' \in States
    BY <1>2, Parts, FaultOK DEF States
  <2>2. UNCHANGED <<ex, feed, link, verdict, auth, recovered>>
    BY DEF Submit
  <2> QED
    BY <1>2, <2>1, <2>2, Parts, SlotsInv
<1> QED
  BY <1>1, <1>2 DEF Submit, Request

LEMMA ChangeInv ==
  ASSUME Inv, NEW o \in Own, NEW kind \in {"DELETE", "PUT"}, Change(o, kind) PROVE Inv'
<1>1. mut.pc = "idle" /\ led.orders[o] # "ABSENT"
      /\ mut' = Request(kind, o)
      /\ UNCHANGED <<ex, feed, link, led, rec, verdict, state, auth, recovered, faults>>
  BY DEF Change, Working, Request
<1>2. MutOK(mut', ex) /\ mut'.order = o
  BY <1>1, RequestIs
<1>3. LedOK(led', ex, Known \cup {o})
  BY <1>1, Parts DEF LedOK
<1> QED
  BY <1>1, <1>2, <1>3, Parts, SendingInv

\* The mutation ends, or leaves its order in doubt.
LEMMA UnansweredInv ==
  ASSUME Inv, NotSent \/ AuthRejected \/ Ambiguous \/ CancelRefused PROVE Inv'
<1> USE Parts
<1>1. FALSE \in BOOLEAN
  OBVIOUS
<1>2. MutOK(Done(FALSE), ex) /\ Done(FALSE).pc # "send"
  BY <1>1, DoneOK
<1>3. MutOK([mut EXCEPT !.pc = "resolve"], ex) /\ [mut EXCEPT !.pc = "resolve"].pc # "send"
  BY PcOK
<1>4. CASE NotSent
  <2>1. faults' \in Nat
    BY <1>4, FaultOK DEF NotSent
  <2>2. mut' = Done(FALSE) /\ state' \in States
        /\ UNCHANGED <<ex, feed, link, led, rec, verdict, auth, recovered>>
    BY <1>4 DEF NotSent, States
  <2> QED
    BY <1>2, <2>1, <2>2, MutationInv
<1>5. CASE AuthRejected
  <2>1. faults' \in Nat
    BY <1>5, FaultOK DEF AuthRejected
  <2>2. mut' = Done(FALSE) /\ state' \in States /\ auth' = "lost"
        /\ UNCHANGED <<ex, feed, link, led, rec, verdict, recovered>>
    BY <1>5 DEF AuthRejected, States
  <2> QED
    BY <1>2, <2>1, <2>2, MutationInv
<1>6. CASE Ambiguous
  <2>1. faults' \in Nat
    BY <1>6, FaultOK DEF Ambiguous
  <2>2. mut' = [mut EXCEPT !.pc = "resolve"] /\ state' \in States
        /\ UNCHANGED <<ex, feed, link, led, rec, verdict, auth, recovered>>
    BY <1>6 DEF Ambiguous, States
  <2> QED
    BY <1>3, <2>1, <2>2, MutationInv
<1>7. CASE CancelRefused
  <2>1. mut' = [mut EXCEPT !.pc = "resolve"] /\ state' \in States
        /\ UNCHANGED <<ex, feed, link, led, rec, verdict, auth, recovered, faults>>
    BY <1>7 DEF CancelRefused, States
  <2> QED
    BY <1>3, <2>1, MutationInv
<1> QED
  BY <1>4, <1>5, <1>6, <1>7

LEMMA MutOrder == ASSUME Inv PROVE mut.order \in Own /\ mut.order \in All /\ mut \in Mutation
  BY Parts, LedgerAssumption DEF MutOK, Mutation, Own, All

LEMMA RejectedInv == ASSUME Inv, Rejected PROVE Inv'
<1> USE Parts
<1>0. faults' \in Nat /\ mut.pc = "send" /\ UNCHANGED <<ex, feed, link, verdict, auth, recovered>>
  BY FaultOK DEF Rejected
<1>1. CASE mut.kind = "POST"
  <2>1. /\ led' = upsert_order(led, mut.order, "REJECTED")
        /\ rec' = Replaced(Disturb("mut"), mut.order)
        /\ mut' = Done(FALSE) /\ UNCHANGED state
    BY <1>1 DEF Rejected
  <2>2. LedOK(led', ex, Known)
    BY <2>1, MutOrder, KnownOwn, UpsertOK DEF Status
  <2>3. RecsOK(rec')
    BY <2>1, MutOrder, DisturbOK, ReplacedOK
  <2>4. FALSE \in BOOLEAN
    OBVIOUS
  <2>5. MutOK(mut', ex) /\ mut'.pc # "send"
    BY <2>1, <2>4, DoneOK
  <2> QED
    BY <1>0, <2>1, <2>2, <2>3, <2>5, MutationInv
<1>2. CASE mut.kind = "PUT"
  <2>1. mut' = NoMut /\ UNCHANGED <<led, rec, state>>
    BY <1>2 DEF Rejected
  <2>2. FALSE \in BOOLEAN
    OBVIOUS
  <2>3. MutOK(mut', ex) /\ mut'.pc # "send"
    BY <2>1, <2>2, DoneOK
  <2> QED
    BY <1>0, <2>1, <2>3, MutationInv
<1>3. CASE mut.kind = "DELETE"
  <2>1. mut' = [mut EXCEPT !.pc = "resolve"] /\ state' = "RECONCILING" /\ UNCHANGED <<led, rec>>
    BY <1>3 DEF Rejected
  <2>2. MutOK(mut', ex) /\ mut'.pc # "send" /\ state' \in States
    BY <2>1, PcOK DEF States
  <2> QED
    BY <1>0, <2>1, <2>2, MutationInv
<1>4. mut.kind \in {"POST", "PUT", "DELETE"}
  BY <1>0, MutOrder DEF MutOK, Mutation
<1> QED
  BY <1>1, <1>2, <1>3, <1>4
\* The answer to a request.
Answered(resp, d) == [mut EXCEPT !.pc = "reply", !.resp = resp, !.done = d]

LEMMA AnsweredIs ==
  ASSUME Inv, NEW resp \in ExStatus, NEW d \in Nat, mut.kind # "DELETE" => resp # "NONE", NEW e
  PROVE  MutOK(Answered(resp, d), e) /\ Answered(resp, d).pc # "send"
<1> DEFINE q == Answered(resp, d)
<1>1. q \in Mutation /\ q.pc = "reply" /\ q.resp = resp /\ q.kind = mut.kind
  BY MutOrder DEF Mutation, Answered
<1> HIDE DEF q
<1>2. MutOK(q, e) /\ q.pc # "send"
  BY <1>1 DEF MutOK
<1> QED
  BY <1>2 DEF q

LEMMA SendInv == ASSUME Inv, Send PROVE Inv'
<1> DEFINE o == mut.order
           e2 == AfterRequest
<1>1. o \in Own /\ o \in All /\ mut \in Mutation /\ mut.pc = "send" /\ mut.kind # "none"
  BY Parts, MutOrder DEF Send, MutOK
<1>2. /\ ex' = e2 /\ Emit(IF e2 = ex THEN <<>> ELSE <<OrderEvent(o, e2[o].status, 0)>>)
      /\ mut' = Answered(e2[o].status, e2[o].done)
      /\ rec' = IF e2 = ex THEN rec ELSE Disturb("none")
      /\ UNCHANGED <<link, led, verdict, state, auth, recovered, faults>>
      /\ mut.kind = "PUT" => o \in OpenOrders(ex)
  BY DEF Send, Answered
<1>3. ex[o] \in [status : ExStatus, done : Nat] /\ ex \in [All -> [status : ExStatus, done : Nat]]
      /\ o \in Known /\ Qty[o] > 0 /\ OrderOK(ex[o], Qty[o])
  BY <1>1, Parts, LedgerAssumption DEF ExOK, Known
<1>4. faults' \in Nat
  BY <1>2, Parts
<1>5. CASE mut.kind = "POST"
  <2> DEFINE x == [ex[o] EXCEPT !.status = "NEW"]
             msgs == <<OrderEvent(o, "NEW", 0)>>
  <2>1. ex[o].status = "NONE" /\ ex[o].done = 0
    BY <1>1, <1>3, <1>5, Parts DEF MutOK, OrderOK
  <2>2. x \in [status : ExStatus, done : Nat] /\ x.status = "NEW" /\ x.done = 0
    BY <1>3, <2>1 DEF ExStatus
  <2>3. e2 = [ex EXCEPT ![o] = x]
    BY <1>5 DEF AfterRequest
  <2> HIDE DEF e2, x
  <2>4. e2[o] = x /\ e2 # ex
    BY <1>1, <1>3, <2>1, <2>2, <2>3
  <2>5. Onward(ex, o, x)
    BY <1>3, <2>1, <2>2 DEF Onward, OrderOK, Working
  <2>6. msgs \in Seq(Truthful(ex'))
    <3>1. "NEW" \in ExStatus \ {"NONE"} /\ 0 \in Nat /\ 0 <= ex'[o].done
      BY <1>2, <2>2, <2>4 DEF ExStatus
    <3>2. OrderEvent(o, "NEW", 0) \in Truthful(ex')
      BY <1>1, <3>1, OrderEventIs
    <3> QED
      BY <3>2
  <2>7. Emit(msgs) /\ rec' = Disturb("none") /\ ex' = [ex EXCEPT ![o] = x]
    BY <1>2, <2>2, <2>3, <2>4
  <2>8. mut' = Answered("NEW", 0)
    BY <1>2, <2>2, <2>4
  <2>9. MutOK(mut', ex') /\ mut'.pc # "send"
    <3>1. "NEW" \in ExStatus /\ "NEW" # "NONE" /\ 0 \in Nat
      BY DEF ExStatus
    <3> QED
      BY <2>8, <3>1, AnsweredIs
  <2> HIDE DEF msgs
  <2> QED
    BY <1>1, <1>2, <1>3, <1>4, <2>5, <2>6, <2>7, <2>9, ExchangeInv
<1>6. CASE mut.kind = "DELETE" /\ o \in OpenOrders(ex)
  <2> DEFINE x == [ex[o] EXCEPT !.status = "CANCELED"]
             msgs == <<OrderEvent(o, "CANCELED", 0)>>
  <2>1. e2 = [ex EXCEPT ![o].status = "CANCELED"]
    BY <1>6 DEF AfterRequest
  <2>2. Onward(ex, o, x) /\ e2 = [ex EXCEPT ![o] = x] /\ msgs \in Seq(Truthful(e2))
    BY <1>1, <1>6, <2>1, CanceledIs
  <2>3. x.status = "CANCELED" /\ x.done = ex[o].done /\ ex[o].status # "CANCELED"
    BY <1>3, <1>6 DEF OpenOrders, Working
  <2> HIDE DEF e2, x
  <2>4. e2[o] = x /\ e2 # ex
    BY <1>1, <1>3, <2>2, <2>3
  <2>5. Emit(msgs) /\ rec' = Disturb("none") /\ ex' = [ex EXCEPT ![o] = x] /\ msgs \in Seq(Truthful(ex'))
    BY <1>2, <2>2, <2>3, <2>4
  <2>6. mut' = Answered("CANCELED", ex[o].done)
    BY <1>2, <2>3, <2>4
  <2>7. MutOK(mut', ex') /\ mut'.pc # "send"
    <3>1. "CANCELED" \in ExStatus /\ "CANCELED" # "NONE" /\ ex[o].done \in Nat
      BY <1>3 DEF ExStatus
    <3> QED
      BY <2>6, <3>1, AnsweredIs
  <2> HIDE DEF msgs
  <2> QED
    BY <1>1, <1>2, <1>3, <1>4, <2>2, <2>5, <2>7, ExchangeInv
<1>7. CASE mut.kind # "POST" /\ ~(mut.kind = "DELETE" /\ o \in OpenOrders(ex))
  <2>1. e2 = ex
    BY <1>7 DEF AfterRequest
  <2>2. Emit(<<>>) /\ rec' = rec /\ ex' = ex /\ mut' = Answered(ex[o].status, ex[o].done)
    BY <1>2, <2>1
  <2>3. feed' \in Seq(Truthful(ex))
    <3> DEFINE T == Truthful(ex)
    <3>1. feed \in Seq(T)
      BY Parts
    <3> HIDE DEF T
    <3>2. feed' \in Seq(T)
      BY <2>2, <3>1 DEF Emit
    <3> QED
      BY <3>2 DEF T
  <2>4. mut.kind # "DELETE" => ex[o].status # "NONE"
    BY <1>1, <1>2, <1>7 DEF OpenOrders, Working, Mutation
  <2>5. MutOK(mut', ex) /\ mut'.pc # "send"
    BY <1>3, <2>2, <2>4, AnsweredIs
  <2>6. Stepped
    BY <1>2, <2>2, <2>5, Parts DEF Stepped
  <2> QED
    BY <1>2, <1>4, <2>2, <2>3, <2>6, Parts, SteppedInv
<1> QED
  BY <1>5, <1>6, <1>7

LEMMA SendFillsInv == ASSUME Inv, SendFills PROVE Inv'
<1> DEFINE o == mut.order
           x == [status |-> "FILLED", done |-> Qty[o]]
           msgs == <<AccountEvent(Position(ex')), OrderEvent(o, "FILLED", 1)>>
<1>1. o \in Own /\ o \in All /\ mut.pc = "send" /\ mut.kind = "POST" /\ Qty[o] = 1
  BY MutOrder DEF SendFills
<1>2. ex[o].status = "NONE" /\ ex[o].done = 0 /\ o \in Known
  BY <1>1, Parts DEF MutOK, ExOK, OrderOK, Known
<1>3. /\ ex' = [ex EXCEPT ![o] = x] /\ Emit(msgs) /\ mut' = Answered("FILLED", Qty[o])
      /\ rec' = Disturb("none")
      /\ UNCHANGED <<link, led, verdict, state, auth, recovered, faults>>
  BY DEF SendFills, Answered
<1>4. x \in [status : ExStatus, done : Nat] /\ x.status = "FILLED" /\ x.done = 1 /\ ex'[o] = x
  BY <1>1, <1>3, Parts DEF ExStatus, ExOK
<1> HIDE DEF x
<1>5. Onward(ex, o, x)
  BY <1>1, <1>2, <1>4 DEF Onward, OrderOK, Working
<1>6. msgs \in Seq(Truthful(ex'))
  <2>1. "FILLED" \in ExStatus \ {"NONE"} /\ 1 \in Nat /\ 1 <= ex'[o].done
    BY <1>4 DEF ExStatus
  <2> QED
    BY <1>1, <2>1, FillMessages
<1>7. MutOK(mut', ex') /\ mut'.pc # "send"
  <2>1. "FILLED" \in ExStatus /\ "FILLED" # "NONE" /\ Qty[o] \in Nat
    BY <1>1 DEF ExStatus
  <2> QED
    BY <1>3, <2>1, AnsweredIs
<1>8. faults' \in Nat
  BY <1>3, Parts
<1> HIDE DEF msgs
<1> QED
  BY <1>1, <1>2, <1>3, <1>5, <1>6, <1>7, <1>8, ExchangeInv

\* A reconcile() of the mutation begins.
LEMMA BeginMutOK ==
  ASSUME Inv, NEW rs, RecsOK(rs), NEW c \in Callers, NEW known \in BOOLEAN
  PROVE  RecsOK([rs EXCEPT !["mut"] = Begun(c, known)])
<1>1. "mut" \in Slots
  BY DEF Slots
<1> QED
  BY <1>1, StartOK

LEMMA ReplyInv == ASSUME Inv, Reply PROVE Inv'
<1> USE Parts
<1> DEFINE o == mut.order
           rs == IF mut.kind = "DELETE" THEN Disturb("mut") ELSE Replaced(Disturb("mut"), o)
<1>1. o \in Own /\ mut \in Mutation /\ mut.pc = "reply"
      /\ UNCHANGED <<ex, feed, link, state, recovered, faults>>
  BY MutOrder DEF Reply
<1>2. mut.resp \in Status \ {"ABSENT"}
  <2>1. mut.resp \in ExStatus /\ mut.resp # "NONE"
    BY <1>1 DEF Reply, MutOK, Mutation
  <2> QED
    BY <2>1 DEF ExStatus, Status
<1>3. LedOK(led', ex, Known)
  <2>1. LedOK(upsert_order(led, o, mut.resp), ex, Known)
    BY <1>1, <1>2, KnownOwn, UpsertOK
  <2>2. LedOK(identify(upsert_order(led, o, mut.resp), o), ex, Known)
    BY <1>1, <2>1, IdentifyOK
  <2> QED
    BY <2>1, <2>2 DEF Reply
<1>4. RecsOK(rs)
  BY <1>1, DisturbOK, ReplacedOK
<1>5. CASE mut.resp \in Executed
  <2>1. mut' = [mut EXCEPT !.pc = "fills"] /\ rec' = rs /\ verdict' = "UNKNOWN" /\ UNCHANGED auth
    BY <1>5 DEF Reply
  <2> HIDE DEF rs
  <2>2. MutOK(mut', ex) /\ mut'.pc # "send" /\ verdict' \in Verdicts
    BY <2>1, PcOK DEF Verdicts
  <2> QED
    BY <1>1, <1>3, <1>4, <2>1, <2>2, MutationInv
<1>6. CASE mut.resp \notin Executed
  <2>1. /\ mut' = [mut EXCEPT !.pc = "sync"]
        /\ rec' = [rs EXCEPT !["mut"] = Begun("post", TRUE)]
        /\ verdict' = "RECONCILING" /\ auth' = Cleared
    BY <1>6 DEF Reply
  <2> HIDE DEF rs
  <2>2. MutOK(mut', ex) /\ mut'.pc # "send" /\ verdict' \in Verdicts
    BY <2>1, PcOK DEF Verdicts
  <2>3. TRUE \in BOOLEAN /\ "post" \in Callers
    BY DEF Callers
  <2>4. RecsOK(rec')
    BY <1>4, <2>1, <2>3, BeginMutOK
  <2>5. auth' \in {"ok", "doubt", "lost"}
    BY <2>1, ClearedOK
  <2> QED
    BY <1>1, <1>3, <2>2, <2>4, <2>5, MutationInv
<1> QED
  BY <1>5, <1>6

\* The trades of an own order are executions.
LEMMA TradesNowOK ==
  ASSUME Inv, NEW o \in Own, NEW l, LedOK(l, ex, Known)
  PROVE  LedOK(append_fills(l, TradesNow(o)), ex, Known) /\ recovered \cup TradesNow(o) \subseteq Trades
<1>1. \A t \in TradesNow(o) : t[1] \in Own /\ t[2] <= ex[t[1]].done
  BY DEF TradesNow, Executions
<1>2. LedOK(append_fills(l, TradesNow(o)), ex, Known)
  BY <1>1, AppendOK
<1> QED
  BY <1>2, Parts DEF TradesNow, Executions
LEMMA ReplyFillsInv == ASSUME Inv, ReplyFills PROVE Inv'
<1> USE Parts
<1> DEFINE o == mut.order
           ok == AddUp(o, [status |-> mut.resp, done |-> mut.done])
<1>1. o \in Own /\ UNCHANGED <<ex, feed, link, faults>> /\ recovered' = recovered \cup TradesNow(o)
  BY MutOrder DEF ReplyFills
<1>2. recovered' \subseteq Trades
  BY <1>1, TradesNowOK
<1>3. CASE ok
  <2>1. /\ led' = append_fills(led, TradesNow(o))
        /\ mut' = [mut EXCEPT !.pc = "sync"]
        /\ rec' = [Disturb("mut") EXCEPT !["mut"] = Begun("post", TRUE)]
        /\ verdict' = "RECONCILING" /\ auth' = Cleared /\ UNCHANGED state
    BY <1>3 DEF ReplyFills
  <2>2. LedOK(led', ex, Known)
    BY <1>1, <2>1, TradesNowOK
  <2>3. MutOK(mut', ex) /\ mut'.pc # "send" /\ verdict' \in Verdicts
    BY <2>1, PcOK DEF Verdicts
  <2>4. TRUE \in BOOLEAN /\ "post" \in Callers
    BY DEF Callers
  <2>5. RecsOK(rec')
    BY <2>1, <2>4, DisturbOK, BeginMutOK
  <2>6. auth' \in {"ok", "doubt", "lost"}
    BY <2>1, ClearedOK
  <2> QED
    BY <1>1, <1>2, <2>1, <2>2, <2>3, <2>5, <2>6, MutationInv
<1>4. CASE ~ok
  <2>1. /\ verdict' = "UNKNOWN" /\ state' = "DEGRADED" /\ mut' = Done(FALSE)
        /\ UNCHANGED <<led, rec, auth>>
    BY <1>4 DEF ReplyFills
  <2>2. FALSE \in BOOLEAN
    OBVIOUS
  <2>3. MutOK(mut', ex) /\ mut'.pc # "send"
    BY <2>1, <2>2, DoneOK
  <2>4. verdict' \in Verdicts /\ state' \in States
    BY <2>1 DEF Verdicts, States
  <2> QED
    BY <1>1, <1>2, <2>1, <2>3, <2>4, MutationInv
<1> QED
  BY <1>3, <1>4

LEMMA ResolveInv == ASSUME Inv, Resolve PROVE Inv'
<1> USE Parts
<1> DEFINE o == mut.order
           seen == IF ex[o].status = "NONE" THEN led
                   ELSE identify(upsert_order(led, o, ex[o].status), o)
           withFills == mut.kind # "DELETE" /\ ex[o].status \in Executed
           rs == IF mut.kind = "DELETE" \/ seen = led THEN Disturb("mut")
                 ELSE Replaced(Disturb("mut"), o)
           doubt == [mut EXCEPT !.pc = "doubtfills", !.resp = ex[o].status, !.done = ex[o].done]
<1>1. o \in Own /\ o \in All /\ mut \in Mutation /\ UNCHANGED <<ex, feed, link, state, recovered>>
  BY MutOrder DEF Resolve
<1>2. ex[o].status \in ExStatus /\ ex[o].done \in Nat
  BY <1>1 DEF ExOK
<1>3. LedOK(seen, ex, Known)
  <2>1. CASE ex[o].status = "NONE"
    BY <2>1
  <2>2. CASE ex[o].status # "NONE"
    <3>1. ex[o].status \in Status \ {"ABSENT"}
      BY <1>2, <2>2 DEF ExStatus, Status
    <3>2. LedOK(upsert_order(led, o, ex[o].status), ex, Known)
      BY <1>1, <3>1, KnownOwn, UpsertOK
    <3>3. LedOK(identify(upsert_order(led, o, ex[o].status), o), ex, Known)
      BY <1>1, <3>2, IdentifyOK
    <3> QED
      BY <2>2, <3>3
  <2> QED
    BY <2>1, <2>2
<1>4. RecsOK(rs)
  BY <1>1, DisturbOK, ReplacedOK
<1>5. MutOK(doubt, ex) /\ doubt.pc # "send"
  <2>1. doubt \in Mutation /\ doubt.pc = "doubtfills"
    BY <1>1, <1>2 DEF Mutation
  <2> HIDE DEF doubt
  <2> QED
    BY <2>1 DEF MutOK
<1>6. MutOK([mut EXCEPT !.pc = "sync"], ex) /\ [mut EXCEPT !.pc = "sync"].pc # "send"
  BY PcOK
<1>7. TRUE \in BOOLEAN /\ FALSE \in BOOLEAN /\ "resolve" \in Callers
  BY DEF Callers
<1>8. RecsOK([rs EXCEPT !["mut"] = Begun("resolve", TRUE)])
      /\ RecsOK([rec EXCEPT !["mut"] = Begun("resolve", FALSE)])
  <2> HIDE DEF rs
  <2> QED
    BY <1>4, <1>7, BeginMutOK
<1>9. Cleared \in {"ok", "doubt", "lost"} /\ "RECONCILING" \in Verdicts
  BY ClearedOK DEF Verdicts
<1>10. \/ /\ led' = seen /\ mut' = doubt /\ rec' = rs /\ UNCHANGED <<verdict, auth, faults>>
       \/ /\ led' = seen /\ mut' = [mut EXCEPT !.pc = "sync"]
          /\ rec' = [rs EXCEPT !["mut"] = Begun("resolve", TRUE)]
          /\ verdict' = "RECONCILING" /\ auth' = Cleared /\ UNCHANGED faults
       \/ /\ Fault /\ mut' = [mut EXCEPT !.pc = "sync"]
          /\ rec' = [rec EXCEPT !["mut"] = Begun("resolve", FALSE)]
          /\ verdict' = "RECONCILING" /\ auth' = Cleared /\ UNCHANGED led
  BY DEF Resolve
<1> HIDE DEF o, seen, rs, doubt
<1>11. CASE led' = seen /\ mut' = doubt /\ rec' = rs /\ UNCHANGED <<verdict, auth, faults>>
  BY <1>1, <1>3, <1>4, <1>5, <1>11, MutationInv
<1>12. CASE /\ led' = seen /\ mut' = [mut EXCEPT !.pc = "sync"]
            /\ rec' = [rs EXCEPT !["mut"] = Begun("resolve", TRUE)]
            /\ verdict' = "RECONCILING" /\ auth' = Cleared /\ UNCHANGED faults
  BY <1>1, <1>3, <1>6, <1>8, <1>9, <1>12, MutationInv
<1>13. CASE /\ Fault /\ mut' = [mut EXCEPT !.pc = "sync"]
            /\ rec' = [rec EXCEPT !["mut"] = Begun("resolve", FALSE)]
            /\ verdict' = "RECONCILING" /\ auth' = Cleared /\ UNCHANGED led
  <2>1. faults' \in Nat
    BY <1>13, FaultOK
  <2> QED
    BY <1>1, <1>6, <1>8, <1>9, <1>13, <2>1, MutationInv
<1> QED
  BY <1>10, <1>11, <1>12, <1>13

LEMMA ResolveFillsInv == ASSUME Inv, ResolveFills PROVE Inv'
<1> USE Parts
<1> DEFINE o == mut.order
           ok == AddUp(o, [status |-> mut.resp, done |-> mut.done])
<1>1. o \in Own /\ ok \in BOOLEAN
  BY MutOrder DEF AddUp
<1>2. /\ recovered' = recovered \cup TradesNow(o)
      /\ led' = IF ok THEN append_fills(led, TradesNow(o)) ELSE led
      /\ mut' = [mut EXCEPT !.pc = "sync"]
      /\ rec' = [Disturb("mut") EXCEPT !["mut"] = Begun("resolve", ok)]
      /\ verdict' = "RECONCILING" /\ auth' = Cleared
      /\ UNCHANGED <<ex, feed, link, state, faults>>
  BY DEF ResolveFills
<1> HIDE DEF ok
<1>3. LedOK(led', ex, Known) /\ recovered' \subseteq Trades
  BY <1>1, <1>2, TradesNowOK
<1>4. MutOK(mut', ex) /\ mut'.pc # "send" /\ verdict' \in Verdicts
  BY <1>2, PcOK DEF Verdicts
<1>5. "resolve" \in Callers
  BY DEF Callers
<1>6. RecsOK(rec')
  BY <1>1, <1>2, <1>5, DisturbOK, BeginMutOK
<1>7. auth' \in {"ok", "doubt", "lost"}
  BY <1>2, ClearedOK
<1> QED
  BY <1>2, <1>3, <1>4, <1>6, <1>7, MutationInv

\* cancel_all_open_orders.
LEMMA CancelAllInv == ASSUME Inv, CancelAll PROVE Inv'
<1> DEFINE S == OpenOrders(ex)
           q == [NoMut EXCEPT !.pc = "all", !.todo = S]
<1>1. S \in SUBSET All
  BY DEF OpenOrders
<1>2. NoMut \in Mutation
  BY LedgerAssumption DEF NoMut, Mutation, ExStatus, Own
<1>3. mut' = q /\ UNCHANGED <<ex, feed, link, led, rec, verdict, state, auth, recovered, faults>>
  BY DEF CancelAll
<1> HIDE DEF S
<1>4. q \in Mutation /\ q.pc = "all"
  BY <1>1, <1>2 DEF Mutation
<1> HIDE DEF q
<1>5. MutOK(mut', ex) /\ mut'.pc # "send"
  BY <1>3, <1>4 DEF MutOK
<1> QED
  BY <1>3, <1>5, Parts, MutationInv

LEMMA CancelNextInv == ASSUME Inv, CancelNext PROVE Inv'
<1> DEFINE o == Min(mut.todo)
           rest == mut.todo \ {o}
           q == [mut EXCEPT !.todo = rest]
           x == [ex[o] EXCEPT !.status = "CANCELED"]
           msgs == <<OrderEvent(o, "CANCELED", 0)>>
<1>1. mut \in Mutation /\ mut.pc = "all" /\ rest \in SUBSET All
  BY MutOrder DEF CancelNext, Mutation
<1>2. mut' = (IF rest = {} THEN NoMut ELSE q)
      /\ UNCHANGED <<link, led, verdict, state, auth, recovered>>
  BY DEF CancelNext
<1>3. \A e : MutOK(mut', e) /\ mut'.pc # "send"
  <2>1. NoMut \in Mutation /\ NoMut.pc = "idle"
    BY LedgerAssumption DEF NoMut, Mutation, ExStatus, Own
  <2> HIDE DEF rest
  <2>2. q \in Mutation /\ q.pc = "all"
    BY <1>1 DEF Mutation
  <2> HIDE DEF q
  <2> QED
    BY <1>2, <2>1, <2>2 DEF MutOK
<1>4. CASE /\ o \in OpenOrders(ex)
           /\ ex' = [ex EXCEPT ![o].status = "CANCELED"]
           /\ Emit(msgs)
           /\ rec' = Disturb("none")
           /\ UNCHANGED faults
  <2>1. o \in All
    BY <1>4 DEF OpenOrders
  <2>2. /\ Onward(ex, o, x) /\ ex' = [ex EXCEPT ![o] = x]
        /\ (o \in Own => o \in Known) /\ msgs \in Seq(Truthful(ex'))
    BY <1>4, <2>1, CanceledIs
  <2>3. faults' \in Nat
    BY <1>4, Parts
  <2> HIDE DEF o, x, msgs
  <2> QED
    BY <1>2, <1>3, <1>4, <2>1, <2>2, <2>3, ExchangeInv
<1>5. CASE UNCHANGED <<ex, feed, rec>> /\ faults' \in Nat
  BY <1>2, <1>3, <1>5, Parts, MutationInv
<1>6. CASE Fault /\ UNCHANGED <<ex, feed, rec>>
  BY <1>5, <1>6, Parts, FaultOK
<1>7. CASE o \notin OpenOrders(ex) /\ UNCHANGED <<ex, feed, rec, faults>>
  BY <1>5, <1>7, Parts
<1> QED
  BY <1>4, <1>6, <1>7 DEF CancelNext

\* emergency_flatten.
LEMMA EmergencyFlattenInv == ASSUME Inv, EmergencyFlatten PROVE Inv'
<1> USE Parts
<1> DEFINE amount == Position(ex)
           taken == rest_position(led, amount)
<1>1. amount \in Int
  BY PositionInt
<1>2. LedOK(taken, ex, Known)
  BY <1>1, PositionOK
<1>3. RecsOK(Disturb("mut"))
  BY DisturbOK
<1>4. mut.pc = "idle" /\ UNCHANGED <<ex, feed, link, state, recovered, faults>>
  BY DEF EmergencyFlatten
<1>5. NoMut \in Mutation
  BY LedgerAssumption DEF NoMut, Mutation, ExStatus, Own
<1>6. CASE /\ led' = taken /\ mut' = [NoMut EXCEPT !.pc = "sync"]
           /\ rec' = [Disturb("mut") EXCEPT !["mut"] = Begun("flat", TRUE)]
           /\ verdict' = "RECONCILING" /\ auth' = Cleared
  <2>1. mut' \in Mutation /\ mut'.pc = "sync"
    BY <1>5, <1>6 DEF Mutation
  <2>2. MutOK(mut', ex) /\ mut'.pc # "send" /\ verdict' \in Verdicts
    BY <1>6, <2>1 DEF MutOK, Verdicts
  <2>3. TRUE \in BOOLEAN /\ "flat" \in Callers
    BY DEF Callers
  <2>4. RecsOK(rec')
    BY <1>3, <1>6, <2>3, BeginMutOK
  <2>5. auth' \in {"ok", "doubt", "lost"}
    BY <1>6, ClearedOK
  <2> QED
    BY <1>2, <1>4, <1>6, <2>2, <2>4, <2>5, MutationInv
<1>7. CASE /\ led' = taken /\ mut' = [NoMut EXCEPT !.pc = "flatten", !.ok = FALSE]
           /\ rec' = Disturb("mut") /\ UNCHANGED <<verdict, auth>>
  <2>1. mut' \in Mutation /\ mut'.pc = "flatten"
    BY <1>5, <1>7 DEF Mutation
  <2>2. MutOK(mut', ex) /\ mut'.pc # "send"
    BY <2>1 DEF MutOK
  <2> QED
    BY <1>2, <1>3, <1>4, <1>7, <2>2, MutationInv
<1>8. ASSUME NEW o \in ReduceOnly, Unused(o), led' = upsert_order(taken, o, "PENDING"),
             mut' = FlatRequest(o), rec' = Disturb("mut"), UNCHANGED <<verdict, auth>>
      PROVE  Inv'
  <2>1. o \in Own
    BY LedgerAssumption
  <2>2. ex[o].status = "NONE"
    BY <1>8, <2>1, UnusedIs
  <2>3. MutOK(mut', ex) /\ mut'.order = o
    BY <1>8, <2>1, <2>2, FlatRequestIs
  <2> HIDE DEF taken
  <2>4. LedOK(led', ex, Known \cup {o})
    BY <1>2, <1>8, <2>1, KnownOwn, UpsertOK DEF Status
  <2> QED
    BY <1>3, <1>4, <1>8, <2>1, <2>3, <2>4, SendingInv
<1> QED
  BY <1>6, <1>7, <1>8 DEF EmergencyFlatten, FlatRequest

LEMMA FlattenReconcileInv == ASSUME Inv, FlattenReconcile PROVE Inv'
<1> USE Parts
<1>1. /\ mut' = [mut EXCEPT !.pc = "sync"]
      /\ rec' = [rec EXCEPT !["mut"] = Begun("flatten", mut.ok)]
      /\ verdict' = "RECONCILING" /\ auth' = Cleared
      /\ UNCHANGED <<ex, feed, link, led, state, recovered, faults>>
  BY DEF FlattenReconcile
<1>2. MutOK(mut', ex) /\ mut'.pc # "send" /\ verdict' \in Verdicts
  BY <1>1, PcOK DEF Verdicts
<1>3. mut.ok \in BOOLEAN /\ "flatten" \in Callers
  BY MutOrder DEF Mutation, Callers
<1>4. RecsOK(rec')
  BY <1>1, <1>3, BeginMutOK
<1>5. auth' \in {"ok", "doubt", "lost"}
  BY <1>1, ClearedOK
<1> QED
  BY <1>1, <1>2, <1>4, <1>5, MutationInv

-----------------------------------------------------------------------------
(* The invariant.                                                          *)

LEMMA InitInv == Init => Inv
<1> SUFFICES ASSUME Init PROVE Inv
  OBVIOUS
<1>1. ExOK(ex)
  BY LedgerAssumption DEF Init, ExOK, OrderOK, ExStatus, Working
<1>2. feed \in Seq(Truthful(ex))
  BY DEF Init
<1>3. MutOK(mut, ex) /\ mut.pc = "idle"
  <2>1. mut \in Mutation /\ mut.pc = "idle"
    BY LedgerAssumption DEF Init, NoMut, Mutation, ExStatus, Own
  <2> QED
    BY <2>1 DEF MutOK
<1>4. Known = {}
  BY <1>3, LedgerAssumption DEF Known, Init, Own, All
<1>5. LedOK(led, ex, Known)
  <2>1. led \in Ledger
    BY DEF Init, EmptyLedger, Ledger, Status
  <2>2. Foreign \in All
    BY LedgerAssumption DEF Foreign, All
  <2> QED
    BY <1>4, <2>1, <2>2 DEF LedOK, Init, EmptyLedger
<1>6. RecsOK(rec)
  BY NoRecOK DEF Init, RecsOK, RecOK
<1>7. AdapterOK
  BY DEF Init, AdapterOK, Links, Verdicts, States
<1> QED
  BY <1>1, <1>2, <1>3, <1>5, <1>6, <1>7 DEF Inv

LEMMA StutterInv == ASSUME Inv, UNCHANGED vars PROVE Inv'
<1>1. UNCHANGED <<ex, feed, link, led, rec, verdict, state, auth, mut, recovered, faults>>
  BY DEF vars
<1> QED
  BY <1>1, Parts, SlotsInv

LEMMA NextInv == ASSUME Inv, Next PROVE Inv'
<1>1. ASSUME NEW s \in Slots, Reconcile(s) \/ ReconcileFails(s) \/ RequestFails(s) PROVE Inv'
  BY <1>1, ReadPositionsInv, ReadOpenOrdersInv, RecoverTradesInv, QueryOrderInv, RecoverFillsInv,
     ReconcileFailsInv, RequestFailsInv DEF Reconcile
<1>2. ASSUME NEW o \in Own, Submit(o) \/ Change(o, "DELETE") \/ Change(o, "PUT") PROVE Inv'
  BY <1>2, SubmitInv, ChangeInv
<1>3. ASSUME Mutate PROVE Inv'
  BY <1>3, SendInv, SendFillsInv, ReplyInv, UnansweredInv, ReplyFillsInv, ResolveInv,
     ResolveFillsInv, CancelNextInv, FlattenReconcileInv DEF Mutate
<1>4. ASSUME NotSent \/ Rejected \/ AuthRejected \/ Ambiguous PROVE Inv'
  BY <1>4, RejectedInv, UnansweredInv
<1> QED
  BY <1>1, <1>2, <1>3, <1>4, ExFillInv, ExCancelInv, ExForeignInv, StreamInv, KeepaliveTickInv,
     OnWsEventInv, CancelAllInv, EmergencyFlattenInv DEF Next

\* The inductive invariant holds of the adapter, whatever the exchange, the
\* stream and the requests do.
THEOREM VenueInvariant == Spec => []Inv
<1>1. Inv /\ [Next]_vars => Inv'
  BY NextInv, StutterInv
<1> QED
  BY InitInv, <1>1, PTL DEF Spec

LEMMA InvImplies == Inv => TypeOK /\ FillsAreExecutions /\ LineageIsExact
<1> SUFFICES ASSUME Inv PROVE TypeOK /\ FillsAreExecutions /\ LineageIsExact
  OBVIOUS
<1> USE Parts
<1>1. feed \in Seq([e : {"ORDER_TRADE_UPDATE"}, order : All, status : ExStatus, trade : Nat]
                   \cup [e : {"ACCOUNT_UPDATE"}, pos : Int])
  <2> DEFINE T == Truthful(ex)
             S == [e : {"ORDER_TRADE_UPDATE"}, order : All, status : ExStatus, trade : Nat]
                   \cup [e : {"ACCOUNT_UPDATE"}, pos : Int]
  <2>1. T \subseteq S
    BY DEF Truthful, OrderMessage, AccountMessage
  <2>2. feed \in Seq(T)
    OBVIOUS
  <2> HIDE DEF T, S
  <2>3. feed \in Seq(S)
    BY <2>1, <2>2
  <2> QED
    BY <2>3 DEF S
<1>2. TypeOK
  BY <1>1 DEF TypeOK, ExOK, RecsOK, MutOK, Links, Verdicts, States
<1>3. FillsAreExecutions
  BY DEF FillsAreExecutions, LedOK
<1>4. LineageIsExact
  BY DEF LineageIsExact, LedOK, Known
<1> QED
  BY <1>2, <1>3, <1>4

\* Every variable of the adapter keeps its type.
THEOREM VenueTypes == Spec => []TypeOK
  BY VenueInvariant, InvImplies, PTL

\* A fill is recorded at most once, and only if the exchange executed it for an
\* order of this worker.
THEOREM VenueFills == Spec => []FillsAreExecutions
  BY VenueInvariant, InvImplies, PTL

\* The ledger knows every order of this worker the exchange knows and none of
\* somebody else.
THEOREM VenueLineage == Spec => []LineageIsExact
  BY VenueInvariant, InvImplies, PTL

=============================================================================
