---------------------------- MODULE OutboxProofs ----------------------------
(***************************************************************************)
(* For any events, orders, dispatchers and queue capacity: an acknowledged *)
(* order stays durable, an event is applied once, an accepted event is     *)
(* never lost in silence, a load is refused only when it was torn, and the *)
(* outbox implements DurableLog.                                           *)
(***************************************************************************)
EXTENDS Outbox, FiniteSetTheorems, TLAPS

Pending == [status |-> "PENDING", attempts |-> 0, due |-> TRUE]

\* What a dispatcher holds: a row of its own that is still pending while its
\* transaction runs, a row afterwards.
Claims ==
  /\ \A d \in Dispatchers : disp[d].pc # "idle" => disp[d].event \in Events
  /\ \A d \in Dispatchers : disp[d].pc = "claimed" => outbox[disp[d].event].status = "PENDING"
  /\ \A c, d \in Dispatchers :
       disp[c].pc = "claimed" /\ disp[d].pc = "claimed" /\ c # d => disp[c].event # disp[d].event

\* The tables have the order of every fill, and a load has read some of the
\* orders.
LedgerOK ==
  /\ Lineage(OrderRows, FillRows)
  /\ ledger.orders \subseteq OrderRows
  /\ RefusedOnlyWhenTorn

Counted == IsFiniteSet(reported) /\ NothingSilentlyLost

Inv == TypeOK /\ Claims /\ AppliedOnce /\ AckedIsDurable /\ LedgerOK /\ Counted

\* The absent row.
LEMMA Rows == NoRow \in OutboxRow /\ NoRow.status = "NONE"
              /\ Pending \in OutboxRow /\ Pending.status = "PENDING"
  BY DEF NoRow, OutboxRow, Pending

\* The invariant holds initially.
LEMMA InitInv == Init => Inv
<1> SUFFICES ASSUME Init PROVE Inv
  OBVIOUS
<1> USE OutboxAssumption DEF Init
<1>1. TypeOK
  <2>1. queue \in Seq(Events) /\ Len(queue) <= Capacity
    OBVIOUS
  <2>2. outbox \in [Events -> OutboxRow]
    BY Rows
  <2>3. disp \in [Dispatchers -> [pc : {"idle", "claimed", "failed"}, event : Events \cup {NoEvent}]]
    BY DEF Idle
  <2>4. ledger \in [pc : {"none", "orders", "refused"}, orders : SUBSET Orders]
    BY DEF NoLedger
  <2> QED
    BY <2>1, <2>2, <2>3, <2>4 DEF TypeOK
<1>2. Claims
  BY DEF Claims, Idle
<1>3. AppliedOnce
  BY Rows DEF AppliedOnce
<1>4. AckedIsDurable
  BY DEF AckedIsDurable
<1>5. LedgerOK
  <2>1. FillRows = {} /\ ledger.orders = {} /\ ledger.pc = "none"
    BY Rows DEF FillRows, Applied, NoLedger
  <2> QED
    BY <2>1 DEF LedgerOK, Lineage, RefusedOnlyWhenTorn
<1>6. Counted
  <2>1. Lost = {}
    BY DEF Lost
  <2> QED
    BY <2>1, FS_EmptySet DEF Counted, NothingSilentlyLost
<1> QED
  BY <1>1, <1>2, <1>3, <1>4, <1>5, <1>6 DEF Inv

-----------------------------------------------------------------------------
(* What a step does to the tables.                                         *)

SameStatus == \A e \in Events : outbox'[e].status = outbox[e].status
Recorded(e) == outbox[e].status = "NONE" /\ outbox' = [outbox EXCEPT ![e] = Pending]

\* append_outbox stores the event once, and leaves the row of one it has.
LEMMA AppendStep ==
  ASSUME TypeOK, NEW e \in Events, append_outbox(e) \/ UNCHANGED outbox
  PROVE  /\ SameStatus \/ Recorded(e)
         /\ outbox' \in [Events -> OutboxRow]
         /\ append_outbox(e) => outbox'[e].status # "NONE"
<1>1. outbox \in [Events -> OutboxRow]
  BY DEF TypeOK
<1>2. CASE UNCHANGED outbox /\ (append_outbox(e) => outbox[e].status # "NONE")
  BY <1>1, <1>2 DEF SameStatus
<1>3. CASE Recorded(e)
  BY <1>1, <1>3, Rows DEF Recorded
<1> QED
  BY <1>2, <1>3 DEF append_outbox, Recorded, Pending

\* Only a new row, or the commit of a dispatcher that has claimed the row,
\* changes a status.
LEMMA Steps ==
  ASSUME TypeOK, Claims, [Next]_vars
  PROVE  /\ outbox' \in [Events -> OutboxRow]
         /\ \/ SameStatus /\ UNCHANGED inserted
            \/ \E e \in Events : Recorded(e) /\ UNCHANGED inserted
            \/ \E e \in Events : outbox[e].status = "PENDING" /\ ApplyEvent(e)
<1>1. outbox \in [Events -> OutboxRow]
  BY DEF TypeOK
<1>2. CASE UNCHANGED <<outbox, inserted>>
  BY <1>1, <1>2 DEF SameStatus
<1>3. CASE UNCHANGED inserted /\ \E e \in Events : append_outbox(e) \/ UNCHANGED outbox
  BY <1>3, AppendStep
<1>4. ASSUME NEW e \in Events, outbox[e].status = "PENDING", ApplyEvent(e)
      PROVE  outbox' \in [Events -> OutboxRow]
  BY <1>1, <1>4 DEF ApplyEvent, OutboxRow
<1>5. CASE Manager
  <2>1. CASE start \/ stop \/ Stopped \/ Restart \/ WriterTakes
    BY <1>2, <2>1 DEF start, stop, Stopped, Restart, WriterTakes, tables
  <2>2. CASE WriterAppends \/ WriterFails
    <3>1. writer \in Events /\ (append_outbox(writer) \/ UNCHANGED outbox) /\ UNCHANGED inserted
      BY <2>2 DEF WriterAppends, WriterFails, AppendFails, TypeOK
    <3> QED
      BY <1>3, <3>1
  <2>3. CASE BarrierReturns \/ BarrierFails
    <3>1. barrier \in Events /\ (append_outbox(barrier) \/ UNCHANGED outbox) /\ UNCHANGED inserted
      BY <2>3 DEF BarrierReturns, BarrierFails, AppendFails, TypeOK
    <3> QED
      BY <1>3, <3>1
  <2>4. CASE \E e \in Events : enqueue(e) \/ BarrierStarts(e) \/ BarrierRefuses(e)
    BY <1>2, <2>4 DEF enqueue, BarrierStarts, BarrierRefuses, tables
  <2> QED
    BY <1>5, <2>1, <2>2, <2>3, <2>4 DEF Manager
<1>6. CASE Dispatch
  <2>1. ASSUME NEW d \in Dispatchers, Claim(d) \/ MarkRetryFails(d) \/ DispatcherDies(d)
        PROVE  UNCHANGED <<outbox, inserted>>
    BY <2>1 DEF Claim, MarkRetryFails, DispatcherDies
  <2>2. ASSUME NEW d \in Dispatchers, Commit(d) \/ DispatchFails(d)
        PROVE  \/ UNCHANGED <<outbox, inserted>>
               \/ \E e \in Events : outbox[e].status = "PENDING" /\ ApplyEvent(e)
    BY <2>2 DEF Commit, DispatchFails, Claims
  <2>3. ASSUME NEW d \in Dispatchers, MarkRetry(d)
        PROVE  outbox' \in [Events -> OutboxRow] /\ SameStatus /\ UNCHANGED inserted
    <3>1. disp[d].event \in Events /\ UNCHANGED inserted
          /\ outbox' = [outbox EXCEPT ![disp[d].event] = Retries(disp[d].event)]
      BY <2>3 DEF MarkRetry, Claims
    <3>2. ASSUME NEW e \in Events
          PROVE  Retries(e) \in OutboxRow /\ Retries(e).status = outbox[e].status
      <4> DEFINE r == outbox[e]
                 u == [r EXCEPT !.attempts = r.attempts + 1, !.due = FALSE]
      <4>1. r \in OutboxRow
        BY <1>1
      <4>2. r.attempts + 1 \in Nat
        BY <4>1 DEF OutboxRow
      <4> HIDE DEF r
      <4>3. u \in OutboxRow /\ u.status = r.status
        BY <4>1, <4>2 DEF OutboxRow
      <4>4. Retries(e) \in {r, u}
        BY DEF Retries, r
      <4> HIDE DEF u
      <4> QED
        BY <4>1, <4>3, <4>4 DEF r
    <3> QED
      BY <1>1, <3>1, <3>2 DEF SameStatus
  <2>4. ASSUME NEW e \in Events, BackoffElapses(e)
        PROVE  outbox' \in [Events -> OutboxRow] /\ SameStatus /\ UNCHANGED inserted
    BY <1>1, <2>4 DEF BackoffElapses, SameStatus, OutboxRow
  <2> QED
    BY <1>2, <1>4, <1>6, <2>1, <2>2, <2>3, <2>4 DEF Dispatch
<1>7. CASE LoadOrders \/ LoadFills \/ UNCHANGED vars
  BY <1>2, <1>7 DEF LoadOrders, LoadFills, vars, tables
<1> QED
  BY <1>5, <1>6, <1>7 DEF Next

-----------------------------------------------------------------------------
(* The invariant.                                                          *)

\* No step applies an event twice or loses a stored one.
LEMMA AppliedOnceStep ==
  ASSUME Inv, [Next]_vars
  PROVE  AppliedOnce' /\ inserted' \in [Events -> Nat] /\ Durable \subseteq Durable'
<1>1. outbox \in [Events -> OutboxRow] /\ inserted \in [Events -> Nat] /\ TypeOK /\ Claims
      /\ AppliedOnce
  BY DEF Inv, TypeOK
<1>2. CASE SameStatus /\ UNCHANGED inserted
  BY <1>1, <1>2 DEF SameStatus, AppliedOnce, Durable
<1>3. ASSUME NEW e \in Events, Recorded(e), UNCHANGED inserted
      PROVE  AppliedOnce' /\ inserted' \in [Events -> Nat] /\ Durable \subseteq Durable'
  BY <1>1, <1>3, Rows DEF Recorded, AppliedOnce, Durable
<1>4. ASSUME NEW e \in Events, outbox[e].status = "PENDING", ApplyEvent(e)
      PROVE  AppliedOnce' /\ inserted' \in [Events -> Nat] /\ Durable \subseteq Durable'
  <2>1. /\ inserted' = [inserted EXCEPT ![e] = inserted[e] + 1]
        /\ outbox' = [outbox EXCEPT ![e] = [outbox[e] EXCEPT !.status = "PROCESSED"]]
    BY <1>4 DEF ApplyEvent
  <2>2. [outbox[e] EXCEPT !.status = "PROCESSED"].status = "PROCESSED"
    BY <1>1 DEF OutboxRow
  <2> QED
    BY <1>1, <1>4, <2>1, <2>2 DEF AppliedOnce, Durable
<1> QED
  BY <1>1, <1>2, <1>3, <1>4, Steps

\* The barrier acknowledges only what is stored, and nothing stored is lost.
LEMMA AckedStep ==
  ASSUME Inv, [Next]_vars
  PROVE  acked' \subseteq Events /\ AckedIsDurable'
<1>1. TypeOK /\ acked \subseteq Durable /\ acked \subseteq Events
  BY DEF Inv, TypeOK, AckedIsDurable
<1>2. Durable \subseteq Durable'
  BY AppliedOnceStep
<1>3. CASE UNCHANGED acked
  BY <1>1, <1>2, <1>3 DEF AckedIsDurable
<1>4. CASE BarrierReturns
  <2>1. barrier \in Events /\ append_outbox(barrier) /\ acked' = acked \cup {barrier}
    BY <1>1, <1>4 DEF BarrierReturns, TypeOK
  <2>2. outbox'[barrier].status # "NONE"
    BY <1>1, <2>1, AppendStep
  <2> QED
    BY <1>1, <1>2, <2>1, <2>2 DEF AckedIsDurable, Durable
<1>5. BarrierReturns \/ UNCHANGED acked
  BY DEF Next, Manager, Dispatch, start, stop, Stopped, Restart, WriterTakes, WriterAppends,
         WriterFails, BarrierFails, enqueue, BarrierStarts, BarrierRefuses, Claim, Commit, DispatchFails,
         MarkRetry, MarkRetryFails, DispatcherDies, BackoffElapses, LoadOrders, LoadFills,
         manager, vars
<1> QED
  BY <1>3, <1>4, <1>5

\* Idle is a dispatcher that holds nothing.
LEMMA IdleDisp ==
  Idle \in [pc : {"idle", "claimed", "failed"}, event : Events \cup {NoEvent}] /\ Idle.pc = "idle"
  BY DEF Idle

\* Dispatchers claim different rows; the commit of one leaves the others'
\* rows pending.
LEMMA ClaimsStep ==
  ASSUME Inv, [Next]_vars
  PROVE  /\ Claims'
         /\ disp' \in [Dispatchers -> [pc : {"idle", "claimed", "failed"},
                                       event : Events \cup {NoEvent}]]
<1> DEFINE Disp == [pc : {"idle", "claimed", "failed"}, event : Events \cup {NoEvent}]
<1>1. TypeOK /\ Claims /\ disp \in [Dispatchers -> Disp] /\ outbox \in [Events -> OutboxRow]
  BY DEF Inv, TypeOK
\* a step that keeps the pending rows pending and lets dispatchers go
<1>2. ASSUME NEW D \in SUBSET Dispatchers,
             disp' = [d \in Dispatchers |-> IF d \in D THEN Idle ELSE disp[d]],
             \A d \in Dispatchers \ D : disp[d].pc = "claimed" =>
               outbox'[disp[d].event].status = "PENDING"
      PROVE  Claims' /\ disp' \in [Dispatchers -> Disp]
  <2>1. disp' \in [Dispatchers -> Disp]
    BY <1>1, <1>2, IdleDisp
  <2> QED
    BY <1>1, <1>2, <2>1, IdleDisp DEF Claims
<1>3. ASSUME UNCHANGED disp, SameStatus \/ \E e \in Events : Recorded(e)
      PROVE  Claims' /\ disp' \in [Dispatchers -> Disp]
  <2>1. ASSUME NEW e \in Events, outbox[e].status = "PENDING"
        PROVE  outbox'[e].status = "PENDING"
    BY <1>1, <1>3, <2>1, Rows DEF SameStatus, Recorded
  <2> QED
    BY <1>1, <1>3, <2>1 DEF Claims
<1>4. CASE Manager
  <2>1. SameStatus \/ \E e \in Events : Recorded(e)
    <3>1. UNCHANGED inserted
      BY <1>4 DEF Manager, start, stop, Stopped, Restart, WriterTakes, WriterAppends,
           WriterFails, BarrierReturns, BarrierFails, enqueue, BarrierStarts, BarrierRefuses, tables
    <3>2. ASSUME NEW e \in Events, ApplyEvent(e) PROVE FALSE
      BY <3>1, <3>2 DEF ApplyEvent, Inv, TypeOK
    <3> QED
      BY <1>1, <3>2, Steps
  <2>2. CASE UNCHANGED disp
    BY <1>3, <2>1, <2>2
  <2>3. CASE UNCHANGED outbox /\ disp' = [disp EXCEPT ![Me] = Idle]
    <3>1. disp' = [d \in Dispatchers |-> IF d \in {Me} THEN Idle ELSE disp[d]]
      BY <1>1, <2>3
    <3>2. \A d \in Dispatchers \ {Me} : disp[d].pc = "claimed" =>
            outbox'[disp[d].event].status = "PENDING"
      BY <1>1, <2>3 DEF Claims
    <3>3. {Me} \in SUBSET Dispatchers
      BY OutboxAssumption
    <3> QED
      BY <1>2, <3>1, <3>2, <3>3
  <2> QED
    BY <1>4, <2>2, <2>3 DEF Manager, start, stop, Stopped, Restart, WriterTakes, WriterAppends,
         WriterFails, BarrierReturns, BarrierFails, enqueue, BarrierStarts, BarrierRefuses, tables
<1>5. ASSUME NEW d \in Dispatchers, Claim(d)
      PROVE  Claims' /\ disp' \in [Dispatchers -> Disp]
  <2>1. UNCHANGED outbox
    BY <1>5 DEF Claim
  <2>2. PICK e \in Due : disp' = [disp EXCEPT ![d] = [pc |-> "claimed", event |-> e]]
    BY <1>5 DEF Claim
  <2>3. e \in Events /\ outbox[e].status = "PENDING"
        /\ \A c \in Dispatchers : disp[c].pc = "claimed" => disp[c].event # e
    BY <2>2 DEF Due, Locked
  <2>4. disp' \in [Dispatchers -> Disp]
    BY <1>1, <2>2, <2>3
  <2> QED
    BY <1>1, <2>1, <2>2, <2>3, <2>4 DEF Claims
<1>6. ASSUME NEW d \in Dispatchers, MarkRetryFails(d) \/ DispatcherDies(d) \/ MarkRetry(d)
      PROVE  Claims' /\ disp' \in [Dispatchers -> Disp]
  <2>1. disp' = [c \in Dispatchers |-> IF c \in {d} THEN Idle ELSE disp[c]] /\ UNCHANGED inserted
    BY <1>1, <1>6 DEF MarkRetryFails, DispatcherDies, MarkRetry
  <2>2. SameStatus \/ \E e \in Events : Recorded(e)
    <3>1. ASSUME NEW e \in Events, ApplyEvent(e) PROVE FALSE
      BY <2>1, <3>1 DEF ApplyEvent, Inv, TypeOK
    <3> QED
      BY <1>1, <3>1, Steps
  <2>3. ASSUME NEW e \in Events, outbox[e].status = "PENDING"
        PROVE  outbox'[e].status = "PENDING"
    BY <1>1, <2>2, <2>3, Rows DEF SameStatus, Recorded
  <2>4. \A c \in Dispatchers \ {d} : disp[c].pc = "claimed" =>
          outbox'[disp[c].event].status = "PENDING"
    BY <1>1, <2>3 DEF Claims
  <2>5. {d} \in SUBSET Dispatchers
    OBVIOUS
  <2> HIDE DEF Disp
  <2> QED
    BY <1>2, <2>1, <2>4, <2>5
<1>7. ASSUME NEW d \in Dispatchers, Commit(d) \/ DispatchFails(d)
      PROVE  Claims' /\ disp' \in [Dispatchers -> Disp]
  <2> DEFINE e == disp[d].event
  <2>1. /\ disp[d].pc = "claimed" /\ e \in Events
        /\ \/ outbox' = [outbox EXCEPT ![e].status = "PROCESSED"] \/ UNCHANGED outbox
        /\ disp' \in {[disp EXCEPT ![d] = Idle], [disp EXCEPT ![d].pc = "failed"]}
    BY <1>1, <1>7 DEF Commit, DispatchFails, ApplyEvent, Claims
  <2>2. \A c \in Dispatchers \ {d} : disp[c].pc = "claimed" =>
          outbox'[disp[c].event].status = "PENDING"
    <3> SUFFICES ASSUME NEW c \in Dispatchers \ {d}, disp[c].pc = "claimed"
                 PROVE  outbox'[disp[c].event].status = "PENDING"
      OBVIOUS
    <3>1. disp[c].event \in Events /\ disp[c].event # e
          /\ outbox[disp[c].event].status = "PENDING"
      BY <1>1, <2>1 DEF Claims
    <3>2. outbox'[disp[c].event] = outbox[disp[c].event]
      BY <1>1, <2>1, <3>1
    <3> QED
      BY <3>1, <3>2
  <2>3. disp' \in [Dispatchers -> Disp]
    BY <1>1, <2>1, IdleDisp
  <2>4. /\ \A c \in Dispatchers \ {d} : disp'[c] = disp[c]
        /\ disp'[d].pc # "claimed"
        /\ disp'[d].pc # "idle" => disp'[d].event = e
    BY <1>1, <2>1, IdleDisp
  <2> HIDE DEF e
  <2> QED
    BY <1>1, <2>1, <2>2, <2>3, <2>4 DEF Claims
<1>8. CASE \/ \E e \in Events : BackoffElapses(e)
           \/ LoadOrders \/ LoadFills \/ UNCHANGED vars
  <2>1. UNCHANGED <<disp, inserted>>
    BY <1>8 DEF BackoffElapses, LoadOrders, LoadFills, vars, tables
  <2>2. ASSUME NEW e \in Events, ApplyEvent(e) PROVE FALSE
    BY <2>1, <2>2 DEF ApplyEvent, Inv, TypeOK
  <2> QED
    BY <1>1, <1>3, <2>1, <2>2, Steps
<1> QED
  BY <1>4, <1>5, <1>6, <1>7, <1>8 DEF Next, Dispatch

\* What the tables have only grows, and a fill comes after its order.
LEMMA TablesStep ==
  ASSUME Inv, [Next]_vars
  PROVE  OrderRows \subseteq OrderRows' /\ Lineage(OrderRows, FillRows)'
<1>1. outbox \in [Events -> OutboxRow] /\ TypeOK /\ Claims /\ Lineage(OrderRows, FillRows)
  BY DEF Inv, TypeOK, LedgerOK
<1>2. CASE Applied' = Applied
  <2>1. OrderRows' = OrderRows /\ FillRows' = FillRows
    BY <1>2 DEF OrderRows, FillRows, OrderEvents
  <2> QED
    BY <1>1, <2>1 DEF Lineage
<1>3. ASSUME SameStatus \/ \E e \in Events : Recorded(e) PROVE Applied' = Applied
  <2>1. CASE SameStatus
    BY <2>1 DEF SameStatus, Applied
  <2>2. ASSUME NEW e \in Events, Recorded(e) PROVE Applied' = Applied
    BY <1>1, <2>2, Rows DEF Recorded, Applied
  <2> QED
    BY <1>3, <2>1, <2>2
<1>4. ASSUME NEW e \in Events, ApplyEvent(e)
      PROVE  OrderRows \subseteq OrderRows' /\ Lineage(OrderRows, FillRows)'
  <2>1. /\ outbox' = [outbox EXCEPT ![e] = [outbox[e] EXCEPT !.status = "PROCESSED"]]
        /\ EventType[e] = "FILL" => OrderOf[e] \in OrderRows
    BY <1>4 DEF ApplyEvent, Saves
  <2>2. [outbox[e] EXCEPT !.status = "PROCESSED"].status = "PROCESSED"
    BY <1>1 DEF OutboxRow
  <2>3. Applied' = Applied \cup {e}
    BY <1>1, <2>1, <2>2 DEF Applied
  <2>4. OrderRows \subseteq OrderRows' /\ FillRows' \subseteq FillRows \cup {e}
        /\ (e \in FillRows' => EventType[e] = "FILL")
    BY <2>3 DEF OrderRows, FillRows, OrderEvents
  <2> QED
    BY <1>1, <2>1, <2>4 DEF Lineage
<1> QED
  BY <1>1, <1>2, <1>3, <1>4, Steps

\* A load that is refused has missed an order.
LEMMA LedgerStep ==
  ASSUME Inv, [Next]_vars
  PROVE  /\ LedgerOK'
         /\ ledger' \in [pc : {"none", "orders", "refused"}, orders : SUBSET Orders]
<1> DEFINE L == [pc : {"none", "orders", "refused"}, orders : SUBSET Orders]
<1>1. /\ ledger \in L /\ ledger.orders \subseteq OrderRows /\ RefusedOnlyWhenTorn
      /\ Lineage(OrderRows, FillRows)
  BY DEF Inv, TypeOK, LedgerOK
<1>2. OrderRows \subseteq OrderRows' /\ Lineage(OrderRows, FillRows)'
  BY TablesStep
<1>3. CASE UNCHANGED ledger
  BY <1>1, <1>2, <1>3 DEF LedgerOK, RefusedOnlyWhenTorn
<1>4. CASE ledger' = NoLedger
  BY <1>2, <1>4 DEF LedgerOK, RefusedOnlyWhenTorn, NoLedger
<1>5. CASE LoadOrders
  <2>1. OrderRows \subseteq Orders
    BY OutboxAssumption DEF OrderRows, Applied, OrderEvents
  <2>2. ledger' = [pc |-> "orders", orders |-> OrderRows]
    BY <1>5 DEF LoadOrders
  <2> QED
    BY <1>2, <2>1, <2>2 DEF LedgerOK, RefusedOnlyWhenTorn
<1>6. CASE LoadFills
  <2>1. CASE ledger' = [ledger EXCEPT !.pc = "refused"] /\ ~Lineage(ledger.orders, FillRows)
    <3>1. ledger' \in L /\ ledger'.orders = ledger.orders
      BY <1>1, <2>1
    <3>2. OrderRows \ ledger.orders # {}
      BY <1>1, <2>1 DEF Lineage
    <3> QED
      BY <1>1, <1>2, <3>1, <3>2 DEF LedgerOK, RefusedOnlyWhenTorn
  <2> QED
    BY <1>4, <1>6, <2>1 DEF LoadFills
<1>7. UNCHANGED ledger \/ ledger' = NoLedger \/ LoadOrders \/ LoadFills
  BY DEF Next, Manager, Dispatch, start, stop, Stopped, Restart, WriterTakes, WriterAppends,
         WriterFails, BarrierReturns, BarrierFails, enqueue, BarrierStarts, BarrierRefuses, Claim,
         Commit, DispatchFails, MarkRetry, MarkRetryFails, DispatcherDies, BackoffElapses, vars
<1> QED
  BY <1>3, <1>4, <1>5, <1>6, <1>7

\* The manager's own state keeps its type, and the queue its capacity.
LEMMA ManagerStep ==
  ASSUME Inv, [Next]_vars
  PROVE  /\ life' \in {"new", "running", "stopping", "stopped", "failed"}
         /\ queue' \in Seq(Events) /\ Len(queue') <= Capacity
         /\ writer' \in Events \cup {NoEvent} /\ barrier' \in Events \cup {NoEvent}
         /\ unflushed' \in Nat /\ dropped' \in Nat /\ reported' \subseteq Events
<1> DEFINE G == /\ life' \in {"new", "running", "stopping", "stopped", "failed"}
                /\ queue' \in Seq(Events) /\ Len(queue') <= Capacity
                /\ writer' \in Events \cup {NoEvent} /\ barrier' \in Events \cup {NoEvent}
                /\ unflushed' \in Nat /\ dropped' \in Nat /\ reported' \subseteq Events
<1> USE DEF status
<1>1. TypeOK
  BY DEF Inv
<1>2. CASE UNCHANGED manager
  BY <1>1, <1>2 DEF manager, TypeOK
<1>3. CASE start \/ stop \/ WriterAppends \/ WriterFails \/ BarrierReturns \/ BarrierFails
  BY <1>1, <1>3 DEF start, stop, WriterAppends, WriterFails, BarrierReturns, BarrierFails, TypeOK
<1>4. CASE Restart
  BY <1>4, OutboxAssumption DEF Restart
<1>5. CASE Stopped
  <2>1. Len(queue) \in Nat
    BY <1>1 DEF TypeOK
  <2>2. Unflushed \in Nat
    BY <2>1 DEF Unflushed
  <2> QED
    BY <1>1, <1>5, <2>2 DEF Stopped, TypeOK
<1>6. CASE WriterTakes
  <2>1. /\ Head(queue) \in Events /\ Tail(queue) \in Seq(Events)
        /\ Len(Tail(queue)) = Len(queue) - 1 /\ Len(queue) \in Nat
    BY <1>1, <1>6 DEF WriterTakes, TypeOK
  <2>2. Len(Tail(queue)) <= Capacity
    BY <1>1, <2>1, OutboxAssumption DEF TypeOK
  <2> QED
    BY <1>1, <1>6, <2>1, <2>2 DEF WriterTakes, TypeOK
<1>7. ASSUME NEW e \in Events, enqueue(e) \/ BarrierStarts(e) \/ BarrierRefuses(e) PROVE G
  <2>1. CASE enqueue(e) /\ UNCHANGED dropped
    <3>1. Append(queue, e) \in Seq(Events) /\ Len(Append(queue, e)) = Len(queue) + 1
      BY <1>1 DEF TypeOK
    <3>2. queue' = Append(queue, e) /\ HasRoom
      BY <1>1, <2>1 DEF enqueue, Drop, TypeOK
    <3>3. Len(queue) + 1 <= Capacity
      BY <1>1, <3>2, OutboxAssumption DEF HasRoom, TypeOK
    <3> QED
      BY <1>1, <2>1, <3>1, <3>2, <3>3 DEF enqueue, TypeOK
  <2>2. CASE BarrierStarts(e)
    BY <1>1, <2>2 DEF BarrierStarts, TypeOK
  <2>3. CASE BarrierRefuses(e) \/ (enqueue(e) /\ Drop /\ UNCHANGED queue)
    BY <1>1, <2>3 DEF BarrierRefuses, enqueue, Drop, TypeOK
  <2>4. enqueue(e) => UNCHANGED dropped \/ (Drop /\ UNCHANGED queue)
    BY DEF enqueue
  <2> QED
    BY <1>7, <2>1, <2>2, <2>3, <2>4
<1>8. \/ Manager \/ UNCHANGED manager
  BY DEF Next, Dispatch, Claim, Commit, DispatchFails, MarkRetry, MarkRetryFails, DispatcherDies,
         BackoffElapses, LoadOrders, LoadFills, vars
<1> QED
  BY <1>2, <1>3, <1>4, <1>5, <1>6, <1>7, <1>8 DEF Manager

\* What leaves the memory is stored or counted, and so is what never enters it.
LEMMA CountedStep ==
  ASSUME Inv, [Next]_vars
  PROVE  Counted'
<1> USE DEF status, manager
<1>1. /\ TypeOK /\ TypeOK' /\ IsFiniteSet(reported) /\ Durable \subseteq Durable'
      /\ Cardinality(Lost) <= dropped + unflushed
  <2>1. outbox' \in [Events -> OutboxRow]
    BY Steps DEF Inv
  <2> QED
    BY <2>1, ManagerStep, ClaimsStep, AckedStep, AppliedOnceStep, LedgerStep
    DEF Inv, TypeOK, Counted, NothingSilentlyLost
<1>2. /\ dropped \in Nat /\ unflushed \in Nat /\ dropped' \in Nat /\ unflushed' \in Nat
      /\ queue \in Seq(Events) /\ queue' \in Seq(Events)
      /\ writer \in Events \cup {NoEvent} /\ reported \subseteq Events
  BY <1>1 DEF TypeOK
<1>sum. dropped + unflushed \in Nat /\ dropped' + unflushed' \in Nat
  <2>1. dropped \in Nat /\ unflushed \in Nat /\ dropped' \in Nat /\ unflushed' \in Nat
    BY <1>2
  <2>2. \A m, n \in Nat : m + n \in Nat
    OBVIOUS
  <2> QED
    BY <2>1, <2>2, Zenon
<1>3. IsFiniteSet(Lost) /\ Cardinality(Lost) \in Nat
  BY <1>1, FS_Subset, FS_CardinalityType DEF Lost
\* a step after which no more is lost
<1>4. ASSUME reported' \subseteq reported \cup Held', IsFiniteSet(reported'),
             Held \subseteq Held' \cup Durable',
             dropped <= dropped', unflushed <= unflushed'
      PROVE  Counted'
  <2>1. Lost' \subseteq Lost
    BY <1>1, <1>4 DEF Lost
  <2>2. Cardinality(Lost') \in Nat /\ Cardinality(Lost') <= Cardinality(Lost)
    BY <1>3, <2>1, FS_Subset, FS_CardinalityType
  <2> QED
    BY <1>1, <1>2, <1>3, <1>4, <2>2 DEF Counted, NothingSilentlyLost
\* a step that loses one event, and counts it
<1>5. ASSUME NEW x, reported' \subseteq reported \cup {x}, IsFiniteSet(reported'),
             Held \ {x} \subseteq Held' \cup Durable',
             dropped + unflushed + 1 <= dropped' + unflushed'
      PROVE  Counted'
  <2>1. Lost' \subseteq Lost \cup {x}
    BY <1>1, <1>5 DEF Lost
  <2>2. /\ IsFiniteSet(Lost \cup {x})
        /\ Cardinality(Lost \cup {x}) \in Nat
        /\ Cardinality(Lost \cup {x}) <= Cardinality(Lost) + 1
    <3>1. CASE x \in Lost
      <4>1. Lost \cup {x} = Lost
        BY <3>1
      <4> QED
        BY <1>3, <4>1
    <3>2. CASE x \notin Lost
      <4>1. IsFiniteSet(Lost \cup {x}) /\ Cardinality(Lost \cup {x}) = Cardinality(Lost) + 1
        BY <1>3, <3>2, FS_AddElement
      <4> QED
        BY <1>3, <4>1
    <3> QED
      BY <3>1, <3>2
  <2>3. Cardinality(Lost') \in Nat /\ Cardinality(Lost') <= Cardinality(Lost \cup {x})
    BY <2>1, <2>2, FS_Subset, FS_CardinalityType
  <2>4. \A a, b, c, m, n \in Nat : a <= b /\ b <= c + 1 /\ c <= m /\ m + 1 <= n => a <= n
    OBVIOUS
  <2>5. Cardinality(Lost') <= dropped' + unflushed'
    BY <1>1, <1>3, <1>sum, <1>5, <2>2, <2>3, <2>4
  <2> QED
    BY <1>5, <2>5 DEF Counted, NothingSilentlyLost
<1>6. CASE UNCHANGED <<queue, writer, unflushed, dropped, reported>>
  BY <1>1, <1>2, <1>4, <1>6 DEF Held
<1>7. CASE WriterAppends
  <2>1. writer \in Events /\ append_outbox(writer) /\ UNCHANGED <<queue, unflushed, dropped, reported>>
    BY <1>2, <1>7 DEF WriterAppends
  <2>2. writer \in Durable'
    BY <1>1, <2>1, AppendStep DEF Durable
  <2>3. Held \subseteq Held' \cup Durable'
    BY <2>1, <2>2 DEF Held
  <2> QED
    BY <1>1, <1>2, <1>4, <2>1, <2>3
<1>8. CASE WriterTakes
  <2>1. writer' = Head(queue) /\ queue' = Tail(queue) /\ queue # <<>> /\ writer = NoEvent
        /\ UNCHANGED <<unflushed, dropped, reported>>
    BY <1>8 DEF WriterTakes
  <2>2. Head(queue) \in Events /\ Head(queue) # NoEvent
    BY <1>2, <2>1, OutboxAssumption
  <2>3. ASSUME NEW k \in DOMAIN queue PROVE queue[k] \in Held'
    <3>1. CASE k = 1
      BY <1>2, <2>1, <2>2, <3>1 DEF Held
    <3>2. CASE k # 1
      <4>1. k - 1 \in DOMAIN Tail(queue) /\ Tail(queue)[k - 1] = queue[k]
        BY <1>2, <2>1, <3>2
      <4> QED
        BY <2>1, <4>1 DEF Held
    <3> QED
      BY <3>1, <3>2
  <2>4. Held \subseteq Held'
    BY <2>1, <2>3 DEF Held
  <2> QED
    BY <1>1, <1>2, <1>4, <2>1, <2>4
<1>9. CASE Restart
  <2>1. reported' = {} /\ dropped' = 0 /\ unflushed' = 0
    BY <1>9 DEF Restart
  <2>2. Lost' = {}
    BY <2>1 DEF Lost
  <2> QED
    BY <2>1, <2>2, FS_EmptySet DEF Counted, NothingSilentlyLost
<1>10. CASE Stopped
  <2>1. /\ unflushed' = unflushed + Unflushed /\ writer' = NoEvent
        /\ UNCHANGED <<queue, dropped, reported>>
    BY <1>10 DEF Stopped
  <2>2. CASE writer = NoEvent
    <3>1. Unflushed \in Nat
      BY <1>2, <2>2 DEF Unflushed
    <3> QED
      BY <1>1, <1>2, <1>4, <2>1, <2>2, <3>1 DEF Held
  <2>3. CASE writer # NoEvent
    <3>1. Unflushed \in Nat /\ Unflushed >= 1
      BY <1>2, <2>3 DEF Unflushed
    <3>2. Held \ {writer} \subseteq Held'
      BY <2>1 DEF Held
    <3> QED
      BY <1>1, <1>2, <1>5, <2>1, <3>1, <3>2
  <2> QED
    BY <2>2, <2>3
<1>11. ASSUME NEW e \in Events, enqueue(e) PROVE Counted'
  <2>1. reported' = reported \cup {e} /\ UNCHANGED <<writer, unflushed>>
    BY <1>11 DEF enqueue
  <2>2. IsFiniteSet(reported')
    BY <1>1, <2>1, FS_AddElement
  <2>3. CASE queue' = Append(queue, e) /\ UNCHANGED dropped
    <3>1. /\ \A k \in DOMAIN queue : k \in DOMAIN queue' /\ queue'[k] = queue[k]
          /\ Len(queue) + 1 \in DOMAIN queue' /\ queue'[Len(queue) + 1] = e
      BY <1>2, <2>3
    <3>2. Held \subseteq Held' /\ e \in Held'
      BY <2>1, <3>1 DEF Held
    <3> QED
      BY <1>2, <1>4, <2>1, <2>2, <2>3, <3>2
  <2>4. CASE UNCHANGED queue /\ dropped' = dropped + 1
    <3>1. Held' = Held
      BY <2>1, <2>4 DEF Held
    <3>2. dropped + unflushed + 1 <= dropped' + unflushed'
      BY <1>2, <2>1, <2>4
    <3> QED
      BY <1>5, <2>1, <2>2, <3>1, <3>2
  <2> QED
    BY <1>11, <2>3, <2>4 DEF enqueue, Drop
<1>12. ASSUME NEW e \in Events, BarrierRefuses(e) PROVE Counted'
  BY <1>1, <1>2, <1>4, <1>12 DEF BarrierRefuses, Drop, Held
<1> QED
  BY <1>6, <1>7, <1>8, <1>9, <1>10, <1>11, <1>12
  DEF Next, Manager, Dispatch, start, stop, WriterFails, BarrierReturns, BarrierFails,
      BarrierStarts, Claim, Commit, DispatchFails, MarkRetry, MarkRetryFails, DispatcherDies,
      BackoffElapses, LoadOrders, LoadFills, vars

\* Every step keeps the invariant.
LEMMA NextInv == Inv /\ [Next]_vars => Inv'
<1> SUFFICES ASSUME Inv, [Next]_vars PROVE Inv'
  OBVIOUS
<1>1. outbox' \in [Events -> OutboxRow]
  BY Steps DEF Inv
<1>2. TypeOK'
  BY <1>1, ManagerStep, ClaimsStep, AckedStep, AppliedOnceStep, LedgerStep DEF TypeOK
<1> QED
  BY <1>2, ClaimsStep, AckedStep, AppliedOnceStep, LedgerStep, CountedStep DEF Inv

\* The inductive invariant: Outbox's safety properties, and what a dispatcher
\* may hold.
THEOREM OutboxInvariant == Spec => []Inv
  BY InitInv, NextInv, PTL DEF Spec

\* The manager, the tables and the ledger keep their types, the queue its
\* capacity.
THEOREM OutboxTypes == Spec => []TypeOK
<1>1. Inv => TypeOK
  BY DEF Inv
<1> QED
  BY <1>1, OutboxInvariant, PTL

\* ensure_order_durable: what it returned True for is in the outbox for good.
THEOREM OutboxAcked == Spec => []AckedIsDurable
<1>1. Inv => AckedIsDurable
  BY DEF Inv
<1> QED
  BY <1>1, OutboxInvariant, PTL

\* dispatch_one: however many dispatchers overlap, die and retry, the tables
\* have every processed event once, and no other.
THEOREM OutboxAppliedOnce == Spec => []AppliedOnce
<1>1. Inv => AppliedOnce
  BY DEF Inv
<1> QED
  BY <1>1, OutboxInvariant, PTL

\* PostgresExecutionLedger.load and dispatch_one: a load is refused for its
\* lineage only when an order was stored between its SELECTs.
THEOREM OutboxRefusals == Spec => []RefusedOnlyWhenTorn
<1>1. Inv => RefusedOnlyWhenTorn
  BY DEF Inv, LedgerOK
<1> QED
  BY <1>1, OutboxInvariant, PTL

\* Outbox implements DurableLog: a row appears once, is processed once, and
\* neither is undone.
THEOREM OutboxRefines == Spec => ImplementsDurableLog
<1>1. Init => Log!Init
  BY Rows DEF Init, Log!Init, Durable, Applied
<1>2. Inv /\ [Next]_vars => [Log!Next]_(Log!vars)
  <2> SUFFICES ASSUME Inv, [Next]_vars PROVE [Log!Next]_(Log!vars)
    OBVIOUS
  <2>1. outbox \in [Events -> OutboxRow] /\ TypeOK /\ Claims
    BY DEF Inv, TypeOK
  <2>2. CASE SameStatus
    BY <2>1, <2>2 DEF SameStatus, Durable, Applied, Log!vars
  <2>3. ASSUME NEW e \in Events, Recorded(e) PROVE Log!Record(e)
    BY <2>1, <2>3, Rows DEF Recorded, Log!Record, Durable, Applied
  <2>4. ASSUME NEW e \in Events, outbox[e].status = "PENDING", ApplyEvent(e) PROVE Log!Apply(e)
    <3>1. outbox' = [outbox EXCEPT ![e] = [outbox[e] EXCEPT !.status = "PROCESSED"]]
      BY <2>4 DEF ApplyEvent
    <3>2. [outbox[e] EXCEPT !.status = "PROCESSED"].status = "PROCESSED"
      BY <2>1 DEF OutboxRow
    <3> QED
      BY <2>1, <2>4, <3>1, <3>2 DEF Log!Apply, Durable, Applied
  <2> QED
    BY <2>1, <2>2, <2>3, <2>4, Steps DEF Log!Next
<1> QED
  BY <1>1, <1>2, OutboxInvariant, PTL DEF Spec, ImplementsDurableLog, Log!Spec

\* _enqueue_event, _outbox_writer and stop: whatever a process was handed and
\* has neither in memory nor in the outbox is counted.
THEOREM OutboxLosesNothing == Spec => []NothingSilentlyLost
<1>1. Inv => NothingSilentlyLost
  BY DEF Inv, Counted
<1> QED
  BY <1>1, OutboxInvariant, PTL
=============================================================================
