------------------------------- MODULE Outbox -------------------------------
(***************************************************************************)
(* The persistence boundary of the trading worker: PersistenceManager with *)
(* its bounded write queue, the barrier an order waits for, the            *)
(* persistence_outbox table, the dispatchers of overlapping worker         *)
(* revisions that replay it into the domain tables, and the ledger a       *)
(* restarted worker loads from those tables.                               *)
(*                                                                         *)
(* A statement or a transaction of the database is one action; whether the *)
(* answer to an INSERT is lost is a choice.                                *)
(***************************************************************************)
EXTENDS Integers, Sequences, FiniteSets

CONSTANTS
  Events,       \* observations, by (event_type, idempotency_key)
  EventType,    \* Events -> {"ORDER", "FILL", "POSITION", "RISK_SNAPSHOT"}
  OrderOf,      \* Events -> Orders: the order an ORDER or a FILL is about
  Rank,         \* Events -> Nat: the position by (created_at, event_id)
  Tradable,     \* the events whose instrument rules _ensure_instrument accepts
  Orders,
  Dispatchers,  \* one per worker revision
  Me,           \* the dispatcher of the process modelled in full
  Capacity,     \* PERSISTENCE_QUEUE_CAPACITY
  MaxExponent,  \* the largest n for which POWER(2, n) is in range (1023)
  MaxDropped,   \* bound: observations turned away by one process
  NoEvent

ASSUME OutboxAssumption ==
  /\ EventType \in [Events -> {"ORDER", "FILL", "POSITION", "RISK_SNAPSHOT"}]
  /\ OrderOf \in [Events -> Orders]
  /\ Rank \in [Events -> Nat]
  /\ \A e, f \in Events : Rank[e] = Rank[f] => e = f
  /\ Tradable \subseteq Events
  /\ Me \in Dispatchers
  /\ Capacity \in Nat \ {0}
  /\ MaxExponent \in Nat /\ MaxDropped \in Nat
  /\ NoEvent \notin Events

VARIABLES
  life,      \* the manager: new, running, stopping, stopped, failed
  queue,     \* _write_queue
  writer,    \* _inflight of _outbox_writer
  barrier,   \* the order ensure_order_durable is appending
  unflushed, \* _unflushed_writes
  dropped,   \* _dropped_writes
  reported,  \* the observations this process has handed to enqueue_*
  outbox,    \* the persistence_outbox rows
  disp,      \* the dispatch_one each dispatcher is in
  inserted,  \* how often an event was applied to the domain tables
  ledger,    \* the PostgresExecutionLedger being loaded
  acked      \* orders ensure_order_durable returned True for, ever

status == <<unflushed, dropped, reported>>
manager == <<life, queue, writer, barrier, status, acked>>
tables == <<outbox, disp, inserted>>
vars == <<manager, tables, ledger>>

\* persistence_outbox: status NONE is a row that does not exist.  PROCESSING
\* is only ever seen inside the transaction that set it.
OutboxRow == [status : {"NONE", "PENDING", "PROCESSED"}, attempts : Nat, due : BOOLEAN]
NoRow == [status |-> "NONE", attempts |-> 0, due |-> FALSE]

Idle == [pc |-> "idle", event |-> NoEvent]
NoLedger == [pc |-> "none", orders |-> {}]

Init ==
  /\ life = "new"
  /\ queue = <<>> /\ writer = NoEvent /\ barrier = NoEvent
  /\ unflushed = 0 /\ dropped = 0 /\ reported = {} /\ acked = {}
  /\ outbox = [e \in Events |-> NoRow]
  /\ disp = [d \in Dispatchers |-> Idle]
  /\ inserted = [e \in Events |-> 0]
  /\ ledger = NoLedger

Durable == {e \in Events : outbox[e].status # "NONE"}
Applied == {e \in Events : outbox[e].status = "PROCESSED"}
Connected == life \in {"running", "stopping"}

-----------------------------------------------------------------------------
(* PersistenceManager.                                                     *)

\* start: connect and run the tasks, or fail.
start ==
  /\ life = "new"
  /\ life' \in {"running", "failed"}
  /\ UNCHANGED <<queue, writer, barrier, status, acked, tables, ledger>>

\* Seeded fault: one event more than the queue holds.
HasRoomForOneMore == Len(queue) <= Capacity

HasRoom == Len(queue) < Capacity

\* What is turned away is counted.
Drop ==
  /\ dropped < MaxDropped
  /\ dropped' = dropped + 1

\* _enqueue_event: an observation is queued, or turned away by a manager that
\* is not connected or not accepting, or by a full queue.  Its key holds the
\* observation's time or trade, so that a process hands it over once; the
\* barrier and other processes append it again.
enqueue(e) ==
  /\ e \notin reported /\ reported' = reported \cup {e}
  /\ \/ /\ life = "running" /\ HasRoom
        /\ queue' = Append(queue, e)
        /\ UNCHANGED dropped
     \/ /\ life # "running" \/ ~HasRoom
        /\ Drop
        /\ UNCHANGED queue
  /\ UNCHANGED <<life, writer, barrier, unflushed, acked, tables, ledger>>

\* Seeded fault: ON CONFLICT DO UPDATE makes an applied row pending again.
append_upserts(e) ==
  outbox' = [outbox EXCEPT ![e] = [status |-> "PENDING", attempts |-> 0, due |-> TRUE]]

\* append_outbox: ON CONFLICT DO NOTHING.
append_outbox(e) ==
  outbox' = IF outbox[e].status # "NONE" THEN outbox
            ELSE [outbox EXCEPT ![e] = [status |-> "PENDING", attempts |-> 0, due |-> TRUE]]

\* A failed attempt of _append_with_retry: the row may be there all the same.
AppendFails(e) == append_outbox(e) \/ UNCHANGED outbox

\* _outbox_writer: take one event, append it until that succeeds.
WriterTakes ==
  /\ Connected /\ writer = NoEvent /\ queue # <<>>
  /\ writer' = Head(queue) /\ queue' = Tail(queue)
  /\ UNCHANGED <<life, barrier, status, acked, tables, ledger>>

WriterAppends ==
  /\ Connected /\ writer # NoEvent
  /\ append_outbox(writer) /\ writer' = NoEvent
  /\ UNCHANGED <<life, queue, barrier, status, acked, disp, inserted, ledger>>

WriterFails ==
  /\ Connected /\ writer # NoEvent
  /\ AppendFails(writer)
  /\ UNCHANGED <<life, queue, writer, barrier, status, acked, disp, inserted, ledger>>

\* The events _order_event builds.
OrderEvents == {e \in Events : EventType[e] = "ORDER"}

\* ensure_order_durable: the order bypasses the queue.
BarrierStarts(e) ==
  /\ life = "running" /\ barrier = NoEvent
  /\ e \in OrderEvents
  /\ barrier' = e
  /\ UNCHANGED <<life, queue, writer, status, acked, tables, ledger>>

BarrierRefuses(e) ==
  /\ life # "running" /\ e \in OrderEvents
  /\ Drop
  /\ UNCHANGED <<life, queue, writer, barrier, unflushed, reported, acked, tables, ledger>>

\* Seeded fault: the acknowledgement does not wait for the INSERT.
BarrierAssumes ==
  /\ barrier # NoEvent
  /\ acked' = acked \cup {barrier} /\ barrier' = NoEvent
  /\ UNCHANGED <<life, queue, writer, status, tables, ledger>>

BarrierReturns ==
  /\ Connected /\ barrier # NoEvent
  /\ append_outbox(barrier)
  /\ acked' = acked \cup {barrier} /\ barrier' = NoEvent
  /\ UNCHANGED <<life, queue, writer, status, disp, inserted, ledger>>

\* A failed attempt, retried until pre_submission_timeout gives the order up.
BarrierFails ==
  /\ barrier # NoEvent
  /\ IF Connected THEN AppendFails(barrier) ELSE UNCHANGED outbox
  /\ barrier' \in {barrier, NoEvent}
  /\ UNCHANGED <<life, queue, writer, status, acked, disp, inserted, ledger>>

\* stop: the queue drains until the tasks are done or cancelled at the deadline.
stop ==
  /\ life = "running"
  /\ life' = "stopping"
  /\ UNCHANGED <<queue, writer, barrier, status, acked, tables, ledger>>

\* Seeded fault: the event the cancelled writer held is not counted.
Uncounted == Len(queue)

Unflushed == Len(queue) + (IF writer = NoEvent THEN 0 ELSE 1)

Stopped ==
  /\ life = "stopping"
  /\ life' = "stopped"
  /\ unflushed' = unflushed + Unflushed
  /\ writer' = NoEvent
  /\ disp' = [disp EXCEPT ![Me] = Idle]
  /\ UNCHANGED <<queue, barrier, dropped, reported, acked, outbox, inserted, ledger>>

\* The process ends, by itself or not, and a new one starts with nothing.
Restart ==
  /\ life # "new"
  /\ life' = "new"
  /\ queue' = <<>> /\ writer' = NoEvent /\ barrier' = NoEvent
  /\ unflushed' = 0 /\ dropped' = 0 /\ reported' = {} /\ UNCHANGED acked
  /\ disp' = [disp EXCEPT ![Me] = Idle]
  /\ ledger' = NoLedger
  /\ UNCHANGED <<outbox, inserted>>

-----------------------------------------------------------------------------
(* PersistenceRepository: the dispatchers.                                 *)

Locked == {disp[d].event : d \in {x \in Dispatchers : disp[x].pc = "claimed"}}
Due == {e \in Events : outbox[e].status = "PENDING" /\ outbox[e].due} \ Locked
Runs(d) == d = Me => Connected

\* dispatch_one claims the first due row that nobody has locked.
Claim(d) ==
  /\ Runs(d) /\ disp[d].pc = "idle"
  /\ \E e \in Due :
       /\ \A f \in Due : Rank[e] <= Rank[f]
       /\ disp' = [disp EXCEPT ![d] = [pc |-> "claimed", event |-> e]]
  /\ UNCHANGED <<manager, outbox, inserted, ledger>>

\* The orders save_order has stored.
OrderRows == {OrderOf[e] : e \in Applied \cap OrderEvents}

\* _ensure_instrument has rules to store; a risk snapshot needs none.
RulesUsable(e) == EventType[e] = "RISK_SNAPSHOT" \/ e \in Tradable

\* Seeded fault: fills no longer refer to orders.
SavesAny(e) == RulesUsable(e)

\* The save of the event can succeed: a fill refers to an existing order.
Saves(e) == RulesUsable(e) /\ (EventType[e] = "FILL" => OrderOf[e] \in OrderRows)

\* _apply_event, and the row PROCESSED in the same transaction.
ApplyEvent(e) ==
  /\ Saves(e)
  /\ inserted' = [inserted EXCEPT ![e] = @ + 1]
  /\ outbox' = [outbox EXCEPT ![e].status = "PROCESSED"]

Commit(d) ==
  /\ disp[d].pc = "claimed" /\ ApplyEvent(disp[d].event)
  /\ disp' = [disp EXCEPT ![d] = Idle]
  /\ UNCHANGED <<manager, ledger>>

\* It fails, and is rolled back or only its answer was lost; the dispatcher
\* goes on to _mark_retry.
DispatchFails(d) ==
  /\ disp[d].pc = "claimed"
  /\ ApplyEvent(disp[d].event) \/ UNCHANGED <<inserted, outbox>>
  /\ disp' = [disp EXCEPT ![d].pc = "failed"]
  /\ UNCHANGED <<manager, ledger>>

\* Seeded fault: _mark_retry does not ask whether the row is still PENDING.
RetriesAny(e) == [outbox[e] EXCEPT !.status = "PENDING", !.attempts = @ + 1, !.due = FALSE]

Retries(e) ==
  IF outbox[e].status = "PENDING"
  THEN [outbox[e] EXCEPT !.attempts = @ + 1, !.due = FALSE] ELSE outbox[e]

\* _mark_retry: back off by POWER(2, attempt_count) seconds, 300 at most.  The
\* statement fails if the power is out of range, or with the connection.
InRange(e) == outbox[e].status = "PENDING" => outbox[e].attempts <= MaxExponent

MarkRetry(d) ==
  /\ disp[d].pc = "failed" /\ InRange(disp[d].event)
  /\ outbox' = [outbox EXCEPT ![disp[d].event] = Retries(disp[d].event)]
  /\ disp' = [disp EXCEPT ![d] = Idle]
  /\ UNCHANGED <<manager, inserted, ledger>>

MarkRetryFails(d) ==
  /\ disp[d].pc = "failed"
  /\ disp' = [disp EXCEPT ![d] = Idle]
  /\ UNCHANGED <<manager, outbox, inserted, ledger>>

\* The process of another revision is gone: PostgreSQL rolls back.
DispatcherDies(d) ==
  /\ d # Me /\ disp[d].pc = "claimed"
  /\ disp' = [disp EXCEPT ![d] = Idle]
  /\ UNCHANGED <<manager, outbox, inserted, ledger>>

\* Seeded fault: an event is given up after some attempts.
BackoffGivesUp(e) ==
  /\ outbox[e].status = "PENDING" /\ ~outbox[e].due /\ outbox[e].attempts <= MaxExponent
  /\ outbox' = [outbox EXCEPT ![e].due = TRUE]
  /\ UNCHANGED <<manager, disp, inserted, ledger>>

BackoffElapses(e) ==
  /\ outbox[e].status = "PENDING" /\ ~outbox[e].due
  /\ outbox' = [outbox EXCEPT ![e].due = TRUE]
  /\ UNCHANGED <<manager, disp, inserted, ledger>>

-----------------------------------------------------------------------------
(* PostgresExecutionLedger.load.                                           *)

FillRows == {e \in Applied : EventType[e] = "FILL"}

LoadOrders ==
  /\ life = "running" /\ ledger.pc \in {"none", "refused"}
  /\ ledger' = [pc |-> "orders", orders |-> OrderRows]
  /\ UNCHANGED <<manager, tables>>

Lineage(orders, fills) == \A f \in fills : OrderOf[f] \in orders

\* The SELECTs of the fills and of the positions, and the checks.  Nothing is
\* checked against the positions, and the unique index of fills leaves the
\* check for duplicates nothing to find.  What is loaded is the adapter's.
LoadFills ==
  /\ Connected /\ ledger.pc = "orders"
  /\ ledger' = IF Lineage(ledger.orders, FillRows) THEN NoLedger
               ELSE [ledger EXCEPT !.pc = "refused"]
  /\ UNCHANGED <<manager, tables>>

-----------------------------------------------------------------------------
Manager ==
  \/ start \/ stop \/ Stopped \/ Restart
  \/ WriterTakes \/ WriterAppends \/ WriterFails
  \/ BarrierReturns \/ BarrierFails
  \/ \E e \in Events : enqueue(e) \/ BarrierStarts(e) \/ BarrierRefuses(e)

Dispatch ==
  \/ \E d \in Dispatchers :
       Claim(d) \/ Commit(d) \/ DispatchFails(d) \/ MarkRetry(d) \/ MarkRetryFails(d)
       \/ DispatcherDies(d)
  \/ \E e \in Events : BackoffElapses(e)

Next == Manager \/ Dispatch \/ LoadOrders \/ LoadFills

Spec == Init /\ [][Next]_vars

\* A dispatcher keeps polling, its back-off passes, and the database does not
\* fail every transaction for ever.
FairSpec ==
  /\ Spec
  /\ \A d \in Dispatchers :
       /\ WF_vars(Claim(d)) /\ SF_vars(Commit(d)) /\ WF_vars(DispatchFails(d))
       /\ WF_vars(MarkRetry(d) \/ MarkRetryFails(d))
  /\ \A e \in Events : WF_vars(BackoffElapses(e))

\* Moreover _mark_retry succeeds when it can, and processes are not for ever
\* killed in the middle of a transaction.
SteadySpec ==
  /\ FairSpec
  /\ \A d \in Dispatchers : SF_vars(MarkRetry(d))
  /\ <>[][~Restart /\ ~stop /\ \A d \in Dispatchers : ~DispatcherDies(d)]_vars

-----------------------------------------------------------------------------
(* Properties.                                                             *)

\* The variables have their types, and the queue keeps its capacity.
TypeOK ==
  /\ life \in {"new", "running", "stopping", "stopped", "failed"}
  /\ queue \in Seq(Events) /\ Len(queue) <= Capacity
  /\ writer \in Events \cup {NoEvent} /\ barrier \in Events \cup {NoEvent}
  /\ unflushed \in Nat /\ dropped \in Nat /\ reported \subseteq Events
  /\ acked \subseteq Events
  /\ outbox \in [Events -> OutboxRow]
  /\ disp \in [Dispatchers -> [pc : {"idle", "claimed", "failed"}, event : Events \cup {NoEvent}]]
  /\ inserted \in [Events -> Nat]
  /\ ledger \in [pc : {"none", "orders", "refused"}, orders : SUBSET Orders]

\* "Returning True means the database acknowledged the outbox insert, so a
\* crash or dispatcher outage can still be recovered": through any failures,
\* restarts and replays, an acknowledged order stays in the outbox.
AckedIsDurable == acked \subseteq Durable

\* Replay is exactly once however dispatchers overlap, die and retry: the plain
\* INSERT of save_snapshot relies on it.
AppliedOnce ==
  \A e \in Events : inserted[e] = IF outbox[e].status = "PROCESSED" THEN 1 ELSE 0

\* "A queue rejection or DB failure is always reflected in the status object":
\* of the observations a process was handed, those neither in its memory nor in
\* the outbox are no more than dropped_writes and unflushed_writes say, through
\* a full queue, failing INSERTs and a shutdown that runs out of time.
Held == {queue[i] : i \in DOMAIN queue} \cup ({writer} \ {NoEvent})
Lost == reported \ (Held \cup Durable)

NothingSilentlyLost == Cardinality(Lost) <= dropped + unflushed

\* A ledger is refused for its lineage only because an order was stored between
\* the SELECTs, so that loading again can succeed: however dispatchers overlap,
\* die and retry, the tables never have a fill without its order.
RefusedOnlyWhenTorn == ledger.pc = "refused" => ledger.orders # OrderRows

Log == INSTANCE DurableLog WITH durable <- Durable, applied <- Applied
ImplementsDurableLog == Log!Spec

\* Every durable observation reaches the tables, a fill once its order is
\* durable, through transactions that fail, answers that are lost and back-offs
\* that let later events go first; while the rules of every event are usable
\* (dispatch_one, _mark_retry).
DurableIsApplied ==
  \A e \in Events :
    (/\ outbox[e].status = "PENDING" /\ e \in Tradable
     /\ EventType[e] = "FILL" => \E o \in OrderEvents \cap Durable : OrderOf[o] = OrderOf[e])
      ~> outbox[e].status = "PROCESSED"
=============================================================================
