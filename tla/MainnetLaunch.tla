--------------------------- MODULE MainnetLaunch ---------------------------
(***************************************************************************)
(* The staged Mainnet launch: the durable mainnet_launch_sessions row      *)
(* (persistence/postgres/repositories.py), the Trading Worker that arms,   *)
(* pauses, kills, continues and restarts around it (main.py), and the path *)
(* of one risk-increasing order through it: execution gate, durable        *)
(* reservation, execution lease, POST, outcome (venues/binance/            *)
(* execution.py).                                                          *)
(*                                                                         *)
(* Every SQL statement is atomic; the worker is single-threaded asyncio,   *)
(* so an action is the code between two awaits whose order matters.        *)
(* Several worker processes may overlap (a Cloud Run revision change); the *)
(* execution lease is all that keeps two of them from posting.             *)
(***************************************************************************)
EXTENDS Naturals, FiniteSets

CONSTANTS
  Procs,      \* worker processes
  Approvals,  \* release approvals; launch_id = "launch-" \o approval_id
  MaxOrders   \* bound: reservations of one session

ASSUME MaxOrdersAssumption == MaxOrders \in Nat \ {0}

NoProc    == "no-proc"
Dead      == "dead-proc"      \* a lease owner id whose process has ended
NoSession == "no-session"
ASSUME NamesAssumption == NoProc \notin Procs /\ Dead \notin Procs
                          /\ NoSession \notin Approvals

State  == {"ACTIVE", "PAUSED_NEW_RISK", "RECONCILIATION_REQUIRED",
           "AUTONOMOUS_ACTIVE", "REAUTH_REQUIRED", "CLOSED"}
Policy == {"STAGED_FIRST_ORDER", "AUTONOMOUS_AFTER_REVIEW"}

\* state "NONE" is the absent row.
Row   == [state : State \cup {"NONE"}, policy : Policy,
          reserved : 0..MaxOrders, submitted : 0..MaxOrders]
NoRow == [state |-> "NONE", policy |-> "STAGED_FIRST_ORDER",
          reserved |-> 0, submitted |-> 0]

VARIABLES
  row,       \* mainnet_launch_sessions, by approval
  lease,     \* who holds the account's execution lease
  accepted,  \* risk-increasing orders the exchange accepted, by session
  wire,      \* POSTs on their way to the exchange: <<process, session>>
  wk,        \* each TradingWorkerApp: its control flags and its projection
  op         \* each worker's order in progress (one, under the mutation lock)

vars == <<row, lease, accepted, wire, wk, op>>

\* live: execution_mode is LIVE (the release deploys EXECUTION_MODE=LIVE), else
\* PAPER.  conf: active_configuration is set.  adapter: READY with an IN_SYNC ledger,
\* or degraded, or closed.  launch and view: _mainnet_launch_id and the copy
\* of the row in _mainnet_launch_session.  ctl: the ARM or continuation that is
\* between two awaits, target: the launch id of its request.  killing and
\* releasing: a kill-switch activation or release is waiting for the exchange.
Worker == [live : BOOLEAN, conf : BOOLEAN, pause : BOOLEAN, kill : BOOLEAN,
           adapter : {"none", "ready", "degraded"},
           launch : Approvals \cup {NoSession}, view : Row,
           ctl : {"none", "arming", "continuing", "verified"},
           target : Approvals \cup {NoSession},
           killing : BOOLEAN, releasing : BOOLEAN]

NewWorker == [live |-> TRUE, conf |-> FALSE, pause |-> FALSE, kill |-> FALSE,
              adapter |-> "none", launch |-> NoSession, view |-> NoRow,
              ctl |-> "none", target |-> NoSession, killing |-> FALSE, releasing |-> FALSE]

\* An order: where it is, the session it reserved, what the exchange decided,
\* and whether its adapter has been closed under it.
OpPC  == {"idle", "barrier", "reserved", "leased", "posted", "confirmed",
          "rejected", "ambiguous", "unverified", "resolve", "done"}
Op    == [pc : OpPC, session : Approvals \cup {NoSession},
          answer : {"none", "accepted", "refused"}, closed : BOOLEAN]
NoOp  == [pc |-> "idle", session |-> NoSession, answer |-> "none", closed |-> FALSE]

\* The variables have their types.
TypeOK ==
  /\ row \in [Approvals -> Row]
  /\ lease \in Procs \cup {NoProc, Dead}
  /\ accepted \in [Approvals -> Nat]
  /\ wire \subseteq Procs \X Approvals
  /\ wk \in [Procs -> Worker]
  /\ op \in [Procs -> Op]

Init ==
  /\ row = [a \in Approvals |-> NoRow]
  /\ lease = NoProc
  /\ accepted = [a \in Approvals |-> 0]
  /\ wire = {}
  /\ wk = [p \in Procs |-> NewWorker]
  /\ op = [p \in Procs |-> NoOp]

-----------------------------------------------------------------------------
(* The statements of PersistenceRepository, as functions of the table.     *)

Open == {"ACTIVE", "PAUSED_NEW_RISK", "RECONCILIATION_REQUIRED",
         "AUTONOMOUS_ACTIVE", "REAUTH_REQUIRED"}

\* Seeded fault: the reservation count is not compared with the limit.
ReservableUncounted(r) ==
  \/ r.policy = "STAGED_FIRST_ORDER" /\ r.state = "ACTIVE" /\ r.submitted = 0
  \/ r.policy = "AUTONOMOUS_AFTER_REVIEW" /\ r.state = "AUTONOMOUS_ACTIVE"

Reservable(r) ==
  \/ /\ r.policy = "STAGED_FIRST_ORDER" /\ r.state = "ACTIVE"
     /\ r.submitted = 0 /\ r.reserved < 1
  \/ /\ r.policy = "AUTONOMOUS_AFTER_REVIEW" /\ r.state = "AUTONOMOUS_ACTIVE"

\* Seeded fault: the reservation counters are not compared.
ReleasableUncounted(r) == r.state \in {"ACTIVE", "AUTONOMOUS_ACTIVE"}

Releasable(r) ==
  r.state \in {"ACTIVE", "AUTONOMOUS_ACTIVE"} /\ r.reserved > r.submitted

Markable(r) ==
  /\ r.state \in {"ACTIVE", "AUTONOMOUS_ACTIVE"}
  /\ r.reserved > r.submitted
  /\ r.policy = "STAGED_FIRST_ORDER" => r.submitted < 1

Marked(r) ==
  [r EXCEPT !.submitted = @ + 1,
            !.state = IF r.policy = "STAGED_FIRST_ORDER"
                      THEN "PAUSED_NEW_RISK" ELSE "AUTONOMOUS_ACTIVE"]

ReconciliationRequired(r) ==
  IF r.state \in {"ACTIVE", "PAUSED_NEW_RISK", "AUTONOMOUS_ACTIVE"}
  THEN [r EXCEPT !.state = "RECONCILIATION_REQUIRED"] ELSE r

Reconciled(r) ==
  IF r.state = "RECONCILIATION_REQUIRED" /\ r.submitted >= 1 /\ r.reserved >= r.submitted
  THEN [r EXCEPT !.state = IF r.policy = "STAGED_FIRST_ORDER"
                           THEN "PAUSED_NEW_RISK" ELSE "REAUTH_REQUIRED"]
  ELSE r

\* continue_autonomous: the session waits for a continuation.
Awaiting(r) ==
  /\ \/ r.policy = "STAGED_FIRST_ORDER" /\ r.state = "PAUSED_NEW_RISK"
     \/ r.policy = "AUTONOMOUS_AFTER_REVIEW" /\ r.state = "REAUTH_REQUIRED"
  /\ r.submitted >= 1

Activatable(r) ==
  \/ /\ r.policy = "STAGED_FIRST_ORDER" /\ r.state = "PAUSED_NEW_RISK"
     /\ r.submitted = 1 /\ r.reserved >= r.submitted
  \/ /\ r.policy = "AUTONOMOUS_AFTER_REVIEW" /\ r.state = "REAUTH_REQUIRED"
     /\ r.submitted >= 1

Activated(r) ==
  [r EXCEPT !.policy = "AUTONOMOUS_AFTER_REVIEW", !.state = "AUTONOMOUS_ACTIVE"]

ReauthRequired(r) ==
  IF r.policy = "AUTONOMOUS_AFTER_REVIEW" /\ r.state = "AUTONOMOUS_ACTIVE"
  THEN [r EXCEPT !.state = "REAUTH_REQUIRED"] ELSE r

\* Seeded fault: other open sessions are left as they are.
ClosedNone(a, b) == row[b]

\* create_mainnet_launch_session: close every other open session without a
\* submitted order, refuse while another one has a submitted order, insert the
\* row unless the approval has one.
Closed(a, b) ==
  IF b # a /\ row[b].state \in Open \ {"AUTONOMOUS_ACTIVE"} /\ row[b].submitted = 0
  THEN [row[b] EXCEPT !.state = "CLOSED"] ELSE row[b]

Unreviewed(a) ==
  \E b \in Approvals \ {a} : row[b].state \in Open /\ row[b].submitted > 0

\* Seeded fault: ON CONFLICT DO UPDATE, so ARM restarts the counters.
CreatedAgain(a) ==
  [b \in Approvals |-> IF b = a THEN [NoRow EXCEPT !.state = "ACTIVE"] ELSE Closed(a, b)]

Created(a) ==
  [b \in Approvals |->
     IF b = a /\ row[a].state = "NONE" /\ ~Unreviewed(a)
     THEN [NoRow EXCEPT !.state = "ACTIVE"] ELSE Closed(a, b)]

Set(p, w) == wk' = [wk EXCEPT ![p] = w]
Project(w, a) == [w EXCEPT !.launch = a, !.view = row'[a]]
Forget(w) == [w EXCEPT !.launch = NoSession, !.view = NoRow]

-----------------------------------------------------------------------------
(* Worker control.                                                         *)

\* _refresh_engine_state (ARMING and RECOVERY_ONLY left out).
EngineState(w) ==
  IF w.kill THEN "EMERGENCY"
  ELSE IF ~w.conf THEN "DISARMED"
  ELSE IF w.adapter # "ready" THEN "DEGRADED"
  ELSE IF w.pause THEN "PAUSED_NEW_RISK" ELSE "ARMED"

\* execution_adapter.close(): the lease is released, an order in progress
\* keeps running on the closed adapter.
CloseAdapter(p) ==
  /\ lease' = IF lease = p THEN NoProc ELSE lease
  /\ op' = [op EXCEPT ![p].closed = (op[p].pc # "idle")]

\* _fence_autonomous_launch with table t and worker w: the durable fence and
\* its read-back.  When either fails the local identity is dropped.
Autonomous(r) == r.policy = "AUTONOMOUS_AFTER_REVIEW" /\ r.state = "AUTONOMOUS_ACTIVE"
MustFence(w) == w.live /\ Autonomous(w.view)

Fenced(t) == [a \in Approvals |-> ReauthRequired(t[a])]

Fences(t, w) ==
  IF ~MustFence(w) THEN {[row |-> t, wk |-> w]}
  ELSE {[row |-> t, wk |-> Forget(w)],
        [row |-> Fenced(t), wk |-> Forget(w)],
        [row |-> Fenced(t),
         wk  |-> IF w.launch # NoSession /\ Fenced(t)[w.launch].state = "REAUTH_REQUIRED"
                 THEN [w EXCEPT !.view = Fenced(t)[w.launch]] ELSE Forget(w)]}

\* _reset_after_failed_exchange_arm: back to PAPER.
Disarmed(w) == [w EXCEPT !.conf = FALSE, !.pause = FALSE, !.adapter = "none"]

ResetFailedArm(p) ==
  /\ Set(p, [Disarmed(Forget(wk[p])) EXCEPT !.live = FALSE, !.ctl = "none"])
  /\ CloseAdapter(p)

\* arm up to the lease: the old adapter is closed, a new one connects, and
\* the lease must be free.
ArmConnect(p) ==
  /\ wk[p].ctl = "none" /\ ~wk[p].kill
  /\ \/ /\ lease \in {NoProc, p}
        /\ Set(p, [wk[p] EXCEPT !.live = TRUE, !.adapter = "ready", !.ctl = "arming"])
        /\ lease' = p
        /\ op' = [op EXCEPT ![p].closed = (op[p].pc # "idle")]
     \/ ResetFailedArm(p)
  /\ UNCHANGED <<row, accepted, wire>>

\* What arm asks of the session it got back.
Unused(r) == r.state = "ACTIVE" /\ r.reserved = 0 /\ r.submitted = 0

\* arm from the runtime preflight to the end.  The preflight can refuse, and
\* create_mainnet_launch_session can fail after any of its statements.
ArmSession(p, a) ==
  /\ wk[p].ctl = "arming"
  /\ \/ row' = row /\ ResetFailedArm(p)
     \/ /\ wk[p].adapter = "ready" /\ ~wk[p].kill
        /\ \/ /\ row' \in {[b \in Approvals |-> Closed(a, b)], Created(a)}
              /\ ResetFailedArm(p)
           \/ /\ row' = Created(a)
              /\ ~Unreviewed(a) /\ Unused(row'[a])
              /\ Set(p, [Project(wk[p], a) EXCEPT !.conf = TRUE, !.ctl = "none"])
              /\ UNCHANGED <<lease, op>>
  /\ UNCHANGED <<accepted, wire>>

\* run_mainnet_continuation_readiness, and continue_autonomous on a session
\* that is not awaiting a continuation: the projection follows the row read.
ReadSession(p, a) ==
  /\ row[a].state # "NONE"
  /\ row' = row
  /\ Set(p, Project(wk[p], a))
  /\ UNCHANGED <<lease, accepted, wire, op>>

\* _reset_after_failed_continuation with table t and worker w.
ResetFailedContinuation(p, t, w) ==
  /\ \E f \in Fences(t, w) :
       row' = f.row /\ Set(p, [Disarmed(f.wk) EXCEPT !.live = TRUE, !.ctl = "none"])
  /\ CloseAdapter(p)

\* continue_autonomous up to a READY adapter that holds the lease.
ContinueConnect(p, a) ==
  /\ wk[p].ctl = "none" /\ ~wk[p].kill
  /\ Awaiting(row[a])
  /\ LET w == [wk[p] EXCEPT !.launch = a, !.view = row[a], !.target = a, !.live = TRUE,
                            !.ctl = "continuing", !.adapter = "ready"] IN
     \/ /\ wk[p].adapter = "ready"
        /\ Set(p, w)
        /\ UNCHANGED <<row, lease, op>>
     \/ /\ wk[p].adapter # "ready" /\ lease \in {NoProc, p}
        /\ Set(p, w)
        /\ lease' = p
        /\ op' = [op EXCEPT ![p].closed = (op[p].pc # "idle")]
        /\ UNCHANGED row
     \/ wk[p].adapter # "ready" /\ ResetFailedContinuation(p, row, w)
  /\ UNCHANGED <<accepted, wire>>

\* run_mainnet_continuation_readiness(require_active_runtime=True): the checks
\* pass, or the continuation is reset.
ContinuationReady(w) ==
  /\ w.launch # NoSession /\ Awaiting(row[w.launch])
  /\ row[w.launch].reserved >= row[w.launch].submitted
  /\ EngineState(w) \in {"PAUSED_NEW_RISK", "DISARMED"}
  /\ w.adapter = "ready" /\ ~w.kill

ContinueVerify(p) ==
  /\ wk[p].ctl = "continuing"
  /\ \/ /\ ContinuationReady(wk[p])
        /\ Set(p, [wk[p] EXCEPT !.view = row[wk[p].launch], !.ctl = "verified"])
        /\ UNCHANGED <<row, lease, op>>
     \/ ResetFailedContinuation(p, row, wk[p])
  /\ UNCHANGED <<accepted, wire>>

\* activate_mainnet_autonomous and what follows.  What the checks saw may have
\* changed since, so the result must still be ARMED.
ContinueActivate(p) ==
  LET a == wk[p].target
      w == [wk[p] EXCEPT !.launch = a, !.view = Activated(row[a]), !.conf = TRUE,
                         !.pause = FALSE, !.ctl = "none"]
      t == [row EXCEPT ![a] = Activated(@)]
  IN
  /\ wk[p].ctl = "verified"
  /\ \/ /\ Activatable(row[a]) /\ EngineState(w) = "ARMED"
        /\ row' = t
        /\ Set(p, w)
        /\ UNCHANGED <<lease, op>>
     \/ /\ Activatable(row[a]) /\ EngineState(w) # "ARMED"
        /\ ResetFailedContinuation(p, t, w)
     \/ ResetFailedContinuation(p, row, wk[p])
  /\ UNCHANGED <<accepted, wire>>

\* disarm drops the launch id but keeps the copied row.
disarm(p) ==
  /\ \E f \in Fences(row, wk[p]) :
       row' = f.row /\ Set(p, [Disarmed(f.wk) EXCEPT !.launch = NoSession])
  /\ CloseAdapter(p)
  /\ UNCHANGED <<accepted, wire>>

set_pause_new_risk(p, active) ==
  /\ Set(p, [wk[p] EXCEPT !.pause =
       \/ active
       \/ ~ \/ ~wk[p].live
            \/ Autonomous(wk[p].view)
            \/ /\ wk[p].view.policy = "STAGED_FIRST_ORDER"
               /\ wk[p].view.state = "ACTIVE" /\ wk[p].view.submitted = 0])
  /\ UNCHANGED <<row, lease, accepted, wire, op>>

\* handle_market_event: a rejected intent pipeline pauses new risk.
PipelineError(p) ==
  /\ wk[p].conf
  /\ Set(p, [wk[p] EXCEPT !.pause = TRUE])
  /\ UNCHANGED <<row, lease, accepted, wire, op>>

\* set_kill_switch(True) up to the exchange workflow.
Degraded(w) == IF w.adapter = "none" THEN w ELSE [w EXCEPT !.adapter = "degraded"]

KillOn(p) ==
  \E f \in Fences(row, [wk[p] EXCEPT !.kill = TRUE, !.pause = TRUE]) :
    /\ row' = f.row
    /\ Set(p, [Degraded(f.wk) EXCEPT !.killing = (f.wk.adapter # "none")])

KillActivate(p) == KillOn(p) /\ UNCHANGED <<lease, accepted, wire, op>>

\* trigger_reconciliation on a verified account: the launch row may leave its
\* ambiguity fence and is projected again, unless the database fails before or
\* between the two.
ReconciledInSync(p, w) ==
  /\ w.launch # NoSession
  /\ row' = [row EXCEPT ![w.launch] = Reconciled(@)]
  /\ \E v \in {w, Project(w, w.launch)} : Set(p, v)

Reconciles(p, w) == \/ row' = row /\ Set(p, w)
                    \/ ReconciledInSync(p, w)

\* The exchange workflow of an activation: cancel_all_open_orders waits for
\* the mutation lock, then the reconciliation, whatever its outcome.
KillVerify(p) ==
  /\ wk[p].killing
  /\ op[p].closed \/ op[p].pc \in {"idle", "done"}
  /\ Reconciles(p, [wk[p] EXCEPT !.killing = FALSE])
  /\ UNCHANGED <<lease, accepted, wire, op>>

KillReleaseStart(p) ==
  /\ wk[p].kill /\ wk[p].adapter # "none" /\ ~wk[p].releasing
  /\ Set(p, [wk[p] EXCEPT !.releasing = TRUE])
  /\ UNCHANGED <<row, lease, accepted, wire, op>>

\* The release after openOrders and the reconciliation: verified, or PARTIAL.
KillReleaseCommit(p) ==
  /\ wk[p].releasing
  /\ \/ Reconciles(p, [wk[p] EXCEPT !.releasing = FALSE, !.kill = FALSE])
     \/ row' = row /\ Set(p, [wk[p] EXCEPT !.releasing = FALSE])
  /\ UNCHANGED <<lease, accepted, wire, op>>

\* A PAPER worker has no exchange to verify.
KillReleasePaper(p) ==
  /\ wk[p].kill /\ wk[p].adapter = "none" /\ ~wk[p].live
  /\ Set(p, [wk[p] EXCEPT !.kill = FALSE])
  /\ UNCHANGED <<row, lease, accepted, wire, op>>

Reconcile(p) ==
  /\ wk[p].adapter # "none"
  /\ Reconciles(p, wk[p])
  /\ UNCHANGED <<lease, accepted, wire, op>>

\* The private stream, the account or the lease renewal fails, and recovers.
AdapterChanges(p) ==
  /\ wk[p].adapter # "none"
  /\ \E s \in {"ready", "degraded"} \ {wk[p].adapter} :
       Set(p, [wk[p] EXCEPT !.adapter = s])
  /\ UNCHANGED <<row, lease, accepted, wire, op>>

LeaseExpires ==
  /\ lease # NoProc
  /\ lease' = NoProc
  /\ UNCHANGED <<row, accepted, wire, wk, op>>

\* The process ends (a crash, a revision change) and start() runs: fence the
\* autonomous sessions and project the open one, unless the database fails.
Restart(p) ==
  /\ lease' = IF lease = p THEN Dead ELSE lease
  /\ op' = [op EXCEPT ![p] = NoOp]
  /\ \/ row' \in {row, Fenced(row)} /\ Set(p, NewWorker)
     \/ /\ row' = Fenced(row)
        /\ \E a \in Approvals :
             row'[a].state \in Open /\ Set(p, Project(NewWorker, a))
  /\ UNCHANGED <<accepted, wire>>

-----------------------------------------------------------------------------
(* One risk-increasing order.                                              *)

Step(p, pc) == op' = [op EXCEPT ![p].pc = pc]

\* The order's own adapter, which may have been replaced since.
DegradeOf(p, w) == IF op[p].closed THEN w ELSE Degraded(w)

\* handle_market_event and execute_decision up to the submission barrier.
LiveReady(w) ==
  /\ EngineState(w) = "ARMED"
  /\ w.view.state = IF w.view.policy = "STAGED_FIRST_ORDER"
                    THEN "ACTIVE" ELSE "AUTONOMOUS_ACTIVE"

ExecuteDecision(p) ==
  /\ op[p].pc = "idle"
  /\ LiveReady(wk[p])
  /\ Step(p, "barrier")
  /\ UNCHANGED <<row, lease, accepted, wire, wk>>

\* _before_order_submission.
MayReserve(w) ==
  /\ w.live /\ w.launch # NoSession
  /\ w.view.policy = "AUTONOMOUS_AFTER_REVIEW" => w.view.state = "AUTONOMOUS_ACTIVE"
  /\ Reservable(row[w.launch])

Reserve(p) ==
  /\ op[p].pc = "barrier"
  /\ MayReserve(wk[p])
  /\ row[wk[p].launch].reserved < MaxOrders
  /\ row' = [row EXCEPT ![wk[p].launch].reserved = @ + 1]
  /\ op' = [op EXCEPT ![p].pc = "reserved", ![p].session = wk[p].launch]
  /\ UNCHANGED <<lease, accepted, wire, wk>>

\* Back in PAPER after a failed ARM no reservation is made: the closed adapter
\* has no lease, so the order is rejected before the next await.
ReserveSkipped(p) ==
  /\ op[p].pc = "barrier" /\ ~wk[p].live /\ op[p].closed
  /\ Step(p, "done")
  /\ UNCHANGED <<row, lease, accepted, wire, wk>>

\* Refused, the outbox is not durable, or the database fails.
ReserveFails(p) ==
  /\ op[p].pc = "barrier"
  /\ Set(p, DegradeOf(p, [wk[p] EXCEPT !.pause = @ \/ wk[p].live]))
  /\ Step(p, "done")
  /\ UNCHANGED <<row, lease, accepted, wire>>

AssertLease(p) ==
  /\ op[p].pc = "reserved"
  /\ IF lease = p /\ ~op[p].closed
     THEN Step(p, "leased") /\ wk' = wk
     ELSE Step(p, "rejected") /\ Set(p, DegradeOf(p, wk[p]))
  /\ UNCHANGED <<row, lease, accepted, wire>>

\* The request leaves after the rate-limit delay: nothing is checked again, only
\* a client session closed meanwhile makes it fail.
Post(p) ==
  /\ op[p].pc = "leased"
  /\ \/ /\ <<p, op[p].session>> \notin wire
        /\ wire' = wire \cup {<<p, op[p].session>>}
        /\ Step(p, "posted")
     \/ op[p].closed /\ wire' = wire /\ Step(p, "unverified")
  /\ UNCHANGED <<row, lease, accepted, wk>>

\* The exchange takes the order, or refuses or loses it.  A request is decided
\* within its recvWindow (5 s), before the client gives up waiting (10 s).
Exchange(p, s) ==
  /\ <<p, s>> \in wire
  /\ wire' = wire \ {<<p, s>>}
  /\ \E taken \in BOOLEAN :
       /\ accepted' = [accepted EXCEPT ![s] = IF taken THEN @ + 1 ELSE @]
       /\ op' = IF op[p].pc = "posted" /\ op[p].session = s
                THEN [op EXCEPT ![p].answer = IF taken THEN "accepted" ELSE "refused"]
                ELSE op
  /\ UNCHANGED <<row, lease, wk>>

\* Seeded fault: a timeout is taken for a rejection.
OutcomesTimeoutRejects(answer) ==
  {"rejected", "unverified", IF answer = "accepted" THEN "confirmed" ELSE "rejected"}

\* Seeded fault: every response that can be parsed is an acknowledgement.
OutcomesConfirmAny(answer) == {"ambiguous", "unverified", "confirmed"}

\* What execute_decision makes of the response: the order is acknowledged and
\* verified, or definitively rejected, or neither can be told.
Outcomes(answer) ==
  {"ambiguous", "unverified", IF answer = "accepted" THEN "confirmed" ELSE "rejected"}

Respond(p) ==
  /\ op[p].pc = "posted" /\ op[p].answer # "none"
  /\ \E pc \in Outcomes(op[p].answer) :
       /\ pc = "confirmed" => ~op[p].closed
       /\ Step(p, pc)
       /\ Set(p, IF pc \in {"ambiguous", "unverified"}
                 THEN DegradeOf(p, wk[p]) ELSE wk[p])
  /\ UNCHANGED <<row, lease, accepted, wire>>

\* _on_order_submission_result: it writes to the worker's current session.
OnRejected(p) ==
  /\ row' = IF Releasable(row[wk[p].launch])
            THEN [row EXCEPT ![wk[p].launch].reserved = @ - 1] ELSE row
  /\ wk' = wk

OnConfirmed(p) ==
  IF ~Markable(row[wk[p].launch])
  THEN row' = row /\ Set(p, [wk[p] EXCEPT !.kill = TRUE])
  ELSE /\ row' = [row EXCEPT ![wk[p].launch] = Marked(@)]
       /\ IF wk[p].view.policy = "STAGED_FIRST_ORDER"
          THEN \E w \in {wk[p], Project(wk[p], wk[p].launch)} :   \* the refresh may fail
                 Set(p, [w EXCEPT !.pause = TRUE])
          ELSE Set(p, [wk[p] EXCEPT !.pause = FALSE])

OnAmbiguous(p) ==
  /\ row' = [row EXCEPT ![wk[p].launch] = ReconciliationRequired(@)]
  /\ Set(p, [wk[p] EXCEPT !.pause = TRUE])

\* _notify_order_submission_result around it: a failed callback is contained.
Notify(p) ==
  /\ op[p].pc \in {"confirmed", "rejected", "ambiguous", "unverified"}
  /\ Step(p, IF op[p].pc = "ambiguous" THEN "resolve" ELSE "done")
  /\ IF wk[p].launch = NoSession \/ ~wk[p].live THEN UNCHANGED <<row, wk>>
     ELSE \/ row' = row /\ Set(p, DegradeOf(p, wk[p]))
          \/ op[p].pc = "rejected" /\ OnRejected(p)
          \/ op[p].pc = "confirmed" /\ OnConfirmed(p)
          \/ op[p].pc \in {"ambiguous", "unverified"} /\ OnAmbiguous(p)
  /\ UNCHANGED <<lease, accepted, wire>>

\* _resolve_ambiguous_order: an order read back and reconciled is confirmed,
\* whatever has become of it at the exchange; anything else stays degraded (an
\* absent order never reconciles).
Resolve(p) ==
  /\ op[p].pc = "resolve"
  /\ \/ /\ op[p].answer = "accepted" /\ ~op[p].closed
        /\ wk[p].adapter # "none"
        /\ Step(p, "confirmed")
        /\ Set(p, [wk[p] EXCEPT !.adapter = "ready"])
     \/ Step(p, "done") /\ Set(p, DegradeOf(p, wk[p]))
  /\ UNCHANGED <<row, lease, accepted, wire>>

\* execute_manual_decision after the adapter returns: fail closed unless the
\* order's adapter is READY and IN_SYNC.
Finish(p) ==
  /\ op[p].pc = "done"
  /\ op' = [op EXCEPT ![p] = NoOp]
  /\ IF op[p].closed \/ wk[p].adapter # "ready"
     THEN KillOn(p) ELSE UNCHANGED <<row, wk>>
  /\ UNCHANGED <<lease, accepted, wire>>

-----------------------------------------------------------------------------
Operator(p) ==
  \/ ArmConnect(p) \/ disarm(p) \/ KillActivate(p) \/ KillReleaseStart(p)
  \/ KillReleasePaper(p)
  \/ \E a \in Approvals : ContinueConnect(p, a) \/ ReadSession(p, a)
  \/ \E active \in BOOLEAN : set_pause_new_risk(p, active)

Control(p) ==
  \/ \E a \in Approvals : ArmSession(p, a)
  \/ ContinueVerify(p) \/ ContinueActivate(p)
  \/ KillVerify(p) \/ KillReleaseCommit(p) \/ Reconcile(p) \/ PipelineError(p)

Order(p) ==
  \/ ExecuteDecision(p) \/ Reserve(p) \/ ReserveSkipped(p) \/ ReserveFails(p)
  \/ AssertLease(p) \/ Post(p) \/ Respond(p) \/ Notify(p) \/ Resolve(p) \/ Finish(p)

Next ==
  \/ \E p \in Procs : Control(p) \/ Operator(p) \/ Order(p)
                      \/ AdapterChanges(p) \/ Restart(p)
  \/ \E p \in Procs, s \in Approvals : Exchange(p, s)
  \/ LeaseExpires

Spec == Init /\ [][Next]_vars

-----------------------------------------------------------------------------
(* Properties.                                                             *)

\* Orders of a session the exchange has, or may still take.
Outstanding(a) == accepted[a] + Cardinality({m \in wire : m[2] = a})

\* The one-order limit: until its continuation is approved a staged session
\* never puts a second order on the exchange, whatever crashes, lost answers or
\* replaced adapters come between, and whichever of two overlapping processes
\* sends it.  Of one process or of one approval, for the reason given at
\* ReservationCovers.
StagedOneOrder ==
  \A a \in Approvals : row[a].policy = "STAGED_FIRST_ORDER" => Outstanding(a) <= 1

\* Every order a process sends is covered by a durable reservation that is still
\* held: a reservation is released only for an order the exchange does not have.
\* Of one process, or of one approval: _on_order_submission_result releases by
\* the worker's current launch id, so with two of each it can release the
\* reservation of the other process's order.
ReservationCovers == \A a \in Approvals : Outstanding(a) <= row[a].reserved

\* submitted_orders counts orders the exchange really accepted, so the review
\* a continuation rests on is about a real first order.
SubmittedWereAccepted ==
  \A a \in Approvals :
    /\ row[a].submitted <= accepted[a]
    /\ row[a].policy = "AUTONOMOUS_AFTER_REVIEW" => row[a].submitted >= 1

\* idx_mainnet_launch_one_active: no sequence of approvals, crashes and
\* continuations leaves two sessions open together.
OneOpenSession ==
  \A a, b \in Approvals : row[a].state \in Open /\ row[b].state \in Open => a = b

\* Repeating ARM, restarting or continuing never resets what a session has
\* used: orders it counted stay counted and covered, and CLOSED is final.
SessionNeverReset ==
  [][\A a \in Approvals :
       /\ row'[a].submitted >= row[a].submitted
       /\ row'[a].reserved < row[a].reserved =>
            \E p \in Procs : op[p].pc = "rejected" /\ op'[p].pc = "done"
       /\ row[a].state = "CLOSED" => row'[a] = row[a]]_vars

\* main.py:2459: releasing the kill switch never resumes autonomous risk: the
\* launch was fenced, so it needs a fresh continuation.
ReleaseNeverResumes ==
  [][\A p \in Procs :
       wk[p].kill /\ ~wk'[p].kill =>
         ~(/\ wk'[p].view.policy = "AUTONOMOUS_AFTER_REVIEW"
           /\ wk'[p].launch # NoSession
           /\ row'[wk'[p].launch].state = "AUTONOMOUS_ACTIVE"
           /\ LiveReady(wk'[p]))]_vars

\* repositories.py:544: after an authoritative reconciliation an ambiguous
\* staged session returns to the paused review state.
ReconciledReturnsToReview ==
  [][\A p \in Procs :
       /\ Reconcile(p) /\ ReconciledInSync(p, wk[p])
       /\ row[wk[p].launch].policy = "STAGED_FIRST_ORDER"
       /\ row[wk[p].launch].state = "RECONCILIATION_REQUIRED"
       => row'[wk[p].launch].state = "PAUSED_NEW_RISK"]_vars

\* docs/MAINNET-RELEASE-RUNBOOK.md:202: no additional risk-increasing order
\* before the first one is counted (its reservation consumed) and reviewed.
OneUnreviewedOrder ==
  \A a, b \in Approvals :
    /\ accepted[a] >= 1 /\ row[a].submitted = 0
    /\ accepted[b] >= 1 /\ row[b].submitted = 0
    => a = b

\* docs/EXECUTION-AUTHORITY.md:97: the kill switch remains active until the
\* cancellation and reconciliation of its activation are done.
KillHoldsUntilVerified ==
  [][\A p \in Procs :
       KillReleaseCommit(p) /\ wk[p].killing => wk'[p].kill]_vars

=============================================================================
