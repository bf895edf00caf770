------------------------ MODULE MainnetLaunchProofs -------------------------
(***************************************************************************)
(* For any number of processes and approvals: no two launch sessions are   *)
(* open together, and nothing resets what a session has used.  For one     *)
(* process with any number of approvals, and for any number of processes   *)
(* with one approval: the one-order limit, the cover of every order by a   *)
(* reservation, and the truth of submitted_orders.                         *)
(***************************************************************************)
EXTENDS MainnetLaunch, FiniteSetTheorems, TLAPS

\* A row of mainnet_launch_sessions: what is submitted was reserved, a session
\* is autonomous only after a first order and has one reservation before.
RowOK(r) ==
  /\ r \in Row
  /\ r.submitted <= r.reserved
  /\ r.state = "NONE" => r.reserved = 0
  /\ r.policy = "AUTONOMOUS_AFTER_REVIEW" \/ r.state = "AUTONOMOUS_ACTIVE" => r.submitted >= 1
  /\ r.policy = "STAGED_FIRST_ORDER" => r.reserved <= 1

\* What a statement may make of a row, other than insert it or count an order.
Legal(r, q) ==
  /\ RowOK(q)
  /\ q.submitted = r.submitted /\ q.reserved = r.reserved
  /\ q.state \in Open => r.state \in Open
  /\ r.state = "CLOSED" => q = r

WorkerOK(w) ==
  w \in Worker /\ (w.ctl \in {"continuing", "verified"} => w.target \in Approvals)

TableOK == row \in [Approvals -> Row] /\ \A a \in Approvals : RowOK(row[a])
WorkersOK == wk \in [Procs -> Worker] /\ \A p \in Procs : WorkerOK(wk[p])
\* An order past its reservation has its session, an order that has not been
\* posted has no answer, and one that is confirmed was accepted.
Underway == {"reserved", "leased", "posted", "confirmed", "rejected", "ambiguous",
             "unverified", "resolve"}
OpOK(o) ==
  /\ o \in Op
  /\ o.pc \in Underway => o.session \in Approvals
  /\ o.pc \in {"idle", "barrier", "reserved", "leased"} => o.answer = "none"
  /\ o.pc = "confirmed" => o.answer = "accepted"
OpsOK == op \in [Procs -> Op] /\ \A p \in Procs : OpOK(op[p])

ExchangeOK ==
  /\ lease \in Procs \cup {NoProc, Dead}
  /\ accepted \in [Approvals -> Nat]
  /\ wire \subseteq Procs \X Approvals

Inv == TableOK /\ WorkersOK /\ OpsOK /\ ExchangeOK /\ OneOpenSession

-----------------------------------------------------------------------------
(* The statements of PersistenceRepository.                                *)

\* A row may stay as it is.
LEMMA LegalSame == ASSUME NEW r, RowOK(r) PROVE Legal(r, r)
  BY DEF Legal, RowOK, Row

\* Two statements in one step.
LEMMA LegalTransitive ==
  ASSUME NEW r, NEW q, NEW s, RowOK(r), Legal(r, q), Legal(q, s)
  PROVE  Legal(r, s)
  BY DEF Legal, RowOK, Row

\* A statement that only changes the state and the policy.
LEMMA LegalState ==
  ASSUME NEW r, RowOK(r), NEW s \in State, NEW pol \in Policy, r.state \in Open,
         pol = "AUTONOMOUS_AFTER_REVIEW" \/ s = "AUTONOMOUS_ACTIVE" => r.submitted >= 1,
         pol = "STAGED_FIRST_ORDER" => r.policy = pol
  PROVE  Legal(r, [r EXCEPT !.state = s, !.policy = pol])
<1> DEFINE q == [r EXCEPT !.state = s, !.policy = pol]
<1>1. q \in Row /\ q.submitted = r.submitted /\ q.reserved = r.reserved
      /\ q.state = s /\ q.policy = pol
  BY DEF RowOK, Row
<1> HIDE DEF q
<1>2. Legal(r, q)
  BY <1>1 DEF Legal, RowOK, Row, Open, State
<1> QED
  BY <1>2 DEF q

\* A statement that only changes the state.
LEMMA LegalStateOnly ==
  ASSUME NEW r, RowOK(r), NEW s \in State, r.state \in Open,
         s = "AUTONOMOUS_ACTIVE" => r.submitted >= 1
  PROVE  Legal(r, [r EXCEPT !.state = s])
<1> DEFINE q == [r EXCEPT !.state = s]
<1>1. q \in Row /\ q.submitted = r.submitted /\ q.reserved = r.reserved
      /\ q.state = s /\ q.policy = r.policy
  BY DEF RowOK, Row
<1> HIDE DEF q
<1>2. Legal(r, q)
  BY <1>1 DEF Legal, RowOK, Row, Open, State
<1> QED
  BY <1>2 DEF q

\* The ambiguity fence, its removal, the restart fence and the continuation.
LEMMA Statements ==
  ASSUME NEW r, RowOK(r)
  PROVE  /\ Legal(r, ReconciliationRequired(r))
         /\ Legal(r, Reconciled(r))
         /\ Legal(r, ReauthRequired(r))
         /\ Activatable(r) => Legal(r, Activated(r))
<1>1. Legal(r, ReconciliationRequired(r))
  BY LegalSame, LegalStateOnly DEF ReconciliationRequired, State, Open
<1>2. Legal(r, Reconciled(r))
  BY LegalSame, LegalStateOnly DEF Reconciled, State, Open
<1>3. Legal(r, ReauthRequired(r))
  BY LegalSame, LegalStateOnly DEF ReauthRequired, State, Open
<1>4. ASSUME Activatable(r) PROVE Legal(r, Activated(r))
  <2>1. r.submitted >= 1 /\ r.state \in Open
    BY <1>4 DEF Activatable, RowOK, Row, Open
  <2>2. Activated(r) = [r EXCEPT !.state = "AUTONOMOUS_ACTIVE", !.policy = "AUTONOMOUS_AFTER_REVIEW"]
    BY DEF Activated, RowOK, Row
  <2> QED
    BY <2>1, <2>2, LegalState DEF State, Policy
<1> QED
  BY <1>1, <1>2, <1>3, <1>4

\* mark_mainnet_risk_order_submitted.
LEMMA MarkedLegal ==
  ASSUME NEW r, RowOK(r), Markable(r)
  PROVE  /\ RowOK(Marked(r)) /\ Marked(r).reserved = r.reserved
         /\ Marked(r).submitted = r.submitted + 1 /\ r.state \in Open \ {"NONE", "CLOSED"}
<1> DEFINE s == IF r.policy = "STAGED_FIRST_ORDER" THEN "PAUSED_NEW_RISK" ELSE "AUTONOMOUS_ACTIVE"
           q == [r EXCEPT !.submitted = r.submitted + 1, !.state = s]
<1>1. /\ r \in Row /\ r.submitted \in 0..MaxOrders /\ r.reserved \in 0..MaxOrders
      /\ r.submitted < r.reserved /\ r.state \in Open
  BY DEF Markable, RowOK, Row, Open
<1>2. r.submitted + 1 \in 0..MaxOrders /\ r.submitted + 1 <= r.reserved /\ r.submitted + 1 >= 1
      /\ r.submitted + 1 >= r.submitted /\ r.reserved >= r.reserved
  BY <1>1, MaxOrdersAssumption
<1>3. s \in State /\ s # "NONE"
  BY DEF State
<1> HIDE DEF s
<1>4. q \in Row /\ q.submitted = r.submitted + 1 /\ q.reserved = r.reserved /\ q.state = s
  BY <1>1, <1>2, <1>3 DEF Row
<1>5. Marked(r) = q
  BY DEF Marked, s
<1> HIDE DEF q
<1>6. q.policy = r.policy
  BY <1>1 DEF q, Row
<1>7. RowOK(q)
  BY <1>1, <1>2, <1>3, <1>4, <1>6 DEF RowOK
<1> QED
  BY <1>1, <1>4, <1>5, <1>7 DEF Open

\* reserve_mainnet_risk_order, and the release of a reservation.
LEMMA ReservedLegal ==
  ASSUME NEW r, RowOK(r), NEW n \in 0..MaxOrders, r.state \in Open, r.submitted <= n,
         r.policy = "STAGED_FIRST_ORDER" => n <= 1
  PROVE  /\ RowOK([r EXCEPT !.reserved = n])
         /\ [r EXCEPT !.reserved = n].submitted = r.submitted
         /\ [r EXCEPT !.reserved = n].reserved = n
         /\ [r EXCEPT !.reserved = n].state = r.state
<1> DEFINE q == [r EXCEPT !.reserved = n]
<1>1. q \in Row /\ q.submitted = r.submitted /\ q.reserved = n
      /\ q.state = r.state /\ q.policy = r.policy
  BY DEF RowOK, Row
<1> HIDE DEF q
<1>2. RowOK(q)
  BY <1>1 DEF RowOK, Row, Open
<1> QED
  BY <1>1, <1>2 DEF q

\* create_mainnet_launch_session.
LEMMA ClosedLegal ==
  ASSUME TableOK, NEW a, NEW b \in Approvals
  PROVE  Legal(row[b], Closed(a, b))
  BY LegalSame, LegalStateOnly DEF Closed, TableOK, State, Open

-----------------------------------------------------------------------------
(* The worker's records.                                                   *)

\* The absent row and the inserted one.
LEMMA NoRowOK == RowOK(NoRow) /\ NoRow.state = "NONE"
                 /\ RowOK([NoRow EXCEPT !.state = "ACTIVE"])
<1>1. NoRow \in Row /\ NoRow.state = "NONE" /\ NoRow.submitted = 0 /\ NoRow.reserved = 0
      /\ NoRow.policy = "STAGED_FIRST_ORDER"
  BY MaxOrdersAssumption DEF NoRow, Row, Policy
<1> DEFINE q == [NoRow EXCEPT !.state = "ACTIVE"]
<1>2. q \in Row /\ q.state = "ACTIVE" /\ q.submitted = 0 /\ q.reserved = 0
      /\ q.policy = "STAGED_FIRST_ORDER"
  BY <1>1 DEF Row, State
<1> HIDE DEF q
<1>3. RowOK(NoRow) /\ RowOK(q)
  BY <1>1, <1>2 DEF RowOK
<1> QED
  BY <1>1, <1>3 DEF q

\* A worker that has just started.
LEMMA NewWorkerOK == WorkerOK(NewWorker)
  BY NoRowOK DEF WorkerOK, NewWorker, Worker, RowOK

\* The assignments the worker makes to its own fields.
LEMMA Workers ==
  ASSUME NEW w, WorkerOK(w), NEW b \in BOOLEAN
  PROVE  /\ WorkerOK(Forget(w)) /\ WorkerOK(Disarmed(w)) /\ WorkerOK(Degraded(w))
         /\ \A a \in Approvals, r \in Row : WorkerOK([w EXCEPT !.launch = a, !.view = r])
         /\ \A r \in Row : WorkerOK([w EXCEPT !.view = r])
         /\ WorkerOK([w EXCEPT !.launch = NoSession])
         /\ WorkerOK([w EXCEPT !.live = b, !.ctl = "none"])
         /\ WorkerOK([w EXCEPT !.conf = b, !.ctl = "none"])
         /\ WorkerOK([w EXCEPT !.live = TRUE, !.adapter = "ready", !.ctl = "arming"])
         /\ WorkerOK([w EXCEPT !.pause = b])
         /\ WorkerOK([w EXCEPT !.kill = b])
         /\ WorkerOK([w EXCEPT !.killing = b])
         /\ WorkerOK([w EXCEPT !.releasing = b])
         /\ WorkerOK([w EXCEPT !.kill = TRUE, !.pause = TRUE])
         /\ WorkerOK([w EXCEPT !.releasing = FALSE, !.kill = FALSE])
         /\ \A s \in {"ready", "degraded"} : WorkerOK([w EXCEPT !.adapter = s])
<1>1. w \in Worker /\ (w.ctl \in {"continuing", "verified"} => w.target \in Approvals)
      /\ NoRow \in Row
  BY NoRowOK DEF WorkerOK, RowOK
<1>2. WorkerOK(Forget(w))
  BY <1>1 DEF WorkerOK, Worker, Forget
<1>3. WorkerOK(Disarmed(w))
  BY <1>1 DEF WorkerOK, Worker, Disarmed
<1>4. \A s \in {"ready", "degraded"} : WorkerOK([w EXCEPT !.adapter = s])
  BY <1>1 DEF WorkerOK, Worker
<1>5. WorkerOK(Degraded(w))
  BY <1>1, <1>4 DEF WorkerOK, Degraded
<1>6. /\ \A a \in Approvals, r \in Row : WorkerOK([w EXCEPT !.launch = a, !.view = r])
      /\ \A r \in Row : WorkerOK([w EXCEPT !.view = r])
      /\ WorkerOK([w EXCEPT !.launch = NoSession])
  BY <1>1 DEF WorkerOK, Worker
<1>7. WorkerOK([w EXCEPT !.live = b, !.ctl = "none"]) /\ WorkerOK([w EXCEPT !.conf = b, !.ctl = "none"])
  BY <1>1 DEF WorkerOK, Worker
<1>8. WorkerOK([w EXCEPT !.live = TRUE, !.adapter = "ready", !.ctl = "arming"])
  BY <1>1 DEF WorkerOK, Worker
<1>9. WorkerOK([w EXCEPT !.pause = b]) /\ WorkerOK([w EXCEPT !.kill = b])
  BY <1>1 DEF WorkerOK, Worker
<1>10. WorkerOK([w EXCEPT !.killing = b]) /\ WorkerOK([w EXCEPT !.releasing = b])
  BY <1>1 DEF WorkerOK, Worker
<1>11. WorkerOK([w EXCEPT !.kill = TRUE, !.pause = TRUE])
       /\ WorkerOK([w EXCEPT !.releasing = FALSE, !.kill = FALSE])
  BY <1>1 DEF WorkerOK, Worker
<1> QED
  BY <1>2, <1>3, <1>4, <1>5, <1>6, <1>7, <1>8, <1>9, <1>10, <1>11

\* Process p's worker becomes w.
LEMMA SetOK ==
  ASSUME WorkersOK, NEW p \in Procs, NEW w, WorkerOK(w), Set(p, w)
  PROVE  WorkersOK'
<1>1. w \in Worker /\ wk \in [Procs -> Worker] /\ wk' = [wk EXCEPT ![p] = w]
  BY DEF WorkersOK, WorkerOK, Set
<1>2. wk' \in [Procs -> Worker] /\ wk'[p] = w /\ \A q \in Procs \ {p} : wk'[q] = wk[q]
  BY <1>1
<1> QED
  BY <1>2 DEF WorkersOK

\* A table of legal successors.
Follows(t, u) ==
  /\ u \in [Approvals -> Row]
  /\ \A a \in Approvals : Legal(t[a], u[a])

\* A step that leaves the table alone.
LEMMA FollowsSame == TableOK => Follows(row, row)
  BY LegalSame DEF TableOK, Follows

\* One row becomes q.
LEMMA FollowsOne ==
  ASSUME TableOK, NEW a \in Approvals, NEW q, Legal(row[a], q)
  PROVE  Follows(row, [row EXCEPT ![a] = q])
<1> DEFINE t == [row EXCEPT ![a] = q]
<1>1. q \in Row /\ row \in [Approvals -> Row]
  BY DEF Legal, RowOK, TableOK
<1>2. t \in [Approvals -> Row] /\ t[a] = q /\ \A b \in Approvals \ {a} : t[b] = row[b]
  BY <1>1
<1> HIDE DEF t
<1>3. Follows(row, t)
  BY <1>2, LegalSame DEF Follows, TableOK
<1> QED
  BY <1>3 DEF t

\* _fence_autonomous_launch.
LEMMA FencesOK ==
  ASSUME TableOK, NEW t, Follows(row, t), NEW w, WorkerOK(w), NEW f \in Fences(t, w)
  PROVE  Follows(row, f.row) /\ WorkerOK(f.wk)
<1>1. \A a \in Approvals : RowOK(t[a]) /\ RowOK(row[a]) /\ Legal(row[a], t[a])
  BY DEF Follows, Legal, TableOK
<1>2. \A a \in Approvals : Legal(t[a], ReauthRequired(t[a]))
  BY <1>1, Statements
<1>3. \A a \in Approvals : Legal(row[a], ReauthRequired(t[a])) /\ ReauthRequired(t[a]) \in Row
  BY <1>1, <1>2, LegalTransitive DEF Legal, RowOK
<1>4. Follows(row, Fenced(t))
  BY <1>3 DEF Follows, Fenced
<1>5. f.row \in {t, Fenced(t)}
  BY DEF Fences
<1>6. \/ f.wk \in {w, Forget(w)}
      \/ w.launch # NoSession /\ f.wk = [w EXCEPT !.view = Fenced(t)[w.launch]]
  BY DEF Fences
<1>7. w.launch \in Approvals \cup {NoSession}
  BY DEF WorkerOK, Worker
<1>8. ASSUME w.launch \in Approvals PROVE Fenced(t)[w.launch] \in Row
  BY <1>3, <1>8 DEF Fenced
<1>9. ASSUME NEW r \in Row PROVE WorkerOK([w EXCEPT !.view = r])
  BY DEF WorkerOK, Worker
<1>10. WorkerOK(Forget(w))
  BY NoRowOK DEF WorkerOK, Worker, Forget, RowOK
<1>11. WorkerOK(f.wk)
  BY <1>6, <1>7, <1>8, <1>9, <1>10
<1> QED
  BY <1>4, <1>5, <1>11

-----------------------------------------------------------------------------
(* The steps of a process: the table and the workers.                      *)

Inserted ==
  \E a \in Approvals : row[a].state = "NONE" /\ ~Unreviewed(a) /\ row' = Created(a)

\* A rejected order gives a reservation of its worker's session back.
Released ==
  \E p \in Procs :
    /\ op[p].pc = "rejected" /\ op'[p].pc = "done"
    /\ wk[p].launch \in Approvals /\ Releasable(row[wk[p].launch])
    /\ row' = [row EXCEPT ![wk[p].launch].reserved = @ - 1]

\* A confirmed order is counted in its worker's session.
Counted ==
  \E p \in Procs :
    /\ op[p].pc = "confirmed" /\ op'[p].pc = "done"
    /\ wk[p].launch \in Approvals /\ Markable(row[wk[p].launch])
    /\ row' = [row EXCEPT ![wk[p].launch] = Marked(@)]

Reserved == \E p \in Procs : Reserve(p)

TableStep ==
  /\ Follows(row, row') \/ Inserted \/ Released \/ Counted \/ Reserved
  /\ WorkersOK'

\* A step that leaves the table alone.
LEMMA SetStep ==
  ASSUME Inv, row' = row, NEW p \in Procs, NEW w, WorkerOK(w), Set(p, w)
  PROVE  TableStep
  BY SetOK, FollowsSame DEF Inv, TableStep

\* _fence_autonomous_launch on the table t and the worker w, which is then
\* changed to one of its kind.
LEMMA FencedStep ==
  ASSUME Inv, NEW p \in Procs, NEW t, Follows(row, t), NEW w, WorkerOK(w),
         NEW f \in Fences(t, w), row' = f.row, NEW v, WorkerOK(f.wk) => WorkerOK(v), Set(p, v)
  PROVE  TableStep
  BY FencesOK, SetOK DEF Inv, TableStep

\* _reset_after_failed_exchange_arm.
LEMMA ResetArmStep ==
  ASSUME Inv, NEW p \in Procs, ResetFailedArm(p) PROVE WorkersOK'
<1>1. WorkerOK(wk[p])
  BY DEF Inv, WorkersOK
<1>2. WorkerOK([Disarmed(Forget(wk[p])) EXCEPT !.live = FALSE, !.ctl = "none"])
  BY <1>1, Workers
<1> QED
  BY <1>2, SetOK DEF Inv, ResetFailedArm

\* _reset_after_failed_continuation.
LEMMA ResetContinuationStep ==
  ASSUME Inv, NEW p \in Procs, NEW t, Follows(row, t), NEW w, WorkerOK(w),
         ResetFailedContinuation(p, t, w)
  PROVE  TableStep
<1>1. PICK f \in Fences(t, w) :
        row' = f.row /\ Set(p, [Disarmed(f.wk) EXCEPT !.live = TRUE, !.ctl = "none"])
  BY DEF ResetFailedContinuation
<1>2. WorkerOK(f.wk) => WorkerOK([Disarmed(f.wk) EXCEPT !.live = TRUE, !.ctl = "none"])
  BY Workers
<1> QED
  BY <1>1, <1>2, FencedStep

\* set_kill_switch(True).
LEMMA KillStep ==
  ASSUME Inv, NEW p \in Procs, KillOn(p) PROVE TableStep
<1> DEFINE w == [wk[p] EXCEPT !.kill = TRUE, !.pause = TRUE]
<1>1. WorkerOK(wk[p]) /\ WorkerOK(w)
  BY Workers DEF Inv, WorkersOK
<1>2. PICK f \in Fences(row, w) :
        row' = f.row /\ Set(p, [Degraded(f.wk) EXCEPT !.killing = (f.wk.adapter # "none")])
  BY DEF KillOn
<1>3. WorkerOK(f.wk) =>
        WorkerOK([Degraded(f.wk) EXCEPT !.killing = (f.wk.adapter # "none")])
  BY Workers
<1>4. Follows(row, row)
  BY FollowsSame DEF Inv
<1> HIDE DEF w
<1> QED
  BY <1>1, <1>2, <1>3, <1>4, FencedStep

\* trigger_reconciliation.
LEMMA ReconcilesStep ==
  ASSUME Inv, NEW p \in Procs, NEW w, WorkerOK(w), Reconciles(p, w) PROVE TableStep
<1>1. CASE row' = row /\ Set(p, w)
  BY <1>1, SetStep
<1>2. CASE ReconciledInSync(p, w)
  <2>1. w.launch \in Approvals /\ TableOK
    BY <1>2 DEF ReconciledInSync, WorkerOK, Worker, Inv
  <2>2. Legal(row[w.launch], Reconciled(row[w.launch]))
    BY <2>1, Statements DEF TableOK
  <2>3. Follows(row, row')
    BY <1>2, <2>1, <2>2, FollowsOne DEF ReconciledInSync
  <2>4. row'[w.launch] \in Row
    BY <2>1, <2>3 DEF Follows
  <2>5. PICK v \in {w, Project(w, w.launch)} : Set(p, v)
    BY <1>2 DEF ReconciledInSync
  <2>6. WorkerOK(Project(w, w.launch))
    BY <2>1, <2>4, Workers DEF Project
  <2>7. WorkerOK(v)
    BY <2>5, <2>6
  <2> QED
    BY <2>3, <2>5, <2>7, SetOK DEF TableStep, Inv
<1> QED
  BY <1>1, <1>2 DEF Reconciles

\* The calls of the operator.
LEMMA OperatorStep ==
  ASSUME Inv, NEW p \in Procs, Operator(p) PROVE TableStep
<1>1. WorkerOK(wk[p]) /\ TableOK /\ Follows(row, row)
  BY FollowsSame DEF Inv, WorkersOK
<1>2. CASE ArmConnect(p)
  <2>1. row' = row
    BY <1>2 DEF ArmConnect
  <2>2. CASE ResetFailedArm(p)
    BY <1>1, <2>1, <2>2, ResetArmStep DEF TableStep
  <2>3. CASE Set(p, [wk[p] EXCEPT !.live = TRUE, !.adapter = "ready", !.ctl = "arming"])
    BY <1>1, <2>1, <2>3, Workers, SetStep
  <2> QED
    BY <1>2, <2>2, <2>3 DEF ArmConnect
<1>3. CASE disarm(p)
  <2>1. PICK f \in Fences(row, wk[p]) :
          row' = f.row /\ Set(p, [Disarmed(f.wk) EXCEPT !.launch = NoSession])
    BY <1>3 DEF disarm
  <2>2. WorkerOK(f.wk) => WorkerOK([Disarmed(f.wk) EXCEPT !.launch = NoSession])
    BY Workers
  <2> QED
    BY <1>1, <2>1, <2>2, FencedStep
<1>4. CASE KillActivate(p)
  BY <1>4, KillStep DEF KillActivate
<1>5. CASE KillReleaseStart(p)
  BY <1>1, <1>5, Workers, SetStep DEF KillReleaseStart
<1>6. CASE KillReleasePaper(p)
  BY <1>1, <1>6, Workers, SetStep DEF KillReleasePaper
<1>7. ASSUME NEW a \in Approvals, ContinueConnect(p, a) PROVE TableStep
  <2> DEFINE w == [wk[p] EXCEPT !.launch = a, !.view = row[a], !.target = a, !.live = TRUE,
                                !.ctl = "continuing", !.adapter = "ready"]
  <2>1. row[a] \in Row /\ wk[p] \in Worker
    BY <1>1 DEF TableOK, WorkerOK
  <2>2. WorkerOK(w)
    BY <2>1 DEF WorkerOK, Worker
  <2> HIDE DEF w
  <2>3. CASE row' = row /\ Set(p, w)
    BY <2>2, <2>3, SetStep
  <2>4. CASE ResetFailedContinuation(p, row, w)
    BY <1>1, <2>2, <2>4, ResetContinuationStep
  <2> QED
    BY <1>7, <2>3, <2>4 DEF ContinueConnect, w
<1>8. ASSUME NEW a \in Approvals, ReadSession(p, a) PROVE TableStep
  <2>1. row' = row /\ Set(p, Project(wk[p], a)) /\ row'[a] \in Row
    BY <1>1, <1>8 DEF ReadSession, TableOK
  <2>2. WorkerOK(Project(wk[p], a))
    BY <1>1, <2>1, Workers DEF Project
  <2> QED
    BY <2>1, <2>2, SetStep
<1>9. ASSUME NEW active \in BOOLEAN, set_pause_new_risk(p, active) PROVE TableStep
  <2>1. row' = row /\ \E b \in BOOLEAN : Set(p, [wk[p] EXCEPT !.pause = b])
    BY <1>9 DEF set_pause_new_risk
  <2> QED
    BY <1>1, <2>1, Workers, SetStep
<1> QED
  BY <1>2, <1>3, <1>4, <1>5, <1>6, <1>7, <1>8, <1>9 DEF Operator

\* What goes on between the awaits of those calls.
LEMMA ControlStep ==
  ASSUME Inv, NEW p \in Procs, Control(p) PROVE TableStep
<1>1. WorkerOK(wk[p]) /\ TableOK /\ Follows(row, row)
  BY FollowsSame DEF Inv, WorkersOK
<1>2. ASSUME NEW a \in Approvals, ArmSession(p, a) PROVE TableStep
  <2>1. Follows(row, [b \in Approvals |-> Closed(a, b)])
    BY <1>1, ClosedLegal DEF Follows, Legal, RowOK
  <2>2. \/ Created(a) = [b \in Approvals |-> Closed(a, b)]
        \/ row[a].state = "NONE" /\ ~Unreviewed(a)
    BY DEF Created
  <2>3. row' \in {row, [b \in Approvals |-> Closed(a, b)], Created(a)}
    BY <1>2 DEF ArmSession
  <2>4. Follows(row, row') \/ Inserted
    BY <1>1, <2>1, <2>2, <2>3 DEF Inserted
  <2>5. CASE ResetFailedArm(p)
    BY <2>4, <2>5, ResetArmStep DEF TableStep
  <2>6. CASE Set(p, [Project(wk[p], a) EXCEPT !.conf = TRUE, !.ctl = "none"])
    <3>1. row'[a] \in Row
      <4>1. CASE Follows(row, row')
        BY <4>1 DEF Follows
      <4>2. CASE row' = Created(a)
        <5>1. row'[a] \in {[NoRow EXCEPT !.state = "ACTIVE"], Closed(a, a)}
          BY <4>2 DEF Created
        <5> QED
          BY <1>1, <5>1, NoRowOK, ClosedLegal DEF RowOK, Legal
      <4> QED
        BY <1>1, <2>1, <2>3, <4>1, <4>2
    <3>2. WorkerOK(Project(wk[p], a))
      BY <1>1, <3>1, Workers DEF Project
    <3>3. WorkerOK([Project(wk[p], a) EXCEPT !.conf = TRUE, !.ctl = "none"])
      BY <3>2, Workers
    <3> QED
      BY <2>4, <2>6, <3>3, SetOK DEF TableStep, Inv
  <2> QED
    BY <1>2, <2>5, <2>6 DEF ArmSession
<1>3. CASE ContinueVerify(p)
  <2>1. CASE /\ row' = row /\ wk[p].ctl = "continuing"
             /\ Set(p, [wk[p] EXCEPT !.view = row[wk[p].launch], !.ctl = "verified"])
             /\ ContinuationReady(wk[p])
    <3>1. wk[p] \in Worker /\ wk[p].launch \in Approvals /\ wk[p].target \in Approvals
      BY <1>1, <2>1 DEF ContinuationReady, WorkerOK, Worker
    <3>2. row[wk[p].launch] \in Row
      BY <1>1, <3>1 DEF TableOK
    <3>3. WorkerOK([wk[p] EXCEPT !.view = row[wk[p].launch], !.ctl = "verified"])
      BY <3>1, <3>2 DEF WorkerOK, Worker
    <3> QED
      BY <2>1, <3>3, SetStep
  <2>2. CASE ResetFailedContinuation(p, row, wk[p])
    BY <1>1, <2>2, ResetContinuationStep
  <2> QED
    BY <1>3, <2>1, <2>2 DEF ContinueVerify
<1>4. CASE ContinueActivate(p)
  <2> DEFINE a == wk[p].target
             w == [wk[p] EXCEPT !.launch = a, !.view = Activated(row[a]), !.conf = TRUE,
                                !.pause = FALSE, !.ctl = "none"]
             t == [row EXCEPT ![a] = Activated(row[a])]
  <2>1. a \in Approvals /\ wk[p] \in Worker
    BY <1>1, <1>4 DEF ContinueActivate, WorkerOK
  <2>2. ASSUME Activatable(row[a]) PROVE Follows(row, t) /\ WorkerOK(w)
    <3>1. Legal(row[a], Activated(row[a]))
      BY <1>1, <2>1, <2>2, Statements DEF TableOK
    <3>2. Activated(row[a]) \in Row
      BY <3>1 DEF Legal, RowOK
    <3>3. WorkerOK(w)
      BY <2>1, <3>2 DEF WorkerOK, Worker
    <3> QED
      BY <1>1, <2>1, <3>1, <3>3, FollowsOne
  <2> HIDE DEF a, w, t
  <2>3. CASE Activatable(row[a]) /\ row' = t /\ Set(p, w)
    BY <2>2, <2>3, SetOK DEF TableStep, Inv
  <2>4. CASE Activatable(row[a]) /\ ResetFailedContinuation(p, t, w)
    BY <2>2, <2>4, ResetContinuationStep
  <2>5. CASE ResetFailedContinuation(p, row, wk[p])
    BY <1>1, <2>5, ResetContinuationStep
  <2> QED
    BY <1>4, <2>3, <2>4, <2>5 DEF ContinueActivate, a, w, t
<1>5. CASE KillVerify(p)
  BY <1>1, <1>5, Workers, ReconcilesStep DEF KillVerify
<1>6. CASE KillReleaseCommit(p)
  <2>1. CASE Reconciles(p, [wk[p] EXCEPT !.releasing = FALSE, !.kill = FALSE])
    BY <1>1, <2>1, Workers, ReconcilesStep
  <2>2. CASE row' = row /\ Set(p, [wk[p] EXCEPT !.releasing = FALSE])
    BY <1>1, <2>2, Workers, SetStep
  <2> QED
    BY <1>6, <2>1, <2>2 DEF KillReleaseCommit
<1>7. CASE Reconcile(p)
  BY <1>1, <1>7, ReconcilesStep DEF Reconcile
<1>8. CASE PipelineError(p)
  BY <1>1, <1>8, Workers, SetStep DEF PipelineError
<1> QED
  BY <1>2, <1>3, <1>4, <1>5, <1>6, <1>7, <1>8 DEF Control

\* _on_order_submission_result and what surrounds it.
LEMMA NotifyStep ==
  ASSUME Inv, NEW p \in Procs, Notify(p) PROVE TableStep
<1> DEFINE a == wk[p].launch
<1>1. WorkerOK(wk[p]) /\ TableOK /\ WorkersOK /\ Follows(row, row)
  BY FollowsSame DEF Inv, WorkersOK
<1>2. CASE UNCHANGED <<row, wk>>
  BY <1>1, <1>2 DEF TableStep, WorkersOK
<1>3. CASE row' = row /\ Set(p, DegradeOf(p, wk[p]))
  <2>1. WorkerOK(DegradeOf(p, wk[p]))
    BY <1>1, Workers DEF DegradeOf
  <2> QED
    BY <1>3, <2>1, SetStep
<1>4. ASSUME a # NoSession PROVE a \in Approvals /\ RowOK(row[a]) /\ row \in [Approvals -> Row]
  BY <1>1, <1>4 DEF WorkerOK, Worker, TableOK
<1>5. CASE a # NoSession /\ op[p].pc = "rejected" /\ OnRejected(p)
  <2>1. wk' = wk
    BY <1>5 DEF OnRejected
  <2>2. CASE row' = row
    BY <1>1, <2>1, <2>2 DEF TableStep, WorkersOK
  <2>3. CASE Releasable(row[a]) /\ row' = [row EXCEPT ![a] = [row[a] EXCEPT !.reserved = row[a].reserved - 1]]
    <3>1. op[p].pc = "rejected" /\ op'[p].pc = "done"
      BY <1>5 DEF Notify, Step, Inv, OpsOK, Op
    <3>2. Released
      BY <1>4, <1>5, <2>3, <3>1 DEF Released
    <3> QED
      BY <1>1, <2>1, <3>2 DEF TableStep, WorkersOK
  <2> QED
    BY <1>5, <2>2, <2>3 DEF OnRejected
<1>6. CASE a # NoSession /\ op[p].pc = "confirmed" /\ OnConfirmed(p)
  <2>1. CASE ~Markable(row[a])
    BY <1>1, <1>6, <2>1, Workers, SetStep DEF OnConfirmed
  <2>2. CASE Markable(row[a])
    <3>1. row' = [row EXCEPT ![a] = Marked(row[a])]
      BY <1>6, <2>2 DEF OnConfirmed
    <3>2. op[p].pc = "confirmed" /\ op'[p].pc = "done"
      BY <1>6 DEF Notify, Step, Inv, OpsOK, Op
    <3>3. Counted /\ row'[a] \in Row
      <4>1. Marked(row[a]) \in Row
        BY <1>4, <1>6, <2>2, MarkedLegal DEF RowOK
      <4> QED
        BY <1>4, <1>6, <2>2, <3>1, <3>2, <4>1 DEF Counted
    <3>4. WorkerOK(Project(wk[p], a))
      BY <1>1, <1>4, <1>6, <3>3, Workers DEF Project
    <3>5. \E w \in {wk[p], Project(wk[p], a)}, b \in BOOLEAN : Set(p, [w EXCEPT !.pause = b])
      BY <1>6, <2>2 DEF OnConfirmed
    <3> QED
      BY <1>1, <3>3, <3>4, <3>5, Workers, SetOK DEF TableStep
  <2> QED
    BY <2>1, <2>2
<1>7. CASE a # NoSession /\ OnAmbiguous(p)
  <2>1. row' = [row EXCEPT ![a] = ReconciliationRequired(row[a])]
        /\ Set(p, [wk[p] EXCEPT !.pause = TRUE])
    BY <1>7 DEF OnAmbiguous
  <2>2. Legal(row[a], ReconciliationRequired(row[a]))
    BY <1>4, <1>7, Statements
  <2>3. Follows(row, row')
    <3> HIDE DEF a
    <3> QED
      BY <1>1, <1>4, <1>7, <2>1, <2>2, FollowsOne
  <2> QED
    BY <1>1, <2>1, <2>3, Workers, SetOK DEF TableStep
<1> QED
  BY <1>2, <1>3, <1>5, <1>6, <1>7 DEF Notify

\* The steps of an order.
LEMMA OrderStep ==
  ASSUME Inv, NEW p \in Procs, Order(p) PROVE TableStep
<1>1. WorkerOK(wk[p]) /\ TableOK /\ WorkersOK /\ Follows(row, row)
  BY FollowsSame DEF Inv, WorkersOK
<1>2. CASE UNCHANGED <<row, wk>>
  BY <1>1, <1>2 DEF TableStep, WorkersOK
<1>3. ASSUME NEW w, WorkerOK(w) PROVE WorkerOK(DegradeOf(p, w))
  BY <1>3, Workers DEF DegradeOf
<1>4. CASE Reserve(p)
  BY <1>1, <1>4 DEF Reserve, Reserved, TableStep, WorkersOK
<1>5. CASE ReserveFails(p)
  <2>1. wk[p].live \in BOOLEAN /\ wk[p].pause \in BOOLEAN
    BY <1>1 DEF WorkerOK, Worker
  <2>2. row' = row /\ \E b \in BOOLEAN : Set(p, DegradeOf(p, [wk[p] EXCEPT !.pause = b]))
    BY <1>5, <2>1 DEF ReserveFails
  <2> QED
    BY <1>1, <1>3, <2>2, Workers, SetStep
<1>6. CASE AssertLease(p)
  <2>1. row' = row /\ (wk' = wk \/ Set(p, DegradeOf(p, wk[p])))
    BY <1>6 DEF AssertLease
  <2> QED
    BY <1>1, <1>2, <1>3, <2>1, SetStep
<1>7. CASE Respond(p)
  <2>1. row' = row /\ \E w \in {wk[p], DegradeOf(p, wk[p])} : Set(p, w)
    BY <1>7 DEF Respond
  <2> QED
    BY <1>1, <1>3, <2>1, SetStep
<1>8. CASE Resolve(p)
  <2>1. row' = row /\ \E w \in {[wk[p] EXCEPT !.adapter = "ready"], DegradeOf(p, wk[p])} : Set(p, w)
    BY <1>8 DEF Resolve
  <2>2. WorkerOK([wk[p] EXCEPT !.adapter = "ready"])
    BY <1>1, Workers
  <2> QED
    BY <1>1, <1>3, <2>1, <2>2, SetStep
<1>9. CASE Finish(p)
  BY <1>2, <1>9, KillStep DEF Finish
<1> QED
  BY <1>2, <1>4, <1>5, <1>6, <1>7, <1>8, <1>9, NotifyStep
  DEF Order, ExecuteDecision, ReserveSkipped, Post

\* start() of a new process.
LEMMA RestartStep ==
  ASSUME Inv, NEW p \in Procs, Restart(p) PROVE TableStep
<1>1. WorkerOK(wk[p]) /\ TableOK /\ WorkersOK /\ Follows(row, row)
  BY FollowsSame DEF Inv, WorkersOK
<1>2. Follows(row, Fenced(row))
  <2>1. \A a \in Approvals : Legal(row[a], ReauthRequired(row[a]))
    BY <1>1, Statements DEF TableOK
  <2> QED
    BY <2>1 DEF Follows, Fenced, Legal, RowOK
<1>3. row' \in {row, Fenced(row)}
  BY DEF Restart
<1>4. Follows(row, row')
  BY <1>1, <1>2, <1>3
<1>5. CASE Set(p, NewWorker)
  BY <1>1, <1>4, <1>5, NewWorkerOK, SetOK DEF TableStep
<1>6. ASSUME NEW a \in Approvals, Set(p, Project(NewWorker, a)) PROVE TableStep
  <2>1. row'[a] \in Row
    BY <1>4 DEF Follows
  <2>2. WorkerOK(Project(NewWorker, a))
    BY <2>1, NewWorkerOK, Workers DEF Project
  <2> QED
    BY <1>1, <1>4, <1>6, <2>2, SetOK DEF TableStep
<1> QED
  BY <1>5, <1>6 DEF Restart

\* Every step: rows follow legally, or one is inserted, or a rejected order
\* gives its reservation back.
LEMMA TableNext ==
  ASSUME Inv, [Next]_vars PROVE TableStep
<1>1. TableOK /\ WorkersOK /\ Follows(row, row)
  BY FollowsSame DEF Inv
<1>2. CASE UNCHANGED <<row, wk>>
  BY <1>1, <1>2 DEF TableStep, WorkersOK
<1>3. ASSUME NEW p \in Procs, AdapterChanges(p) PROVE TableStep
  <2>1. row' = row /\ \E s \in {"ready", "degraded"} : Set(p, [wk[p] EXCEPT !.adapter = s])
    BY <1>3 DEF AdapterChanges
  <2>2. WorkerOK(wk[p])
    BY <1>1 DEF WorkersOK
  <2> QED
    BY <2>1, <2>2, Workers, SetStep
<1> QED
  BY <1>2, <1>3, OperatorStep, ControlStep, OrderStep, RestartStep
  DEF Next, vars, Exchange, LeaseExpires

-----------------------------------------------------------------------------
(* The orders in progress.                                                 *)

\* One order changes.
LEMMA OneOp ==
  ASSUME OpsOK, NEW p \in Procs, NEW o, OpOK(o), op' = [op EXCEPT ![p] = o] PROVE OpsOK'
<1>1. o \in Op /\ op \in [Procs -> Op]
  BY DEF OpsOK, OpOK
<1>2. op' \in [Procs -> Op] /\ op'[p] = o /\ \A q \in Procs \ {p} : op'[q] = op[q]
  BY <1>1
<1> QED
  BY <1>2 DEF OpsOK

\* An order goes on.
LEMMA StepOps ==
  ASSUME OpsOK, NEW p \in Procs, NEW pc \in OpPC, Step(p, pc),
         pc \in Underway => op[p].pc \in Underway,
         pc \in {"idle", "barrier", "reserved", "leased"} =>
           op[p].pc \in {"idle", "barrier", "reserved", "leased"},
         pc = "confirmed" => op[p].answer = "accepted"
  PROVE  OpsOK'
<1>1. OpOK(op[p]) /\ op \in [Procs -> Op]
  BY DEF OpsOK
<1> DEFINE o == [op[p] EXCEPT !.pc = pc]
<1>2. /\ o \in Op /\ o.pc = pc /\ o.session = op[p].session /\ o.answer = op[p].answer
      /\ op' = [op EXCEPT ![p] = o]
  BY <1>1 DEF Op, OpOK, Step
<1> HIDE DEF o
<1>3. OpOK(o)
  BY <1>1, <1>2 DEF OpOK
<1> QED
  BY <1>2, <1>3, OneOp

\* The adapter of an order is closed.
LEMMA ClosedOps ==
  ASSUME OpsOK, NEW p \in Procs, op' = [op EXCEPT ![p].closed = (op[p].pc # "idle")]
  PROVE  OpsOK'
<1> DEFINE b == (op[p].pc # "idle")
           o == [op[p] EXCEPT !.closed = b]
<1>1. OpOK(op[p]) /\ op \in [Procs -> Op] /\ op' = [op EXCEPT ![p] = o]
  BY DEF OpsOK
<1>2. b \in BOOLEAN
  OBVIOUS
<1> HIDE DEF b
<1>3. o \in Op /\ o.pc = op[p].pc /\ o.session = op[p].session /\ o.answer = op[p].answer
  BY <1>1, <1>2 DEF Op, OpOK
<1> HIDE DEF o
<1>4. OpOK(o)
  BY <1>1, <1>3 DEF OpOK
<1> QED
  BY <1>1, <1>4, OneOp

\* No order in progress.
LEMMA NoOpOK == OpOK(NoOp)
  BY DEF NoOp, OpOK, Op, OpPC, Underway

\* An order ends.
LEMMA NoOps ==
  ASSUME OpsOK, NEW p \in Procs, op' = [op EXCEPT ![p] = NoOp] PROVE OpsOK'
  BY NoOpOK, OneOp

\* Every step keeps the orders.
LEMMA OpsStep ==
  ASSUME Inv, [Next]_vars PROVE OpsOK'
<1>1. OpsOK /\ WorkersOK
  BY DEF Inv
<1>2. CASE op' = op
  BY <1>1, <1>2 DEF OpsOK
<1>3. ASSUME NEW p \in Procs, CloseAdapter(p) PROVE OpsOK'
  BY <1>1, <1>3, ClosedOps DEF CloseAdapter
<1>4. ASSUME NEW p \in Procs, Operator(p) PROVE OpsOK'
  <2>1. CASE ArmConnect(p)
    BY <1>1, <1>3, <2>1, ClosedOps DEF ArmConnect, ResetFailedArm
  <2>2. ASSUME NEW a \in Approvals, ContinueConnect(p, a) PROVE OpsOK'
    BY <1>1, <1>2, <1>3, <2>2, ClosedOps DEF ContinueConnect, ResetFailedContinuation
  <2> QED
    BY <1>2, <1>3, <1>4, <2>1, <2>2
    DEF Operator, disarm, KillActivate, KillReleaseStart, KillReleasePaper, ReadSession,
        set_pause_new_risk
<1>5. ASSUME NEW p \in Procs, Control(p) PROVE OpsOK'
  <2>1. ASSUME NEW a \in Approvals, ArmSession(p, a) PROVE OpsOK'
    BY <1>2, <1>3, <2>1 DEF ArmSession, ResetFailedArm
  <2>2. CASE ContinueVerify(p)
    BY <1>2, <1>3, <2>2 DEF ContinueVerify, ResetFailedContinuation
  <2>3. CASE ContinueActivate(p)
    BY <1>2, <1>3, <2>3 DEF ContinueActivate, ResetFailedContinuation
  <2> QED
    BY <1>2, <1>5, <2>1, <2>2, <2>3
    DEF Control, KillVerify, KillReleaseCommit, Reconcile, PipelineError
<1>6. ASSUME NEW p \in Procs, Order(p) PROVE OpsOK'
  <2>1. CASE Reserve(p)
    <3>1. wk[p].launch \in Approvals /\ op[p] \in Op /\ op[p].answer = "none"
      BY <1>1, <2>1 DEF Reserve, MayReserve, WorkersOK, WorkerOK, Worker, OpsOK, OpOK
    <3> DEFINE o == [op[p] EXCEPT !.pc = "reserved", !.session = wk[p].launch]
    <3>2. o \in Op /\ o.pc = "reserved" /\ o.session = wk[p].launch /\ o.answer = "none"
      BY <3>1 DEF Op, OpPC
    <3>3. op' = [op EXCEPT ![p] = o]
      BY <1>1, <2>1 DEF Reserve, OpsOK
    <3> HIDE DEF o
    <3>4. OpOK(o)
      BY <3>1, <3>2 DEF OpOK
    <3> QED
      BY <1>1, <3>3, <3>4, OneOp
  <2>2. CASE Finish(p)
    BY <1>1, <2>2, NoOps DEF Finish
  <2>3. OpOK(op[p]) /\ op[p].pc \in OpPC
    BY <1>1 DEF OpsOK, OpOK, Op
  <2>4. CASE Step(p, "done")
    BY <1>1, <2>4, StepOps DEF OpPC, Underway
  <2>5. CASE ExecuteDecision(p)
    BY <1>1, <2>5, StepOps DEF ExecuteDecision, OpPC, Underway
  <2>6. CASE AssertLease(p) \/ Post(p)
    <3>1. \/ op[p].pc = "reserved" /\ (Step(p, "leased") \/ Step(p, "rejected"))
          \/ op[p].pc = "leased" /\ (Step(p, "posted") \/ Step(p, "unverified"))
      BY <2>6 DEF AssertLease, Post
    <3> QED
      BY <1>1, <3>1, StepOps DEF OpPC, Underway
  <2>7. CASE Respond(p)
    <3>1. PICK pc \in Outcomes(op[p].answer) : Step(p, pc)
      BY <2>7 DEF Respond
    <3>2. /\ pc \in {"ambiguous", "unverified", "confirmed", "rejected"}
          /\ pc = "confirmed" => op[p].answer = "accepted"
      BY DEF Outcomes
    <3>3. op[p].pc = "posted"
      BY <2>7 DEF Respond
    <3> QED
      BY <1>1, <3>1, <3>2, <3>3, StepOps DEF OpPC, Underway
  <2>8. CASE Notify(p)
    <3>1. Step(p, "done") \/ (op[p].pc = "ambiguous" /\ Step(p, "resolve"))
      BY <2>8 DEF Notify
    <3> QED
      BY <1>1, <2>4, <3>1, StepOps DEF OpPC, Underway
  <2>9. CASE Resolve(p)
    <3>1. \/ Step(p, "done")
          \/ op[p].pc = "resolve" /\ op[p].answer = "accepted" /\ Step(p, "confirmed")
      BY <2>9 DEF Resolve
    <3> QED
      BY <1>1, <2>4, <3>1, StepOps DEF OpPC, Underway
  <2> QED
    BY <1>6, <2>1, <2>2, <2>4, <2>5, <2>6, <2>7, <2>8, <2>9
    DEF Order, ReserveSkipped, ReserveFails
<1>7. ASSUME NEW p \in Procs, NEW s \in Approvals, Exchange(p, s) PROVE OpsOK'
  <2>1. CASE /\ op[p].pc = "posted"
             /\ \E n \in {"accepted", "refused"} : op' = [op EXCEPT ![p].answer = n]
    <3>1. PICK n \in {"accepted", "refused"} : op' = [op EXCEPT ![p].answer = n]
      BY <2>1
    <3> DEFINE o == [op[p] EXCEPT !.answer = n]
    <3>2. OpOK(op[p]) /\ op \in [Procs -> Op] /\ op' = [op EXCEPT ![p] = o]
      BY <1>1, <3>1 DEF OpsOK
    <3>3. o \in Op /\ o.pc = op[p].pc /\ o.session = op[p].session
      BY <3>2 DEF OpOK, Op
    <3> HIDE DEF o
    <3>4. OpOK(o)
      BY <2>1, <3>2, <3>3 DEF OpOK
    <3> QED
      BY <1>1, <3>2, <3>4, OneOp
  <2> QED
    BY <1>2, <1>7, <2>1 DEF Exchange
<1> QED
  BY <1>1, <1>2, <1>4, <1>5, <1>6, <1>7, NoOps
  DEF Next, vars, AdapterChanges, Restart, LeaseExpires

\* The lease, the exchange and the requests on their way.
LEMMA ExchangeStep ==
  ASSUME Inv, [Next]_vars PROVE ExchangeOK'
<1>1. ExchangeOK
  BY DEF Inv
<1>2. CASE UNCHANGED <<lease, accepted, wire>>
  BY <1>1, <1>2 DEF ExchangeOK
<1>3. ASSUME UNCHANGED <<accepted, wire>>, lease' \in Procs \cup {NoProc, Dead, lease}
      PROVE  ExchangeOK'
  BY <1>1, <1>3 DEF ExchangeOK
<1>4. ASSUME NEW p \in Procs, CloseAdapter(p), UNCHANGED <<accepted, wire>> PROVE ExchangeOK'
  BY <1>3, <1>4 DEF CloseAdapter
<1>5. ASSUME NEW p \in Procs, Operator(p) PROVE ExchangeOK'
  <2>1. CASE ArmConnect(p)
    BY <1>3, <1>4, <2>1 DEF ArmConnect, ResetFailedArm
  <2>2. ASSUME NEW a \in Approvals, ContinueConnect(p, a) PROVE ExchangeOK'
    BY <1>2, <1>3, <1>4, <2>2 DEF ContinueConnect, ResetFailedContinuation
  <2> QED
    BY <1>2, <1>4, <1>5, <2>1, <2>2
    DEF Operator, disarm, KillActivate, KillReleaseStart, KillReleasePaper, ReadSession,
        set_pause_new_risk
<1>6. ASSUME NEW p \in Procs, Control(p) PROVE ExchangeOK'
  <2>1. ASSUME NEW a \in Approvals, ArmSession(p, a) PROVE ExchangeOK'
    BY <1>2, <1>4, <2>1 DEF ArmSession, ResetFailedArm
  <2>2. CASE ContinueVerify(p)
    BY <1>2, <1>4, <2>2 DEF ContinueVerify, ResetFailedContinuation
  <2>3. CASE ContinueActivate(p)
    BY <1>2, <1>4, <2>3 DEF ContinueActivate, ResetFailedContinuation
  <2> QED
    BY <1>2, <1>6, <2>1, <2>2, <2>3
    DEF Control, KillVerify, KillReleaseCommit, Reconcile, PipelineError
<1>7. ASSUME NEW p \in Procs, Order(p) PROVE ExchangeOK'
  <2>1. CASE Post(p)
    <3>1. op[p].session \in Approvals
      BY <2>1 DEF Post, Inv, OpsOK, OpOK, Underway
    <3> QED
      BY <1>1, <2>1, <3>1 DEF Post, ExchangeOK
  <2> QED
    BY <1>2, <1>7, <2>1
    DEF Order, ExecuteDecision, Reserve, ReserveSkipped, ReserveFails, AssertLease, Respond,
        Notify, Resolve, Finish
<1>8. ASSUME NEW p \in Procs, NEW s \in Approvals, Exchange(p, s) PROVE ExchangeOK'
  <2>1. accepted[s] \in Nat /\ accepted[s] + 1 \in Nat
    BY <1>1 DEF ExchangeOK
  <2>2. \E n \in Nat : accepted' = [accepted EXCEPT ![s] = n]
    BY <1>8, <2>1 DEF Exchange
  <2> QED
    BY <1>1, <1>8, <2>2 DEF Exchange, ExchangeOK
<1> QED
  BY <1>2, <1>3, <1>5, <1>6, <1>7, <1>8
  DEF Next, vars, AdapterChanges, Restart, LeaseExpires

-----------------------------------------------------------------------------
(* The sessions.                                                           *)

\* create_mainnet_launch_session that inserts: every other session is closed
\* by the same statement or was closed before.
LEMMA InsertedStep ==
  ASSUME Inv, Inserted
  PROVE  /\ TableOK'
         /\ OneOpenSession'
         /\ \A a \in Approvals :
              /\ row'[a].submitted = row[a].submitted
              /\ row'[a].reserved = row[a].reserved
              /\ row'[a].state \in Open => row[a].state \in Open \/ row'[a].reserved = 0
              /\ row[a].state = "CLOSED" => row'[a] = row[a]
<1>1. PICK a \in Approvals : row[a].state = "NONE" /\ ~Unreviewed(a) /\ row' = Created(a)
  BY DEF Inserted
<1>2. TableOK
  BY DEF Inv
<1>3. row'[a] = [NoRow EXCEPT !.state = "ACTIVE"] /\ RowOK(row'[a])
  BY <1>1, NoRowOK DEF Created
<1>4. \A b \in Approvals \ {a} : row'[b] = Closed(a, b) /\ Legal(row[b], row'[b])
  BY <1>1, <1>2, ClosedLegal DEF Created
<1>5. TableOK'
  <2>1. \A b \in Approvals : RowOK(row'[b])
    BY <1>3, <1>4 DEF Legal
  <2>2. row' = [b \in Approvals |-> row'[b]]
    BY <1>1 DEF Created
  <2>3. row' \in [Approvals -> Row]
    BY <2>1, <2>2 DEF RowOK
  <2> QED
    BY <2>1, <2>3 DEF TableOK
<1>6. ASSUME NEW b \in Approvals \ {a} PROVE row'[b].state \notin Open
  <2>1. row[b].state \in Open => row[b].submitted = 0
    BY <1>1, <1>2 DEF Unreviewed, TableOK, RowOK, Row
  <2>2. row[b].state # "AUTONOMOUS_ACTIVE"
    BY <1>2, <2>1 DEF TableOK, RowOK, Row, Open
  <2>3. CASE row[b].state \in Open
    <3>1. row'[b] = [row[b] EXCEPT !.state = "CLOSED"]
      BY <1>4, <2>1, <2>2, <2>3 DEF Closed
    <3> QED
      BY <1>2, <3>1 DEF TableOK, Row, Open
  <2>4. CASE row[b].state \notin Open
    BY <1>4, <2>4 DEF Legal
  <2> QED
    BY <2>3, <2>4
<1>7. OneOpenSession'
  BY <1>6 DEF OneOpenSession, Open
<1>8. /\ row'[a].submitted = row[a].submitted /\ row'[a].reserved = row[a].reserved
      /\ row'[a].reserved = 0 /\ row[a].state # "CLOSED"
  BY <1>1, <1>2, <1>3 DEF TableOK, RowOK, Row, NoRow
<1> QED
  BY <1>4, <1>5, <1>7, <1>8 DEF Legal

\* One row becomes q.
LEMMA OneRow ==
  ASSUME TableOK, NEW a \in Approvals, NEW q, RowOK(q), row' = [row EXCEPT ![a] = q]
  PROVE  TableOK' /\ row'[a] = q /\ \A b \in Approvals \ {a} : row'[b] = row[b]
<1>1. q \in Row /\ row \in [Approvals -> Row]
  BY DEF RowOK, TableOK
<1>2. row' \in [Approvals -> Row] /\ row'[a] = q /\ \A b \in Approvals \ {a} : row'[b] = row[b]
  BY <1>1
<1> QED
  BY <1>2 DEF TableOK

\* A rejected order gives its reservation back.
LEMMA ReleasedStep ==
  ASSUME Inv, NEW a \in Approvals, Releasable(row[a]), row' = [row EXCEPT ![a].reserved = @ - 1]
  PROVE  /\ TableOK'
         /\ row[a].state \in Open /\ row[a].reserved > 0
         /\ row'[a].reserved = row[a].reserved - 1 /\ row'[a].submitted = row[a].submitted
         /\ row'[a].state = row[a].state
         /\ \A b \in Approvals \ {a} : row'[b] = row[b]
<1> DEFINE n == row[a].reserved - 1
<1>1. TableOK /\ RowOK(row[a]) /\ row' = [row EXCEPT ![a] = [row[a] EXCEPT !.reserved = n]]
  BY DEF Inv, TableOK
<1>2. n \in 0..MaxOrders /\ row[a].submitted <= n /\ row[a].state \in Open /\ row[a].reserved > 0
      /\ (row[a].policy = "STAGED_FIRST_ORDER" => n <= 1)
  BY <1>1, MaxOrdersAssumption DEF Releasable, RowOK, Row, Open
<1> HIDE DEF n
<1>3. /\ RowOK([row[a] EXCEPT !.reserved = n])
      /\ [row[a] EXCEPT !.reserved = n].submitted = row[a].submitted
      /\ [row[a] EXCEPT !.reserved = n].reserved = n
      /\ [row[a] EXCEPT !.reserved = n].state = row[a].state
  BY <1>1, <1>2, ReservedLegal
<1> QED
  BY <1>1, <1>2, <1>3, OneRow DEF n

\* reserve_mainnet_risk_order under the submission barrier.
LEMMA ReservedStep ==
  ASSUME Inv, NEW p \in Procs, Reserve(p), NEW a, a = wk[p].launch
  PROVE  /\ TableOK' /\ a \in Approvals
         /\ row[a].state \in Open
         /\ row'[a].reserved = row[a].reserved + 1 /\ row'[a].submitted = row[a].submitted
         /\ row'[a].state = row[a].state
         /\ \A b \in Approvals \ {a} : row'[b] = row[b]
<1> DEFINE n == row[a].reserved + 1
<1>1. /\ a \in Approvals /\ Reservable(row[a]) /\ row[a].reserved < MaxOrders
      /\ TableOK /\ RowOK(row[a])
  BY DEF Reserve, MayReserve, Inv, WorkersOK, WorkerOK, Worker, TableOK
<1>2. row' = [row EXCEPT ![a] = [row[a] EXCEPT !.reserved = n]]
  BY <1>1 DEF Reserve, TableOK
<1>3. n \in 0..MaxOrders /\ row[a].submitted <= n /\ row[a].state \in Open
      /\ (row[a].policy = "STAGED_FIRST_ORDER" => n <= 1)
  BY <1>1, MaxOrdersAssumption DEF Reservable, RowOK, Row, Open
<1> HIDE DEF n
<1>4. /\ RowOK([row[a] EXCEPT !.reserved = n])
      /\ [row[a] EXCEPT !.reserved = n].submitted = row[a].submitted
      /\ [row[a] EXCEPT !.reserved = n].reserved = n
      /\ [row[a] EXCEPT !.reserved = n].state = row[a].state
  BY <1>1, <1>3, ReservedLegal
<1> QED
  BY <1>1, <1>2, <1>3, <1>4, OneRow DEF n

\* A confirmed order is counted.
LEMMA CountedStep ==
  ASSUME Inv, NEW a \in Approvals, Markable(row[a]), row' = [row EXCEPT ![a] = Marked(@)]
  PROVE  /\ TableOK'
         /\ row[a].state \in Open /\ row[a].reserved > 0 /\ row[a].state # "CLOSED"
         /\ row'[a].reserved = row[a].reserved /\ row'[a].submitted = row[a].submitted + 1
         /\ \A b \in Approvals \ {a} : row'[b] = row[b]
<1>1. TableOK /\ RowOK(row[a]) /\ row' = [row EXCEPT ![a] = Marked(row[a])]
  BY DEF Inv, TableOK
<1>2. row[a].reserved > 0
  BY <1>1 DEF Markable, RowOK, Row
<1> DEFINE q == Marked(row[a])
<1>3. /\ RowOK(q) /\ q.reserved = row[a].reserved /\ q.submitted = row[a].submitted + 1
      /\ row[a].state \in Open /\ row[a].state # "CLOSED"
  BY <1>1, MarkedLegal
<1> HIDE DEF q
<1>4. TableOK' /\ row'[a] = q /\ \A b \in Approvals \ {a} : row'[b] = row[b]
  BY <1>1, <1>3, OneRow DEF q
<1> QED
  BY <1>2, <1>3, <1>4

\* What a step that counts an order makes of the table.
LEMMA CountersStep ==
  ASSUME Inv, Released \/ Counted \/ Reserved
  PROVE  /\ TableOK'
         /\ OneOpenSession'
         /\ \A a \in Approvals :
              /\ row'[a].submitted >= row[a].submitted
              /\ row'[a].reserved < row[a].reserved => Released
              /\ row[a].state = "CLOSED" => row'[a] = row[a]
<1>1. PICK a \in Approvals :
        /\ TableOK' /\ row[a].state \in Open
        /\ \A b \in Approvals \ {a} : row'[b] = row[b]
        /\ row'[a].submitted \in {row[a].submitted, row[a].submitted + 1}
        /\ Released \/ row'[a].reserved \in {row[a].reserved, row[a].reserved + 1}
  <2>1. CASE Released
    BY <2>1, ReleasedStep DEF Released
  <2>2. CASE Counted
    BY <2>2, CountedStep DEF Counted
  <2>3. CASE Reserved
    BY <2>3, ReservedStep DEF Reserved
  <2> QED
    BY <2>1, <2>2, <2>3
<1>2. TableOK /\ OneOpenSession
  BY DEF Inv
<1>3. OneOpenSession'
  BY <1>1, <1>2 DEF OneOpenSession
<1>4. ASSUME NEW b \in Approvals
      PROVE  /\ row[b].submitted \in Nat /\ row[b].reserved \in Nat
  BY <1>2 DEF TableOK, Row
<1> QED
  BY <1>1, <1>3, <1>4 DEF Open

\* The invariant holds initially.
LEMMA InvInit == Init => Inv
<1> SUFFICES ASSUME Init PROVE Inv
  OBVIOUS
<1>1. TableOK /\ \A a \in Approvals : row[a].state = "NONE"
  BY NoRowOK DEF Init, TableOK, RowOK
<1>2. WorkersOK
  BY NewWorkerOK DEF Init, WorkersOK, WorkerOK
<1>3. OpsOK
  BY NoOpOK DEF Init, OpsOK, OpOK
<1>4. OneOpenSession
  BY <1>1 DEF OneOpenSession, Open
<1>5. ExchangeOK
  BY DEF Init, ExchangeOK
<1> QED
  BY <1>1, <1>2, <1>3, <1>4, <1>5 DEF Inv

\* Every step keeps the invariant.
LEMMA InvNext == Inv /\ [Next]_vars => Inv'
<1> SUFFICES ASSUME Inv, [Next]_vars PROVE Inv'
  OBVIOUS
<1>1. TableStep /\ OpsOK' /\ ExchangeOK'
  BY TableNext, OpsStep, ExchangeStep
<1>2. TableOK' /\ OneOpenSession'
  <2>1. CASE Follows(row, row')
    BY <2>1 DEF Follows, Legal, TableOK, OneOpenSession, Inv
  <2> QED
    BY <1>1, <2>1, InsertedStep, CountersStep DEF TableStep
<1> QED
  BY <1>1, <1>2 DEF TableStep, Inv

\* The inductive invariant of the launch: rows that count no more submitted
\* orders than reserved ones and are autonomous only after a first order, orders
\* that know their session and their answer, and one open session.
THEOREM LaunchInvariant == Spec => []Inv
  BY InvInit, InvNext, PTL DEF Spec

\* Type correctness of the table, the workers, their orders and the exchange.
THEOREM LaunchTypes == Spec => []TypeOK
<1>1. Inv => TypeOK
  BY DEF Inv, TypeOK, TableOK, WorkersOK, OpsOK, ExchangeOK
<1> QED
  BY <1>1, LaunchInvariant, PTL

\* However many processes arm, continue, restart and fail in whatever order,
\* at most one launch session is open.
THEOREM LaunchOneOpenSession == Spec => []OneOpenSession
<1>1. Inv => OneOpenSession
  BY DEF Inv
<1> QED
  BY <1>1, LaunchInvariant, PTL

\* No step of any process takes back a submitted order or reopens a closed
\* session, and a reservation goes back only for a rejected order.
THEOREM LaunchNeverReset == Spec => SessionNeverReset
<1> DEFINE Kept ==
      \A a \in Approvals :
        /\ row'[a].submitted >= row[a].submitted
        /\ row'[a].reserved < row[a].reserved =>
             \E p \in Procs : op[p].pc = "rejected" /\ op'[p].pc = "done"
        /\ row[a].state = "CLOSED" => row'[a] = row[a]
<1>1. ASSUME Inv, [Next]_vars PROVE Kept
  <2>1. TableStep /\ TableOK /\ TableOK'
    BY <1>1, TableNext, InvNext DEF Inv
  <2>2. CASE Follows(row, row')
    BY <2>1, <2>2 DEF Follows, Legal, TableOK, RowOK, Row
  <2>3. CASE Released \/ Counted \/ Reserved
    BY <1>1, <2>3, CountersStep DEF Released
  <2>4. CASE Inserted
    BY <1>1, <2>1, <2>4, InsertedStep DEF TableOK, RowOK, Row
  <2> QED
    BY <2>1, <2>2, <2>3, <2>4 DEF TableStep
<1>2. Inv /\ [Next]_vars => [Kept]_vars
  BY <1>1
<1> QED
  BY <1>2, LaunchInvariant, PTL DEF Spec, SessionNeverReset

-----------------------------------------------------------------------------
(* The order slots.  Nothing is proved here of two processes with two      *)
(* approvals: the release and the count of an order are written to the     *)
(* session the worker is on by then, which need not be the order's own.    *)

Single == (\A p, q \in Procs : p = q) \/ (\A a, b \in Approvals : a = b)

\* Process p's order is past its reservation of session a,
Uses(o, a) == o.session = a /\ o.pc \in Underway

\* holds a reservation of it that no request has used or may still use,
Claims(o, a) ==
  /\ o.session = a
  /\ o.pc \in {"reserved", "leased", "rejected"} \/ (o.pc = "posted" /\ o.answer = "refused")

\* was accepted and may still be counted.
Awaits(o, a) ==
  /\ o.session = a
  /\ o.answer = "accepted"
  /\ o.pc \in {"posted", "confirmed", "ambiguous", "resolve"}

Sent(a) == {m \in wire : m[2] = a}
Claimed(a) == {p \in Procs : Claims(op[p], a)}
Uncounted(a) == {p \in Procs : Awaits(op[p], a)}

\* While an order of session a is under way no other open session has a
\* reservation it could be mistaken for.
Uncrossed ==
  \A p \in Procs, a, b \in Approvals :
    Uses(op[p], a) /\ b # a /\ row[b].state \in Open => row[b].reserved = 0

Covered(a) ==
  /\ IsFiniteSet(Sent(a)) /\ IsFiniteSet(Claimed(a))
  /\ accepted[a] + Cardinality(Sent(a)) + Cardinality(Claimed(a)) <= row[a].reserved

Supported(a) ==
  /\ IsFiniteSet(Uncounted(a))
  /\ row[a].submitted + Cardinality(Uncounted(a)) <= accepted[a]

Slots == Uncrossed /\ \A a \in Approvals : Covered(a) /\ Supported(a)

\* Orders only move on, end or are dropped.
Quiet ==
  /\ UNCHANGED <<accepted, wire>>
  /\ \A q \in Procs, a \in Approvals :
       /\ Uses(op'[q], a) => Uses(op[q], a)
       /\ Claims(op'[q], a) => Claims(op[q], a)
       /\ Awaits(op'[q], a) => Awaits(op[q], a)

\* One order changes.
LEMMA QuietOne ==
  ASSUME OpsOK, NEW p \in Procs, NEW o, op' = [op EXCEPT ![p] = o],
         UNCHANGED <<accepted, wire>>,
         \A a \in Approvals :
           /\ Uses(o, a) => Uses(op[p], a)
           /\ Claims(o, a) => Claims(op[p], a)
           /\ Awaits(o, a) => Awaits(op[p], a)
  PROVE  Quiet
<1>1. op'[p] = o /\ \A q \in Procs \ {p} : op'[q] = op[q]
  BY DEF OpsOK
<1> QED
  BY <1>1 DEF Quiet

\* An order moves on.
LEMMA QuietPc ==
  ASSUME OpsOK, NEW p \in Procs, NEW pc, Step(p, pc), UNCHANGED <<accepted, wire>>,
         pc \in Underway => op[p].pc \in Underway,
         pc # "posted",
         pc \in {"reserved", "leased", "rejected"} =>
           \/ op[p].pc \in {"reserved", "leased", "rejected"}
           \/ op[p].pc = "posted" /\ op[p].answer = "refused",
         pc \in {"confirmed", "ambiguous", "resolve"} =>
           op[p].pc \in {"posted", "confirmed", "ambiguous", "resolve"}
  PROVE  Quiet
<1> DEFINE o == [op[p] EXCEPT !.pc = pc]
<1>1. op[p] \in Op /\ op' = [op EXCEPT ![p] = o]
  BY DEF OpsOK, Step
<1>2. o.pc = pc /\ o.session = op[p].session /\ o.answer = op[p].answer
  BY <1>1 DEF Op
<1> HIDE DEF o
<1>3. \A a \in Approvals :
        /\ Uses(o, a) => Uses(op[p], a)
        /\ Claims(o, a) => Claims(op[p], a)
        /\ Awaits(o, a) => Awaits(op[p], a)
  BY <1>2 DEF Uses, Claims, Awaits
<1> QED
  BY <1>1, <1>3, QuietOne

\* The adapter of an order is closed.
LEMMA QuietClosed ==
  ASSUME OpsOK, NEW p \in Procs, op' = [op EXCEPT ![p].closed = (op[p].pc # "idle")],
         UNCHANGED <<accepted, wire>>
  PROVE  Quiet
<1> DEFINE b == (op[p].pc # "idle")
           o == [op[p] EXCEPT !.closed = b]
<1>1. op[p] \in Op /\ op' = [op EXCEPT ![p] = o]
  BY DEF OpsOK
<1> HIDE DEF b
<1>2. o.pc = op[p].pc /\ o.session = op[p].session /\ o.answer = op[p].answer
  BY <1>1 DEF Op
<1> HIDE DEF o
<1>3. \A a \in Approvals :
        /\ Uses(o, a) => Uses(op[p], a)
        /\ Claims(o, a) => Claims(op[p], a)
        /\ Awaits(o, a) => Awaits(op[p], a)
  BY <1>2 DEF Uses, Claims, Awaits
<1> QED
  BY <1>1, <1>3, QuietOne

\* An order ends, or its process does.
LEMMA QuietNoOp ==
  ASSUME OpsOK, NEW p \in Procs, op' = [op EXCEPT ![p] = NoOp], UNCHANGED <<accepted, wire>>
  PROVE  Quiet
<1>1. NoOp.pc = "idle"
  BY DEF NoOp
<1>2. \A a \in Approvals : ~Uses(NoOp, a) /\ ~Claims(NoOp, a) /\ ~Awaits(NoOp, a)
  BY <1>1 DEF Uses, Claims, Awaits, Underway
<1> QED
  BY <1>2, QuietOne

Posts(p) ==
  /\ op[p].pc = "leased" /\ <<p, op[p].session>> \notin wire
  /\ wire' = wire \cup {<<p, op[p].session>>}
  /\ Step(p, "posted")
  /\ UNCHANGED <<row, accepted>>

\* Only a reservation, a POST and the exchange are more than that.
LEMMA QuietStep ==
  ASSUME Inv, [Next]_vars
  PROVE  \/ Quiet
         \/ \E p \in Procs : Reserve(p) \/ Posts(p)
         \/ \E p \in Procs, s \in Approvals : Exchange(p, s)
<1>1. OpsOK
  BY DEF Inv
<1>2. ASSUME UNCHANGED <<accepted, wire, op>> PROVE Quiet
  BY <1>2 DEF Quiet
<1>3. ASSUME NEW p \in Procs, CloseAdapter(p), UNCHANGED <<accepted, wire>> PROVE Quiet
  BY <1>1, <1>3, QuietClosed DEF CloseAdapter
<1>4. ASSUME NEW p \in Procs, Operator(p) PROVE Quiet
  <2>1. CASE ArmConnect(p)
    BY <1>1, <1>3, <2>1, QuietClosed DEF ArmConnect, ResetFailedArm
  <2>2. ASSUME NEW a \in Approvals, ContinueConnect(p, a) PROVE Quiet
    BY <1>1, <1>2, <1>3, <2>2, QuietClosed DEF ContinueConnect, ResetFailedContinuation
  <2> QED
    BY <1>2, <1>3, <1>4, <2>1, <2>2
    DEF Operator, disarm, KillActivate, KillReleaseStart, KillReleasePaper, ReadSession,
        set_pause_new_risk
<1>5. ASSUME NEW p \in Procs, Control(p) PROVE Quiet
  <2>1. ASSUME NEW a \in Approvals, ArmSession(p, a) PROVE Quiet
    BY <1>2, <1>3, <2>1 DEF ArmSession, ResetFailedArm
  <2>2. CASE ContinueVerify(p)
    BY <1>2, <1>3, <2>2 DEF ContinueVerify, ResetFailedContinuation
  <2>3. CASE ContinueActivate(p)
    BY <1>2, <1>3, <2>3 DEF ContinueActivate, ResetFailedContinuation
  <2> QED
    BY <1>2, <1>5, <2>1, <2>2, <2>3
    DEF Control, KillVerify, KillReleaseCommit, Reconcile, PipelineError
<1>6. ASSUME NEW p \in Procs, Order(p) PROVE Quiet \/ Reserve(p) \/ Posts(p)
  <2>1. CASE Step(p, "done") /\ UNCHANGED <<accepted, wire>>
    BY <1>1, <2>1, QuietPc DEF Underway
  <2>2. CASE Finish(p)
    BY <1>1, <2>2, QuietNoOp DEF Finish
  <2>3. CASE ExecuteDecision(p)
    BY <1>1, <2>3, QuietPc DEF ExecuteDecision, Underway
  <2>4. CASE AssertLease(p)
    <3>1. /\ op[p].pc = "reserved" /\ (Step(p, "leased") \/ Step(p, "rejected"))
          /\ UNCHANGED <<accepted, wire>>
      BY <2>4 DEF AssertLease
    <3> QED
      BY <1>1, <3>1, QuietPc DEF Underway
  <2>5. CASE Post(p)
    <3>1. \/ Posts(p)
          \/ op[p].pc = "leased" /\ Step(p, "unverified") /\ UNCHANGED <<accepted, wire>>
      BY <2>5 DEF Post, Posts
    <3> QED
      BY <1>1, <3>1, QuietPc DEF Underway
  <2>6. CASE Respond(p)
    <3>1. PICK pc \in Outcomes(op[p].answer) : Step(p, pc)
      BY <2>6 DEF Respond
    <3>2. op[p].pc = "posted" /\ op[p].answer # "none" /\ UNCHANGED <<accepted, wire>>
      BY <2>6 DEF Respond
    <3>3. op[p].answer \in {"none", "accepted", "refused"}
      BY <1>1 DEF OpsOK, Op
    <3>4. /\ pc \in {"ambiguous", "unverified", "confirmed", "rejected"}
          /\ pc = "rejected" => op[p].answer = "refused"
      BY <3>2, <3>3 DEF Outcomes
    <3> QED
      BY <1>1, <3>1, <3>2, <3>4, QuietPc DEF Underway
  <2>7. CASE Notify(p)
    <3>1. /\ Step(p, "done") \/ (op[p].pc = "ambiguous" /\ Step(p, "resolve"))
          /\ UNCHANGED <<accepted, wire>>
      BY <2>7 DEF Notify
    <3> QED
      BY <1>1, <2>1, <3>1, QuietPc DEF Underway
  <2>8. CASE Resolve(p)
    <3>1. /\ Step(p, "done") \/ (op[p].pc = "resolve" /\ Step(p, "confirmed"))
          /\ UNCHANGED <<accepted, wire>>
      BY <2>8 DEF Resolve
    <3> QED
      BY <1>1, <2>1, <3>1, QuietPc DEF Underway
  <2> QED
    BY <1>6, <2>1, <2>2, <2>3, <2>4, <2>5, <2>6, <2>7, <2>8
    DEF Order, ReserveSkipped, ReserveFails
<1> QED
  BY <1>1, <1>2, <1>4, <1>5, <1>6, QuietNoOp
  DEF Next, vars, AdapterChanges, Restart, LeaseExpires

\* A subset.
LEMMA CardLess ==
  ASSUME NEW S, IsFiniteSet(S), NEW T \in SUBSET S
  PROVE  /\ IsFiniteSet(T) /\ Cardinality(T) \in Nat /\ Cardinality(S) \in Nat
         /\ Cardinality(T) <= Cardinality(S)
  BY FS_Subset, FS_CardinalityType

\* One element more at most.
LEMMA CardMore ==
  ASSUME NEW S, IsFiniteSet(S), NEW x, NEW T \in SUBSET (S \cup {x})
  PROVE  /\ IsFiniteSet(T) /\ Cardinality(T) \in Nat /\ Cardinality(S) \in Nat
         /\ Cardinality(T) <= Cardinality(S) + 1
<1>1. IsFiniteSet(S \cup {x}) /\ Cardinality(S \cup {x}) \in {Cardinality(S), Cardinality(S) + 1}
  BY FS_AddElement
<1>2. IsFiniteSet(T) /\ Cardinality(T) \in Nat /\ Cardinality(T) <= Cardinality(S \cup {x})
  BY <1>1, CardLess
<1>3. Cardinality(S) \in Nat
  BY FS_CardinalityType
<1> QED
  BY <1>1, <1>2, <1>3

\* One element less at least.
LEMMA CardFewer ==
  ASSUME NEW S, IsFiniteSet(S), NEW x \in S, NEW T \in SUBSET (S \ {x})
  PROVE  /\ IsFiniteSet(T) /\ Cardinality(T) \in Nat /\ Cardinality(S) \in Nat
         /\ Cardinality(T) + 1 <= Cardinality(S)
<1>1. IsFiniteSet(S \ {x}) /\ Cardinality(S \ {x}) = Cardinality(S) - 1
  BY FS_RemoveElement
<1>2. IsFiniteSet(T) /\ Cardinality(T) \in Nat /\ Cardinality(T) <= Cardinality(S \ {x})
      /\ Cardinality(S \ {x}) \in Nat
  BY <1>1, CardLess
<1>3. Cardinality(S) \in Nat
  BY FS_CardinalityType
<1> QED
  BY <1>1, <1>2, <1>3

\* The numbers of a session.
LEMMA Numbers ==
  ASSUME Inv, NEW a \in Approvals
  PROVE  row[a].reserved \in Nat /\ row[a].submitted \in Nat /\ accepted[a] \in Nat
  BY DEF Inv, TableOK, Row, ExchangeOK

\* A quiet step enlarges no set of orders.
LEMMA QuietSets ==
  ASSUME Quiet, NEW a \in Approvals
  PROVE  /\ Claimed(a)' \in SUBSET Claimed(a) /\ Uncounted(a)' \in SUBSET Uncounted(a)
         /\ Sent(a)' = Sent(a) /\ accepted'[a] = accepted[a]
  BY DEF Quiet, Claimed, Uncounted, Sent

\* No session gets a reservation and becomes open behind an order's back.
LEMMA UncrossedKept ==
  ASSUME Uncrossed,
         \A q \in Procs, a \in Approvals : Uses(op'[q], a) => Uses(op[q], a),
         \A b \in Approvals :
           row'[b].state \in Open /\ row'[b].reserved # 0 =>
             row[b].state \in Open /\ row[b].reserved # 0
  PROVE  Uncrossed'
  BY DEF Uncrossed

\* Steps that count nothing.
LEMMA SlotsQuiet ==
  ASSUME Inv, Inv', Slots, Quiet,
         \A a \in Approvals :
           /\ row'[a].submitted = row[a].submitted /\ row'[a].reserved = row[a].reserved
           /\ row'[a].state \in Open => row[a].state \in Open \/ row'[a].reserved = 0
  PROVE  Slots'
<1>1. Uncrossed'
  BY UncrossedKept DEF Slots, Quiet
<1>2. ASSUME NEW a \in Approvals PROVE Covered(a)' /\ Supported(a)'
  <2>1. Covered(a) /\ Supported(a)
    BY DEF Slots
  <2>2. /\ Claimed(a)' \in SUBSET Claimed(a) /\ Uncounted(a)' \in SUBSET Uncounted(a)
        /\ Sent(a)' = Sent(a) /\ accepted'[a] = accepted[a]
    BY QuietSets
  <2>3. /\ IsFiniteSet(Claimed(a)') /\ Cardinality(Claimed(a)') \in Nat
        /\ Cardinality(Claimed(a)) \in Nat
        /\ Cardinality(Claimed(a)') <= Cardinality(Claimed(a))
    BY <2>1, <2>2, CardLess DEF Covered
  <2>4. /\ IsFiniteSet(Uncounted(a)') /\ Cardinality(Uncounted(a)') \in Nat
        /\ Cardinality(Uncounted(a)) \in Nat
        /\ Cardinality(Uncounted(a)') <= Cardinality(Uncounted(a))
    BY <2>1, <2>2, CardLess DEF Supported
  <2>5. Cardinality(Sent(a)) \in Nat
    BY <2>1, FS_CardinalityType DEF Covered
  <2>6. Covered(a)'
    BY <2>1, <2>2, <2>3, <2>5, Numbers DEF Covered
  <2>7. Supported(a)'
    BY <2>1, <2>2, <2>4, Numbers DEF Supported
  <2> QED
    BY <2>6, <2>7
<1> QED
  BY <1>1, <1>2 DEF Slots

\* The session a worker writes an order's outcome to is the order's own, if
\* that session is open and has a reservation.
LEMMA OwnSession ==
  ASSUME Inv, Slots, NEW p \in Procs, op[p].pc \in Underway, NEW a \in Approvals,
         row[a].state \in Open, row[a].reserved > 0
  PROVE  op[p].session = a
<1>1. op[p].session \in Approvals
  BY DEF Inv, OpsOK, OpOK
<1>2. row[a].reserved # 0
  BY Numbers
<1> QED
  BY <1>1, <1>2 DEF Slots, Uncrossed, Uses

\* A rejected order gives back the reservation it claims.
LEMMA SlotsReleased ==
  ASSUME Inv, Inv', Slots, Quiet, Released PROVE Slots'
<1>1. PICK p \in Procs :
        /\ op[p].pc = "rejected" /\ op'[p].pc = "done"
        /\ wk[p].launch \in Approvals /\ Releasable(row[wk[p].launch])
        /\ row' = [row EXCEPT ![wk[p].launch].reserved = @ - 1]
  BY DEF Released
<1> DEFINE s == wk[p].launch
<1>2. /\ s \in Approvals /\ row[s].state \in Open /\ row[s].reserved > 0
      /\ row'[s].reserved = row[s].reserved - 1 /\ row'[s].submitted = row[s].submitted
      /\ row'[s].state = row[s].state
      /\ \A b \in Approvals \ {s} : row'[b] = row[b]
  BY <1>1, ReleasedStep
<1> HIDE DEF s
<1>3. op[p].session = s
  BY <1>1, <1>2, OwnSession DEF Underway
<1>4. p \in Claimed(s) /\ \A a \in Approvals : p \notin Claimed(a)'
  BY <1>1, <1>3 DEF Claimed, Claims
<1>5. Uncrossed'
  <2>1. \A b \in Approvals : row'[b].state \in Open /\ row'[b].reserved # 0 =>
                               row[b].state \in Open /\ row[b].reserved # 0
    BY <1>2, Numbers
  <2> QED
    BY <2>1, UncrossedKept DEF Slots, Quiet
<1>6. ASSUME NEW a \in Approvals PROVE Covered(a)' /\ Supported(a)'
  <2>1. Covered(a) /\ Supported(a) /\ accepted[a] \in Nat /\ row[a].reserved \in Nat
        /\ row[a].submitted \in Nat
    BY Numbers DEF Slots
  <2>2. /\ Claimed(a)' \in SUBSET Claimed(a) /\ Uncounted(a)' \in SUBSET Uncounted(a)
        /\ Sent(a)' = Sent(a) /\ accepted'[a] = accepted[a]
    BY QuietSets
  <2>3. /\ IsFiniteSet(Uncounted(a)') /\ Cardinality(Uncounted(a)') \in Nat
        /\ Cardinality(Uncounted(a)) \in Nat
        /\ Cardinality(Uncounted(a)') <= Cardinality(Uncounted(a))
    BY <2>1, <2>2, CardLess DEF Supported
  <2>4. Supported(a)'
    <3>1. row'[a].submitted = row[a].submitted
      BY <1>2
    <3> QED
      BY <2>1, <2>2, <2>3, <3>1 DEF Supported
  <2>5. Cardinality(Sent(a)) \in Nat
    BY <2>1, FS_CardinalityType DEF Covered
  <2>6. CASE a = s
    <3>1. Claimed(a)' \in SUBSET (Claimed(a) \ {p})
      BY <1>4, <2>2, <2>6
    <3>2. /\ IsFiniteSet(Claimed(a)') /\ Cardinality(Claimed(a)') \in Nat
          /\ Cardinality(Claimed(a)) \in Nat
          /\ Cardinality(Claimed(a)') + 1 <= Cardinality(Claimed(a))
      BY <1>4, <2>1, <2>6, <3>1, CardFewer DEF Covered
    <3>3. Covered(a)'
      BY <1>2, <2>1, <2>2, <2>5, <2>6, <3>2 DEF Covered
    <3> QED
      BY <2>4, <3>3
  <2>7. CASE a # s
    <3>1. /\ IsFiniteSet(Claimed(a)') /\ Cardinality(Claimed(a)') \in Nat
          /\ Cardinality(Claimed(a)) \in Nat
          /\ Cardinality(Claimed(a)') <= Cardinality(Claimed(a))
      BY <2>1, <2>2, CardLess DEF Covered
    <3>2. row'[a] = row[a]
      BY <1>2, <2>7
    <3>3. Covered(a)'
      BY <2>1, <2>2, <2>5, <3>1, <3>2 DEF Covered
    <3> QED
      BY <2>4, <3>3
  <2> QED
    BY <2>6, <2>7
<1> QED
  BY <1>5, <1>6 DEF Slots

\* A confirmed order is counted once, in its own session.
LEMMA SlotsCounted ==
  ASSUME Inv, Inv', Slots, Quiet, Counted PROVE Slots'
<1>1. PICK p \in Procs :
        /\ op[p].pc = "confirmed" /\ op'[p].pc = "done"
        /\ wk[p].launch \in Approvals /\ Markable(row[wk[p].launch])
        /\ row' = [row EXCEPT ![wk[p].launch] = Marked(@)]
  BY DEF Counted
<1> DEFINE s == wk[p].launch
<1>2. /\ s \in Approvals /\ row[s].state \in Open /\ row[s].reserved > 0
      /\ row'[s].reserved = row[s].reserved /\ row'[s].submitted = row[s].submitted + 1
      /\ \A b \in Approvals \ {s} : row'[b] = row[b]
  BY <1>1, CountedStep
<1> HIDE DEF s
<1>3. op[p].session = s /\ op[p].answer = "accepted"
  <2>1. op[p].session = s
    BY <1>1, <1>2, OwnSession DEF Underway
  <2> QED
    BY <1>1, <2>1 DEF Inv, OpsOK, OpOK
<1>4. p \in Uncounted(s) /\ \A a \in Approvals : p \notin Uncounted(a)'
  BY <1>1, <1>3 DEF Uncounted, Awaits
<1>5. Uncrossed'
  <2>1. \A b \in Approvals : row'[b].state \in Open /\ row'[b].reserved # 0 =>
                               row[b].state \in Open /\ row[b].reserved # 0
    BY <1>2
  <2> QED
    BY <2>1, UncrossedKept DEF Slots, Quiet
<1>6. ASSUME NEW a \in Approvals PROVE Covered(a)' /\ Supported(a)'
  <2>1. Covered(a) /\ Supported(a) /\ accepted[a] \in Nat /\ row[a].reserved \in Nat
        /\ row[a].submitted \in Nat
    BY Numbers DEF Slots
  <2>2. /\ Claimed(a)' \in SUBSET Claimed(a) /\ Uncounted(a)' \in SUBSET Uncounted(a)
        /\ Sent(a)' = Sent(a) /\ accepted'[a] = accepted[a]
    BY QuietSets
  <2>3. /\ IsFiniteSet(Claimed(a)') /\ Cardinality(Claimed(a)') \in Nat
        /\ Cardinality(Claimed(a)) \in Nat
        /\ Cardinality(Claimed(a)') <= Cardinality(Claimed(a))
        /\ Cardinality(Sent(a)) \in Nat
    BY <2>1, <2>2, CardLess, FS_CardinalityType DEF Covered
  <2>4. Covered(a)'
    <3>1. row'[a].reserved = row[a].reserved
      BY <1>2
    <3> QED
      BY <2>1, <2>2, <2>3, <3>1 DEF Covered
  <2>5. CASE a = s
    <3>1. Uncounted(a)' \in SUBSET (Uncounted(a) \ {p})
      BY <1>4, <2>2, <2>5
    <3>2. /\ IsFiniteSet(Uncounted(a)') /\ Cardinality(Uncounted(a)') \in Nat
          /\ Cardinality(Uncounted(a)) \in Nat
          /\ Cardinality(Uncounted(a)') + 1 <= Cardinality(Uncounted(a))
      BY <1>4, <2>1, <2>5, <3>1, CardFewer DEF Supported
    <3>3. Supported(a)'
      BY <1>2, <2>1, <2>2, <2>5, <3>2 DEF Supported
    <3> QED
      BY <2>4, <3>3
  <2>6. CASE a # s
    <3>1. /\ IsFiniteSet(Uncounted(a)') /\ Cardinality(Uncounted(a)') \in Nat
          /\ Cardinality(Uncounted(a)) \in Nat
          /\ Cardinality(Uncounted(a)') <= Cardinality(Uncounted(a))
      BY <2>1, <2>2, CardLess DEF Supported
    <3>2. row'[a] = row[a]
      BY <1>2, <2>6
    <3>3. Supported(a)'
      BY <2>1, <2>2, <3>1, <3>2 DEF Supported
    <3> QED
      BY <2>4, <3>3
  <2> QED
    BY <2>5, <2>6
<1> QED
  BY <1>5, <1>6 DEF Slots

\* Only process p's order changes.
Moves(p) == \A q \in Procs \ {p} : op'[q] = op[q]

\* What that makes of the sets of orders.
LEMMA MovesSets ==
  ASSUME NEW p \in Procs, Moves(p), NEW a \in Approvals
  PROVE  /\ Claimed(a)' \in SUBSET (Claimed(a) \cup {p})
         /\ Uncounted(a)' \in SUBSET (Uncounted(a) \cup {p})
         /\ (Claims(op'[p], a) => Claims(op[p], a)) => Claimed(a)' \in SUBSET Claimed(a)
         /\ (Awaits(op'[p], a) => Awaits(op[p], a)) => Uncounted(a)' \in SUBSET Uncounted(a)
         /\ ~Claims(op'[p], a) => Claimed(a)' \in SUBSET (Claimed(a) \ {p})
  BY DEF Moves, Claimed, Uncounted

\* A request leaves: its reservation is no longer claimed but used.
LEMMA SlotsPosts ==
  ASSUME Inv, Inv', Slots, NEW p \in Procs, Posts(p) PROVE Slots'
<1> DEFINE o == [op[p] EXCEPT !.pc = "posted"]
<1>1. /\ op \in [Procs -> Op] /\ op[p].pc = "leased" /\ op[p].session \in Approvals
      /\ op[p].answer = "none" /\ UNCHANGED <<row, accepted>>
      /\ <<p, op[p].session>> \notin wire /\ wire' = wire \cup {<<p, op[p].session>>}
  BY DEF Posts, Inv, OpsOK, OpOK, Underway
<1>2. op' = [op EXCEPT ![p] = o] /\ o.pc = "posted" /\ o.session = op[p].session
      /\ o.answer = "none"
  BY <1>1 DEF Posts, Step, Op
<1> HIDE DEF o
<1>3. op'[p] = o /\ Moves(p)
  BY <1>1, <1>2 DEF Moves
<1>4. \A a \in Approvals :
        /\ Uses(op'[p], a) => Uses(op[p], a)
        /\ ~Claims(op'[p], a) /\ ~Awaits(op'[p], a)
  BY <1>1, <1>2, <1>3 DEF Uses, Claims, Awaits, Underway
<1>5. Uncrossed'
  BY <1>1, <1>3, <1>4, UncrossedKept DEF Slots, Moves
<1>6. ASSUME NEW a \in Approvals PROVE Covered(a)' /\ Supported(a)'
  <2>1. Covered(a) /\ Supported(a) /\ accepted[a] \in Nat /\ row[a].reserved \in Nat
        /\ row[a].submitted \in Nat
    BY Numbers DEF Slots
  <2>2. /\ Claimed(a)' \in SUBSET (Claimed(a) \ {p}) /\ Uncounted(a)' \in SUBSET Uncounted(a)
        /\ Claimed(a)' \in SUBSET Claimed(a)
    BY <1>3, <1>4, MovesSets
  <2>3. /\ IsFiniteSet(Uncounted(a)') /\ Cardinality(Uncounted(a)') \in Nat
        /\ Cardinality(Uncounted(a)) \in Nat
        /\ Cardinality(Uncounted(a)') <= Cardinality(Uncounted(a))
    BY <2>1, <2>2, CardLess DEF Supported
  <2>4. Supported(a)'
    BY <1>1, <2>1, <2>3 DEF Supported
  <2>5. CASE a = op[p].session
    <3>1. p \in Claimed(a)
      BY <1>1, <2>5 DEF Claimed, Claims
    <3>2. /\ IsFiniteSet(Claimed(a)') /\ Cardinality(Claimed(a)') \in Nat
          /\ Cardinality(Claimed(a)) \in Nat
          /\ Cardinality(Claimed(a)') + 1 <= Cardinality(Claimed(a))
      BY <2>1, <2>2, <3>1, CardFewer DEF Covered
    <3>3. Sent(a)' \in SUBSET (Sent(a) \cup {<<p, a>>})
      BY <1>1, <2>5 DEF Sent
    <3>4. /\ IsFiniteSet(Sent(a)') /\ Cardinality(Sent(a)') \in Nat
          /\ Cardinality(Sent(a)) \in Nat
          /\ Cardinality(Sent(a)') <= Cardinality(Sent(a)) + 1
      BY <2>1, <3>3, CardMore DEF Covered
    <3> QED
      BY <1>1, <2>1, <2>4, <3>2, <3>4 DEF Covered
  <2>6. CASE a # op[p].session
    <3>1. /\ IsFiniteSet(Claimed(a)') /\ Cardinality(Claimed(a)') \in Nat
          /\ Cardinality(Claimed(a)) \in Nat
          /\ Cardinality(Claimed(a)') <= Cardinality(Claimed(a))
      BY <2>1, <2>2, CardLess DEF Covered
    <3>2. Sent(a)' = Sent(a) /\ Cardinality(Sent(a)) \in Nat
      BY <1>1, <2>1, <2>6, FS_CardinalityType DEF Sent, Covered
    <3> QED
      BY <1>1, <2>1, <2>4, <3>1, <3>2 DEF Covered
  <2> QED
    BY <2>5, <2>6
<1> QED
  BY <1>5, <1>6 DEF Slots

\* The exchange decides a request: it has the order, or its reservation is
\* claimed again.
LEMMA SlotsExchange ==
  ASSUME Inv, Inv', Slots, NEW p \in Procs, NEW s \in Approvals, Exchange(p, s) PROVE Slots'
<1>1. PICK taken \in BOOLEAN :
        /\ accepted' = [accepted EXCEPT ![s] = IF taken THEN @ + 1 ELSE @]
        /\ op' = IF op[p].pc = "posted" /\ op[p].session = s
                 THEN [op EXCEPT ![p].answer = IF taken THEN "accepted" ELSE "refused"]
                 ELSE op
  BY DEF Exchange
<1>2. /\ <<p, s>> \in wire /\ wire' = wire \ {<<p, s>>} /\ row' = row
      /\ op \in [Procs -> Op] /\ accepted \in [Approvals -> Nat]
  BY DEF Exchange, Inv, OpsOK, ExchangeOK
<1>3. /\ Moves(p) /\ op'[p].pc = op[p].pc /\ op'[p].session = op[p].session
      /\ \/ op'[p] = op[p]
         \/ /\ op[p].session = s /\ op'[p].answer = IF taken THEN "accepted" ELSE "refused"
  <2>1. CASE op[p].pc = "posted" /\ op[p].session = s
    <3> DEFINE n == IF taken THEN "accepted" ELSE "refused"
               o == [op[p] EXCEPT !.answer = n]
    <3>1. op' = [op EXCEPT ![p] = o]
      BY <1>1, <1>2, <2>1
    <3>2. o.pc = op[p].pc /\ o.session = op[p].session /\ o.answer = n
      BY <1>2 DEF Op
    <3> HIDE DEF o
    <3>3. op'[p] = o /\ Moves(p)
      BY <1>2, <3>1 DEF Moves
    <3> QED
      BY <2>1, <3>2, <3>3
  <2>2. CASE ~(op[p].pc = "posted" /\ op[p].session = s)
    BY <1>1, <2>2 DEF Moves
  <2> QED
    BY <2>1, <2>2
<1>4. Uncrossed'
  <2>1. \A q \in Procs, a \in Approvals : Uses(op'[q], a) => Uses(op[q], a)
    BY <1>3 DEF Uses, Moves
  <2> QED
    BY <1>2, <2>1, UncrossedKept DEF Slots
<1>5. ASSUME NEW a \in Approvals PROVE Covered(a)' /\ Supported(a)'
  <2>1. Covered(a) /\ Supported(a) /\ accepted[a] \in Nat /\ row[a].reserved \in Nat
        /\ row[a].submitted \in Nat
    BY Numbers DEF Slots
  <2>2. CASE a # s
    <3>1. accepted'[a] = accepted[a] /\ Sent(a)' = Sent(a)
      BY <1>1, <1>2, <2>2 DEF Sent
    <3>2. Claimed(a)' \in SUBSET Claimed(a) /\ Uncounted(a)' \in SUBSET Uncounted(a)
      <4>1. /\ Claims(op'[p], a) => Claims(op[p], a)
            /\ Awaits(op'[p], a) => Awaits(op[p], a)
        BY <1>3, <2>2 DEF Claims, Awaits
      <4> QED
        BY <1>3, <4>1, MovesSets
    <3>3. /\ IsFiniteSet(Claimed(a)') /\ Cardinality(Claimed(a)') \in Nat
          /\ Cardinality(Claimed(a)) \in Nat
          /\ Cardinality(Claimed(a)') <= Cardinality(Claimed(a))
          /\ Cardinality(Sent(a)) \in Nat
      BY <2>1, <3>2, CardLess, FS_CardinalityType DEF Covered
    <3>4. /\ IsFiniteSet(Uncounted(a)') /\ Cardinality(Uncounted(a)') \in Nat
          /\ Cardinality(Uncounted(a)) \in Nat
          /\ Cardinality(Uncounted(a)') <= Cardinality(Uncounted(a))
      BY <2>1, <3>2, CardLess DEF Supported
    <3>5. Covered(a)'
      BY <1>2, <2>1, <3>1, <3>3 DEF Covered
    <3>6. Supported(a)'
      BY <1>2, <2>1, <3>1, <3>4 DEF Supported
    <3> QED
      BY <3>5, <3>6
  <2>3. CASE a = s
    <3>1. <<p, a>> \in Sent(a) /\ Sent(a)' \in SUBSET (Sent(a) \ {<<p, a>>})
      BY <1>2, <2>3 DEF Sent
    <3>2. /\ IsFiniteSet(Sent(a)') /\ Cardinality(Sent(a)') \in Nat
          /\ Cardinality(Sent(a)) \in Nat
          /\ Cardinality(Sent(a)') + 1 <= Cardinality(Sent(a))
      BY <2>1, <3>1, CardFewer DEF Covered
    <3>3. CASE taken
      <4>1. accepted'[a] = accepted[a] + 1
        BY <1>1, <1>2, <2>3, <3>3
      <4>2. Claims(op'[p], a) => Claims(op[p], a)
        BY <1>3, <3>3 DEF Claims
      <4>3. Claimed(a)' \in SUBSET Claimed(a) /\ Uncounted(a)' \in SUBSET (Uncounted(a) \cup {p})
        BY <1>3, <4>2, MovesSets
      <4>4. /\ IsFiniteSet(Claimed(a)') /\ Cardinality(Claimed(a)') \in Nat
            /\ Cardinality(Claimed(a)) \in Nat
            /\ Cardinality(Claimed(a)') <= Cardinality(Claimed(a))
        BY <2>1, <4>3, CardLess DEF Covered
      <4>5. /\ IsFiniteSet(Uncounted(a)') /\ Cardinality(Uncounted(a)') \in Nat
            /\ Cardinality(Uncounted(a)) \in Nat
            /\ Cardinality(Uncounted(a)') <= Cardinality(Uncounted(a)) + 1
        BY <2>1, <4>3, CardMore DEF Supported
      <4>6. Covered(a)'
        BY <1>2, <2>1, <3>2, <4>1, <4>4 DEF Covered
      <4>7. Supported(a)'
        BY <1>2, <2>1, <4>1, <4>5 DEF Supported
      <4> QED
        BY <4>6, <4>7
    <3>4. CASE ~taken
      <4>1. accepted'[a] = accepted[a]
        BY <1>1, <1>2, <2>3, <3>4
      <4>2. Awaits(op'[p], a) => Awaits(op[p], a)
        BY <1>3, <3>4 DEF Awaits
      <4>3. Claimed(a)' \in SUBSET (Claimed(a) \cup {p}) /\ Uncounted(a)' \in SUBSET Uncounted(a)
        BY <1>3, <4>2, MovesSets
      <4>4. /\ IsFiniteSet(Claimed(a)') /\ Cardinality(Claimed(a)') \in Nat
            /\ Cardinality(Claimed(a)) \in Nat
            /\ Cardinality(Claimed(a)') <= Cardinality(Claimed(a)) + 1
        BY <2>1, <4>3, CardMore DEF Covered
      <4>5. /\ IsFiniteSet(Uncounted(a)') /\ Cardinality(Uncounted(a)') \in Nat
            /\ Cardinality(Uncounted(a)) \in Nat
            /\ Cardinality(Uncounted(a)') <= Cardinality(Uncounted(a))
        BY <2>1, <4>3, CardLess DEF Supported
      <4>6. Covered(a)'
        BY <1>2, <2>1, <3>2, <4>1, <4>4 DEF Covered
      <4>7. Supported(a)'
        BY <1>2, <2>1, <4>1, <4>5 DEF Supported
      <4> QED
        BY <4>6, <4>7
    <3> QED
      BY <3>3, <3>4
  <2> QED
    BY <2>2, <2>3
<1> QED
  BY <1>4, <1>5 DEF Slots

\* A reservation: the only step that needs Single, for the orders of the other
\* processes.
LEMMA SlotsReserved ==
  ASSUME Single, Inv, Inv', Slots, NEW p \in Procs, Reserve(p) PROVE Slots'
<1> DEFINE o == [op[p] EXCEPT !.pc = "reserved", !.session = wk[p].launch]
<1>1. PICK s : s = wk[p].launch
  OBVIOUS
<1>2. /\ s \in Approvals /\ row[s].state \in Open
      /\ row'[s].reserved = row[s].reserved + 1 /\ row'[s].submitted = row[s].submitted
      /\ row'[s].state = row[s].state
      /\ \A b \in Approvals \ {s} : row'[b] = row[b]
  BY <1>1, ReservedStep
<1>3. /\ op \in [Procs -> Op] /\ op[p].pc = "barrier" /\ op[p].answer = "none"
      /\ UNCHANGED <<accepted, wire>> /\ op' = [op EXCEPT ![p] = o]
  BY DEF Reserve, Inv, OpsOK, OpOK
<1>4. o.pc = "reserved" /\ o.session = s /\ o.answer = "none"
  BY <1>1, <1>3 DEF Op
<1> HIDE DEF o
<1>5. op'[p] = o /\ Moves(p)
  BY <1>3 DEF Moves
<1>6. Uncrossed'
  <2> SUFFICES ASSUME NEW q \in Procs, NEW a \in Approvals, NEW b \in Approvals,
                      Uses(op'[q], a), b # a, row'[b].state \in Open
               PROVE  row'[b].reserved = 0
    BY DEF Uncrossed
  <2>1. row[b].state \in Open
    BY <1>2
  <2>2. b = s
    BY <1>2, <2>1 DEF Inv, OneOpenSession
  <2>3. CASE q = p
    BY <1>4, <1>5, <2>2, <2>3 DEF Uses
  <2>4. CASE q # p
    BY <2>4 DEF Single
  <2> QED
    BY <2>3, <2>4
<1>7. ASSUME NEW a \in Approvals PROVE Covered(a)' /\ Supported(a)'
  <2>1. Covered(a) /\ Supported(a) /\ accepted[a] \in Nat /\ row[a].reserved \in Nat
        /\ row[a].submitted \in Nat
    BY Numbers DEF Slots
  <2>2. /\ Claimed(a)' \in SUBSET (Claimed(a) \cup {p}) /\ Uncounted(a)' \in SUBSET Uncounted(a)
        /\ a # s => Claimed(a)' \in SUBSET Claimed(a)
    <3>1. ~Awaits(op'[p], a) /\ (a # s => ~Claims(op'[p], a))
      BY <1>4, <1>5 DEF Awaits, Claims
    <3> QED
      BY <1>5, <3>1, MovesSets
  <2>3. /\ IsFiniteSet(Uncounted(a)') /\ Cardinality(Uncounted(a)') \in Nat
        /\ Cardinality(Uncounted(a)) \in Nat
        /\ Cardinality(Uncounted(a)') <= Cardinality(Uncounted(a))
    BY <2>1, <2>2, CardLess DEF Supported
  <2>4. Supported(a)'
    <3>1. row'[a].submitted = row[a].submitted
      BY <1>2
    <3> QED
      BY <1>3, <2>1, <2>3, <3>1 DEF Supported
  <2>5. Sent(a)' = Sent(a) /\ Cardinality(Sent(a)) \in Nat
    BY <1>3, <2>1, FS_CardinalityType DEF Sent, Covered
  <2>6. CASE a = s
    <3>1. /\ IsFiniteSet(Claimed(a)') /\ Cardinality(Claimed(a)') \in Nat
          /\ Cardinality(Claimed(a)) \in Nat
          /\ Cardinality(Claimed(a)') <= Cardinality(Claimed(a)) + 1
      BY <2>1, <2>2, CardMore DEF Covered
    <3> QED
      BY <1>2, <1>3, <2>1, <2>4, <2>5, <2>6, <3>1 DEF Covered
  <2>7. CASE a # s
    <3>1. /\ IsFiniteSet(Claimed(a)') /\ Cardinality(Claimed(a)') \in Nat
          /\ Cardinality(Claimed(a)) \in Nat
          /\ Cardinality(Claimed(a)') <= Cardinality(Claimed(a))
      BY <2>1, <2>2, <2>7, CardLess DEF Covered
    <3>2. row'[a] = row[a]
      BY <1>2, <2>7
    <3> QED
      BY <1>3, <2>1, <2>4, <2>5, <3>1, <3>2 DEF Covered
  <2> QED
    BY <2>6, <2>7
<1> QED
  BY <1>6, <1>7 DEF Slots

\* Nothing is ordered yet.
LEMMA SlotsInit == Init => Slots
<1> SUFFICES ASSUME Init PROVE Slots
  OBVIOUS
<1>1. \A p \in Procs : op[p].pc = "idle"
  BY DEF Init, NoOp
<1>2. Uncrossed
  BY <1>1 DEF Uncrossed, Uses, Underway
<1>3. ASSUME NEW a \in Approvals PROVE Covered(a) /\ Supported(a)
  <2>1. Sent(a) = {} /\ Claimed(a) = {} /\ Uncounted(a) = {}
    BY <1>1 DEF Init, Sent, Claimed, Uncounted, Claims, Awaits
  <2>2. accepted[a] = 0 /\ row[a].reserved = 0 /\ row[a].submitted = 0
    BY DEF Init, NoRow
  <2> QED
    BY <2>1, <2>2, FS_EmptySet DEF Covered, Supported
<1> QED
  BY <1>2, <1>3 DEF Slots

\* Every step keeps the order slots.
LEMMA SlotsNext == ASSUME Single PROVE Inv /\ Inv' /\ Slots /\ [Next]_vars => Slots'
<1> SUFFICES ASSUME Inv, Inv', Slots, [Next]_vars PROVE Slots'
  OBVIOUS
<1>1. CASE Quiet
  <2>1. CASE Follows(row, row')
    <3>1. \A a \in Approvals :
            /\ row'[a].submitted = row[a].submitted /\ row'[a].reserved = row[a].reserved
            /\ row'[a].state \in Open => row[a].state \in Open \/ row'[a].reserved = 0
      BY <2>1 DEF Follows, Legal
    <3> QED
      BY <1>1, <3>1, SlotsQuiet
  <2>2. CASE Inserted
    BY <1>1, <2>2, InsertedStep, SlotsQuiet
  <2>3. CASE Reserved
    BY <2>3, SlotsReserved DEF Reserved
  <2> QED
    BY <1>1, <2>1, <2>2, <2>3, TableNext, SlotsReleased, SlotsCounted DEF TableStep
<1> QED
  BY <1>1, QuietStep, SlotsReserved, SlotsPosts, SlotsExchange

\* What the slots say of the exchange.
LEMMA SlotsCover ==
  ASSUME Inv, Slots PROVE StagedOneOrder /\ ReservationCovers /\ SubmittedWereAccepted
<1>1. ASSUME NEW a \in Approvals
      PROVE  /\ Outstanding(a) <= row[a].reserved /\ row[a].submitted <= accepted[a]
             /\ Outstanding(a) \in Nat /\ row[a].reserved \in Nat
  <2>1. Covered(a) /\ Supported(a) /\ accepted[a] \in Nat /\ row[a].reserved \in Nat
        /\ row[a].submitted \in Nat
    BY Numbers DEF Slots
  <2>2. /\ Cardinality(Sent(a)) \in Nat /\ Cardinality(Claimed(a)) \in Nat
        /\ Cardinality(Uncounted(a)) \in Nat
    BY <2>1, FS_CardinalityType DEF Covered, Supported
  <2>3. Outstanding(a) = accepted[a] + Cardinality(Sent(a))
    BY DEF Outstanding, Sent
  <2> QED
    BY <2>1, <2>2, <2>3 DEF Covered, Supported
<1>2. \A a \in Approvals : RowOK(row[a])
  BY DEF Inv, TableOK
<1>3. StagedOneOrder
  BY <1>1, <1>2 DEF StagedOneOrder, RowOK
<1>4. ReservationCovers
  BY <1>1 DEF ReservationCovers
<1>5. SubmittedWereAccepted
  BY <1>1, <1>2 DEF SubmittedWereAccepted, RowOK
<1> QED
  BY <1>3, <1>4, <1>5

\* One process with any approvals, or any overlapping processes with one: every
\* order the exchange has or may still take holds a reservation of its session,
\* so a staged session never has a second one, and what is counted was accepted.
THEOREM LaunchSlots == ASSUME Single PROVE Spec => []Slots
  BY SlotsInit, SlotsNext, LaunchInvariant, PTL DEF Spec

\* The one-order limit of a staged session.
THEOREM LaunchStagedOneOrder == ASSUME Single PROVE Spec => []StagedOneOrder
  BY SlotsCover, LaunchSlots, LaunchInvariant, PTL

\* Every order sent is covered by a reservation that is still held.
THEOREM LaunchReservationCovers == ASSUME Single PROVE Spec => []ReservationCovers
  BY SlotsCover, LaunchSlots, LaunchInvariant, PTL

\* submitted_orders counts accepted orders, and autonomy follows a real one.
THEOREM LaunchSubmittedWereAccepted == ASSUME Single PROVE Spec => []SubmittedWereAccepted
  BY SlotsCover, LaunchSlots, LaunchInvariant, PTL
=============================================================================
