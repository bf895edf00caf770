------------------------------ MODULE AgyQueue ------------------------------
(***************************************************************************)
(* The durable AGY queue (apps/agy_queue): the job table and its           *)
(* transactions (storage.py), submission and manual retry (service.py) and *)
(* the worker that drives one AGY turn per claimed job (worker.py).        *)
(*                                                                         *)
(* Every store method is one transaction (BEGIN IMMEDIATE in SQLite, the   *)
(* writer lock in JSONL), so it is one action.  Between two transactions a *)
(* worker keeps what it read at claim time: `claim[w]` is the JobRecord    *)
(* returned by claim_next, and it may be stale by the time it is used.     *)
(*                                                                         *)
(* Time is abstracted to what the queue compares: a lease is "live" or     *)
(* "expired", a retry backoff is `due` or not; LeaseExpires and            *)
(* BackoffElapses are the passage of time.                                 *)
(***************************************************************************)
EXTENDS Naturals, FiniteSets

CONSTANTS
  Jobs,              \* job ids, ordered as (created_at, job_id)
  Workers,           \* worker ids
  PreflightWorkers,  \* workers with a configured Control Plane runner
  Scopes,            \* scope keys (default: the repository root)
  SubmitKinds,       \* the job kinds callers submit
  MaxAttempts        \* min(3, config.max_attempts)

ASSUME JobsAssumption == Jobs \subseteq Nat \ {0}
ASSUME WorkersAssumption == PreflightWorkers \subseteq Workers
ASSUME MaxAttemptsAssumption == MaxAttempts \in 1..3

JobKind == {"READ_ONLY", "REPO_CHANGE", "RELEASE_GATE_EVALUATE",
            "MAINNET_PREFLIGHT", "VERIFY_EXTERNAL", "CLOUD_WRITE",
            "TRADING_ORDER", "EMERGENCY_KILL_SWITCH"}

ASSUME SubmitKindsAssumption == SubmitKinds \subseteq JobKind

\* Seeded fault: the worker would claim every kind.
AnyJobKind == JobKind

AGY_JOB_KINDS == {"READ_ONLY", "REPO_CHANGE", "RELEASE_GATE_EVALUATE"}

\* Kinds outside the queue's authority: submit raises QueuePolicyError.
RejectedKinds == {"TRADING_ORDER", "EMERGENCY_KILL_SWITCH"}

\* Kinds whose external_effect_class is never retried automatically.
UnsafeKinds == {"CLOUD_WRITE", "TRADING_ORDER", "EMERGENCY_KILL_SWITCH"}

\* Kinds that wait for an authorization reference.
GatedKinds == {"REPO_CHANGE", "CLOUD_WRITE", "MAINNET_PREFLIGHT"}

JobStatus == {"pending", "running", "succeeded", "failed", "cancelled"}
GateState == {"READY", "WAITING_AUTHORIZATION", "WAITING_VERIFICATION",
              "VERIFIED", "BLOCKED"}
Lease     == {"none", "live", "expired"}

NoWorker == "no-worker"
NoJob    == 0
ASSUME NoWorkerAssumption == NoWorker \notin Workers

\* A result envelope carries the attempt and a finished_at timestamp, so two
\* envelopes of one job are byte-equal exactly when they come from the same
\* attempt and outcome.
NoResult == [attempt |-> 0, outcome |-> "none"]
Result   == [attempt : 1..MaxAttempts, outcome : {"succeeded", "failed"}]

Job == [status : JobStatus, gate : GateState, attempt : 0..MaxAttempts,
        max : 1..MaxAttempts, lease : Lease, worker : Workers \cup {NoWorker},
        due : BOOLEAN, kind : SubmitKinds, scope : Scopes, auth : BOOLEAN]

VARIABLES
  jobs,      \* the jobs table: a function on the submitted ids
  results,   \* the job_results table (JSONL: JobRecord.result_json)
  artifact,  \* results/<job_id>.json
  tmp,       \* results/<job_id>.json.tmp, one name for all workers
  pc,        \* what each worker does next
  claim,     \* the JobRecord a worker got from claim_next: id, attempt, max, kind
  error      \* the exception _handle_error is working on

vars == <<jobs, results, artifact, tmp, pc, claim, error>>

Submitted == DOMAIN jobs
NoClaim == [job |-> NoJob, attempt |-> 0, max |-> 1, kind |-> "READ_ONLY"]
NoError == [retryable |-> FALSE, uncertain |-> FALSE]

\* The exceptions a turn can end in, by the two flags _handle_error reads:
\* AgyProtocolError, AgyPermissionError, AgyResultError, RepositoryError,
\* VerificationError | AgyStartupError, AgyCapacityError,
\* MainnetPreflightUnavailable | AgyTimeoutError, AgyProcessExitError |
\* LeaseLostError.
Error == [retryable : BOOLEAN, uncertain : BOOLEAN]
LeaseLostError == [retryable |-> FALSE, uncertain |-> TRUE]
TurnErrors == {[retryable |-> FALSE, uncertain |-> FALSE],
               [retryable |-> TRUE,  uncertain |-> FALSE],
               [retryable |-> TRUE,  uncertain |-> TRUE]}

PC == {"idle", "polled", "turn", "publish", "replace", "commit", "retry",
       "publish_failure", "replace_failure", "commit_failure", "escaped"}

\* The variables have their types.
TypeOK ==
  /\ Submitted \subseteq Jobs
  /\ jobs \in [Submitted -> Job]
  /\ results \in [Jobs -> Result \cup {NoResult}]
  /\ artifact \in [Jobs -> Result \cup {NoResult}]
  /\ tmp \in [Jobs -> Result \cup {NoResult}]
  /\ pc \in [Workers -> PC]
  /\ claim \in [Workers -> [job : Jobs \cup {NoJob}, attempt : 0..MaxAttempts,
                            max : 1..MaxAttempts, kind : JobKind]]
  /\ error \in [Workers -> Error]

Init ==
  /\ jobs = [j \in {} |-> NoResult]
  /\ results = [j \in Jobs |-> NoResult]
  /\ artifact = [j \in Jobs |-> NoResult]
  /\ tmp = [j \in Jobs |-> NoResult]
  /\ pc = [w \in Workers |-> "idle"]
  /\ claim = [w \in Workers |-> NoClaim]
  /\ error = [w \in Workers |-> NoError]

\* The row once nobody holds it: every transition that ends a claim writes
\* lease_until = NULL, worker_id = NULL with the new status and gate.
Unleased(job, status, gate) ==
  [job EXCEPT !.status = status, !.gate = gate, !.lease = "none", !.worker = NoWorker]

-----------------------------------------------------------------------------
(* Service operations: submit, retry; the store's cancel.                  *)

\* Seeded fault: only cloud writes wait for an authorization.
UngatedInitialGate(kind, auth, verification) ==
  IF kind = "CLOUD_WRITE" /\ ~auth THEN "WAITING_AUTHORIZATION"
  ELSE IF kind = "CLOUD_WRITE" /\ ~verification THEN "WAITING_VERIFICATION"
  ELSE "READY"

InitialGate(kind, auth, verification) ==
  IF kind \in GatedKinds /\ ~auth THEN "WAITING_AUTHORIZATION"
  ELSE IF kind = "CLOUD_WRITE" /\ ~verification THEN "WAITING_VERIFICATION"
  ELSE "READY"

Submit(j, kind, scope, max, auth, verification) ==
  /\ j \notin Submitted
  /\ kind \notin RejectedKinds
  /\ jobs' = [i \in Submitted \cup {j} |->
                IF i # j THEN jobs[i]
                ELSE [status |-> "pending", attempt |-> 0, max |-> max,
                      gate |-> InitialGate(kind, auth, verification),
                      lease |-> "none", worker |-> NoWorker, due |-> TRUE,
                      kind |-> kind, scope |-> scope, auth |-> auth]]
  /\ UNCHANGED <<results, artifact, tmp, pc, claim, error>>

\* retry_failed: the operator's bounded retry.  The job row goes back to
\* pending; the job_results row and the artifact of the failure stay.
Retryable(j) == jobs[j].kind \notin UnsafeKinds /\ jobs[j].attempt < jobs[j].max

retry_failed(j) ==
  /\ j \in Submitted
  /\ jobs[j].status = "failed"
  /\ Retryable(j)
  /\ jobs' = [jobs EXCEPT ![j] = [@ EXCEPT !.status = "pending", !.gate = "READY",
                                          !.due = TRUE]]
  /\ UNCHANGED <<results, artifact, tmp, pc, claim, error>>

\* Seeded fault: the status list of the WHERE clause is dropped.
cancel_any(j) ==
  /\ j \in Submitted
  /\ jobs' = [jobs EXCEPT ![j] = Unleased(@, "cancelled", "BLOCKED")]
  /\ UNCHANGED <<results, artifact, tmp, pc, claim, error>>

cancel(j) ==
  /\ j \in Submitted
  /\ jobs[j].status \in {"pending", "running"}
  /\ jobs' = [jobs EXCEPT ![j] = Unleased(@, "cancelled", "BLOCKED")]
  /\ UNCHANGED <<results, artifact, tmp, pc, claim, error>>

-----------------------------------------------------------------------------
(* Time.                                                                   *)

LeaseExpires(j) ==
  /\ j \in Submitted
  /\ jobs[j].lease = "live"
  /\ jobs' = [jobs EXCEPT ![j] = [@ EXCEPT !.lease = "expired"]]
  /\ UNCHANGED <<results, artifact, tmp, pc, claim, error>>

BackoffElapses(j) ==
  /\ j \in Submitted
  /\ jobs[j].status = "pending" /\ ~jobs[j].due
  /\ jobs' = [jobs EXCEPT ![j] = [@ EXCEPT !.due = TRUE]]
  /\ UNCHANGED <<results, artifact, tmp, pc, claim, error>>

-----------------------------------------------------------------------------
(* The worker: run_once.                                                   *)

\* Seeded fault: off by one at the attempt limit.
ExhaustedLate(job) == job.attempt > job.max

Exhausted(job) == job.attempt >= job.max

Recovered(job) ==
  IF job.status # "running" \/ job.lease # "expired" THEN job
  ELSE IF job.kind \in UnsafeKinds \/ Exhausted(job)
  THEN Unleased(job, "failed", "BLOCKED")
  ELSE Unleased([job EXCEPT !.due = TRUE], "pending", "READY")

recover_expired(w) ==
  /\ pc[w] = "idle"
  /\ jobs' = [j \in Submitted |-> Recovered(jobs[j])]
  /\ pc' = [pc EXCEPT ![w] = "polled"]
  /\ UNCHANGED <<results, artifact, tmp, claim, error>>

EligibleKinds(w) ==
  AGY_JOB_KINDS \cup (IF w \in PreflightWorkers THEN {"MAINNET_PREFLIGHT"} ELSE {})

\* Seeded fault: the NOT EXISTS subquery on the scope is dropped.
ScopeIgnored(j) == j = j

ScopeFree(j) ==
  \A i \in Submitted : jobs[i].status = "running" => jobs[i].scope # jobs[j].scope

Claimable(w, j) ==
  /\ jobs[j].status = "pending"
  /\ jobs[j].gate = "READY"
  /\ jobs[j].attempt < jobs[j].max
  /\ jobs[j].due
  /\ ScopeFree(j)
  /\ jobs[j].kind \in EligibleKinds(w)

\* ORDER BY created_at ASC, job_id ASC LIMIT 1
claim_next(w) ==
  /\ pc[w] = "polled"
  /\ \E j \in Submitted :
       /\ Claimable(w, j)
       /\ \A i \in Submitted : Claimable(w, i) => j <= i
       /\ jobs' = [jobs EXCEPT ![j] =
                     [@ EXCEPT !.status = "running", !.attempt = jobs[j].attempt + 1,
                               !.lease = "live", !.worker = w]]
       /\ claim' = [claim EXCEPT ![w] =
                      [job |-> j, attempt |-> jobs[j].attempt + 1,
                       max |-> jobs[j].max, kind |-> jobs[j].kind]]
  /\ pc' = [pc EXCEPT ![w] = "turn"]
  /\ UNCHANGED <<results, artifact, tmp, error>>

NothingToClaim(w) ==
  /\ pc[w] = "polled"
  /\ \A j \in Submitted : ~Claimable(w, j)
  /\ pc' = [pc EXCEPT ![w] = "idle"]
  /\ UNCHANGED <<jobs, results, artifact, tmp, claim, error>>

Owns(w, j) == jobs[j].status = "running" /\ jobs[j].worker = w

Idle(w) ==
  /\ pc' = [pc EXCEPT ![w] = "idle"]
  /\ claim' = [claim EXCEPT ![w] = NoClaim]
  /\ error' = [error EXCEPT ![w] = NoError]

\* The two ways _handle_error goes: schedule a retry or record the failure.
Fail(w, err) ==
  /\ error' = [error EXCEPT ![w] = err]
  /\ pc' = [pc EXCEPT ![w] =
       IF /\ err.retryable
          /\ ~(claim[w].kind = "REPO_CHANGE" /\ err.uncertain)
          /\ claim[w].attempt < claim[w].max
       THEN "retry" ELSE "publish_failure"]
  /\ UNCHANGED claim

\* A due heartbeat inside session.send: extend the lease, or LeaseLostError.
heartbeat(w) ==
  LET j == claim[w].job IN
  /\ pc[w] = "turn"
  /\ claim[w].kind \in AGY_JOB_KINDS
  /\ IF Owns(w, j)
     THEN /\ jobs' = [jobs EXCEPT ![j] = [@ EXCEPT !.lease = "live"]]
          /\ UNCHANGED <<pc, claim, error>>
     ELSE Fail(w, LeaseLostError) /\ UNCHANGED jobs
  /\ UNCHANGED <<results, artifact, tmp>>

TurnSucceeds(w) ==
  /\ pc[w] = "turn"
  /\ pc' = [pc EXCEPT ![w] = "publish"]
  /\ UNCHANGED <<jobs, results, artifact, tmp, claim, error>>

TurnFails(w, err) ==
  /\ pc[w] = "turn"
  /\ err.uncertain => claim[w].kind \in AGY_JOB_KINDS
  /\ Fail(w, err)
  /\ UNCHANGED <<jobs, results, artifact, tmp>>

\* Seeded fault: the envelope numbers attempts from zero.
EnvelopeOffByOne(w, outcome) == [attempt |-> claim[w].attempt - 1, outcome |-> outcome]

Envelope(w, outcome) == [attempt |-> claim[w].attempt, outcome |-> outcome]

\* ResultArtifactStore.write_result.  Its lock is a threading.Lock of one
\* process, so between workers it is two steps: look at the result file and,
\* if there is none, write the temporary; then rename the temporary, which
\* another worker may have written or renamed meanwhile.
write_result(w, outcome, replace, commit) ==
  LET j == claim[w].job IN
  /\ \/ /\ artifact[j] = NoResult
        /\ tmp' = [tmp EXCEPT ![j] = Envelope(w, outcome)]
        /\ pc' = [pc EXCEPT ![w] = replace]
     \/ /\ artifact[j] = Envelope(w, outcome)
        /\ pc' = [pc EXCEPT ![w] = commit]
        /\ UNCHANGED tmp
  /\ UNCHANGED <<artifact, claim, error>>

\* QueueStorageError: another envelope is published for the job.
AlreadyDiffers(w, outcome) ==
  artifact[claim[w].job] \notin {NoResult, Envelope(w, outcome)}

\* Seeded fault: the worker goes on although its temporary is gone.
unchecked_replace(w, commit) ==
  LET j == claim[w].job IN
  /\ artifact' = [artifact EXCEPT ![j] = tmp[j]]
  /\ tmp' = [tmp EXCEPT ![j] = NoResult]
  /\ pc' = [pc EXCEPT ![w] = commit]
  /\ UNCHANGED <<claim, error>>

\* os.replace(temporary, path)
os_replace(w, commit) ==
  LET j == claim[w].job IN
  /\ tmp[j] # NoResult
  /\ artifact' = [artifact EXCEPT ![j] = tmp[j]]
  /\ tmp' = [tmp EXCEPT ![j] = NoResult]
  /\ pc' = [pc EXCEPT ![w] = commit]
  /\ UNCHANGED <<claim, error>>

PublishSuccess(w) ==
  /\ pc[w] = "publish"
  /\ \/ write_result(w, "succeeded", "replace", "commit")
     \/ /\ AlreadyDiffers(w, "succeeded")
        /\ Fail(w, NoError)                    \* WorkerError(str(error))
        /\ UNCHANGED <<artifact, tmp>>
  /\ UNCHANGED <<jobs, results>>

\* The rename fails with an OSError when the temporary is gone, and on Windows
\* also while another worker has it open.
ReplaceSuccess(w) ==
  /\ pc[w] = "replace"
  /\ \/ os_replace(w, "commit")
     \/ Fail(w, NoError) /\ UNCHANGED <<artifact, tmp>>
  /\ UNCHANGED <<jobs, results>>

\* Seeded fault: no worker_id in the WHERE clause of the completion.
UnfencedCompletion(w, j, done) == jobs[j].status \in {done, "running"}

\* Whether a completion call finds the row in the state it may write.
MayComplete(w, j, done) == jobs[j].status = done \/ Owns(w, j)

\* QueueConflictError: another envelope is already stored for the job.
Conflicts(w, j) == results[j] \notin {NoResult, Envelope(w, "succeeded")}

mark_success(w) ==
  LET j == claim[w].job IN
  /\ pc[w] = "commit"
  /\ IF ~MayComplete(w, j, "succeeded")
     THEN Idle(w) /\ UNCHANGED <<jobs, results>>
     ELSE IF Conflicts(w, j)
     THEN Fail(w, NoError) /\ UNCHANGED <<jobs, results>>
     ELSE /\ results' = [results EXCEPT ![j] = Envelope(w, "succeeded")]
          /\ jobs' = [jobs EXCEPT ![j] = Unleased(@, "succeeded", "VERIFIED")]
          /\ Idle(w)
  /\ UNCHANGED <<artifact, tmp>>

\* schedule_retry: the row must be running; the caller's worker_id is not an
\* argument.  On FALSE _handle_error falls through to the failure path.
MayReschedule(w, j) == jobs[j].status = "running" /\ Retryable(j)

schedule_retry(w) ==
  LET j == claim[w].job IN
  /\ pc[w] = "retry"
  /\ \/ /\ MayReschedule(w, j)
        /\ jobs' = [jobs EXCEPT ![j] =
                      Unleased([@ EXCEPT !.due = FALSE], "pending", "READY")]
        /\ Idle(w)
     \/ /\ ~MayReschedule(w, j)
        /\ pc' = [pc EXCEPT ![w] = "publish_failure"]
        /\ UNCHANGED <<jobs, claim, error>>
  /\ UNCHANGED <<results, artifact, tmp>>

\* The failure path of _handle_error.  An exception of write_result is raised
\* inside run_once's except clause: it leaves run_once and ends the process.
Escape(w) == pc' = [pc EXCEPT ![w] = "escaped"] /\ UNCHANGED <<artifact, tmp, claim, error>>

PublishFailure(w) ==
  /\ pc[w] = "publish_failure"
  /\ \/ write_result(w, "failed", "replace_failure", "commit_failure")
     \/ AlreadyDiffers(w, "failed") /\ Escape(w)
  /\ UNCHANGED <<jobs, results>>

ReplaceFailure(w) ==
  /\ pc[w] = "replace_failure"
  /\ os_replace(w, "commit_failure") \/ Escape(w)
  /\ UNCHANGED <<jobs, results>>

mark_failure(w) ==
  LET j == claim[w].job IN
  /\ pc[w] = "commit_failure"
  /\ Idle(w)
  /\ IF MayComplete(w, j, "failed")
     THEN /\ results' = [results EXCEPT ![j] = Envelope(w, "failed")]
          /\ jobs' = [jobs EXCEPT ![j] = Unleased(@, "failed", "BLOCKED")]
     ELSE UNCHANGED <<jobs, results>>
  /\ UNCHANGED <<artifact, tmp>>

\* The worker process ends, while it holds a claim or by an exception that
\* left run_once, and is started again.  (Before the claim it has nothing to
\* lose: that crash is a worker that polls later.)
Restart(w) ==
  /\ pc[w] \notin {"idle", "polled"}
  /\ Idle(w)
  /\ UNCHANGED <<jobs, results, artifact, tmp>>

-----------------------------------------------------------------------------
SubmitAny(j) ==
  \E kind \in SubmitKinds, scope \in Scopes, max \in 1..MaxAttempts,
     auth, verification \in BOOLEAN :
    Submit(j, kind, scope, max, auth, verification)

Operator(j) == SubmitAny(j) \/ retry_failed(j) \/ cancel(j)
Time(j) == LeaseExpires(j) \/ BackoffElapses(j)

RunOnce(w) ==
  \/ recover_expired(w) \/ claim_next(w) \/ NothingToClaim(w)
  \/ heartbeat(w) \/ TurnSucceeds(w) \/ \E err \in TurnErrors : TurnFails(w, err)
  \/ PublishSuccess(w) \/ ReplaceSuccess(w) \/ mark_success(w) \/ schedule_retry(w)
  \/ PublishFailure(w) \/ ReplaceFailure(w) \/ mark_failure(w)

Next ==
  \/ \E j \in Jobs : Operator(j) \/ Time(j)
  \/ \E w \in Workers : RunOnce(w) \/ Restart(w)

Spec == Init /\ [][Next]_vars

\* The worker loop keeps running and every turn ends (job_timeout bounds
\* session.send); a process that exited is started again; clocks advance.
\* No fairness for the operator or for crashes.
Fairness ==
  /\ \A w \in Workers :
       /\ WF_vars(recover_expired(w)) /\ WF_vars(claim_next(w))
       /\ WF_vars(NothingToClaim(w))
       /\ WF_vars(TurnSucceeds(w) \/ \E err \in TurnErrors : TurnFails(w, err))
       /\ WF_vars(PublishSuccess(w)) /\ WF_vars(ReplaceSuccess(w))
       /\ WF_vars(mark_success(w)) /\ WF_vars(schedule_retry(w))
       /\ WF_vars(PublishFailure(w)) /\ WF_vars(ReplaceFailure(w))
       /\ WF_vars(mark_failure(w))
       /\ WF_vars(pc[w] = "escaped" /\ Restart(w))
  /\ \A j \in Jobs : WF_vars(LeaseExpires(j)) /\ WF_vars(BackoffElapses(j))

FairSpec == Spec /\ Fairness

-----------------------------------------------------------------------------
(* Properties.                                                             *)

\* claim_next serialises a scope: whatever leases expire and are reclaimed,
\* two rows of one scope are never running together (storage.py:576-583).
ScopeExclusive ==
  \A i, j \in Submitted :
    i # j /\ jobs[i].status = "running" /\ jobs[j].status = "running"
      => jobs[i].scope # jobs[j].scope

\* Bounded retry: no path back to pending (expired lease, scheduled retry,
\* manual retry) leaves a job that claim_next would never take again because
\* its attempts are used up.
PendingHasAttempts ==
  \A j \in Submitted : jobs[j].status = "pending" => jobs[j].attempt < jobs[j].max

\* The retry and recovery paths reset gate_state to READY without looking at
\* the authorization; still no gated job runs, or has run, without one.
RunsOnlyAuthorized ==
  \A j \in Submitted :
    jobs[j].attempt > 0 /\ jobs[j].kind \in GatedKinds => jobs[j].auth

\* A stored result always has its file: result_path in the row never names a
\* file that was not published, although the two are written in separate steps
\* and the temporary file is shared by workers that lost the job in between.
StoredResultHasFile ==
  \A j \in Jobs : results[j] # NoResult => artifact[j] # NoResult

\* A succeeded job holds the success envelope of its latest claim: a worker
\* whose lease was taken over never completes the job with its older attempt.
SucceededByLatestClaim ==
  \A j \in Submitted :
    jobs[j].status = "succeeded" =>
      results[j] = [attempt |-> jobs[j].attempt, outcome |-> "succeeded"]

\* Cloud writes, orders and the kill switch stay outside the AGY worker: no
\* path through submit, gates, retry or recovery ever lets one start.
ExternalEffectsNeverRun ==
  \A j \in Submitted : jobs[j].kind \in UnsafeKinds => jobs[j].attempt = 0

\* Succeeded and cancelled rows are final, whatever late worker, recovery or
\* operator call arrives.
SettledIsFinal ==
  [][\A j \in Submitted :
       jobs[j].status \in {"succeeded", "cancelled"} =>
         jobs'[j] = jobs[j] /\ results'[j] = results[j]]_vars

\* Fencing of completion: a running job ends only by its current owner's own
\* completion of this attempt, or by recovery once the lease has expired.
CompletionIsFenced ==
  [][\A j \in Submitted :
       jobs[j].status = "running" /\ jobs'[j].status \in {"succeeded", "failed"} =>
         \/ jobs[j].lease = "expired" /\ jobs'[j].status = "failed"
         \/ \E w \in Workers :
              /\ w = jobs[j].worker
              /\ claim[w].job = j /\ claim[w].attempt = jobs[j].attempt
              /\ pc[w] \in {"commit", "commit_failure"}]_vars

\* Every claimable job settles: a crash, a lost lease or a result file another
\* claim left behind delays it, but the bounded attempts always end.
EveryJobSettles ==
  \A j \in Jobs :
    (j \in Submitted /\ jobs[j].status = "pending" /\ jobs[j].gate = "READY"
       /\ jobs[j].kind \in AGY_JOB_KINDS)
      ~> (j \in Submitted /\ jobs[j].status \in {"succeeded", "failed", "cancelled"})

\* What tests/python/test_agy_queue.py:509 says of a reclaimed job: a worker
\* whose lease expired must not disturb the new owner's in-flight row.  A live
\* lease ends only by the owner's own step or by cancel.
LiveClaimUndisturbed ==
  [][\A j \in Submitted :
       jobs[j].status = "running" /\ jobs[j].lease = "live"
         /\ jobs'[j].status # "running"
       => \/ jobs'[j].status = "cancelled"
          \/ pc'[jobs[j].worker] # pc[jobs[j].worker]]_vars

\* What tests/python/test_agy_queue.py:544 says: the rightful current owner
\* can still complete the job normally.
OwnerCanPublish ==
  \A w \in Workers :
    pc[w] = "publish" /\ Owns(w, claim[w].job)
      => artifact[claim[w].job] \in {NoResult, Envelope(w, "succeeded")}

=============================================================================
