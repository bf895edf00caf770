--------------------------- MODULE AgyQueueProofs ---------------------------
(***************************************************************************)
(* Proofs about AgyQueue, for every set of jobs, workers, scopes and kinds *)
(* and every attempt limit.                                                *)
(***************************************************************************)
EXTENDS AgyQueue, TLAPS

\* A worker between its claim and the end of run_once.
Busy(w) == pc[w] \notin {"idle", "polled"}

\* The attempt counter stays within the job's limit, and a pending job has an
\* attempt left.
AttemptsBounded ==
  \A j \in Submitted :
    /\ jobs[j].attempt <= jobs[j].max
    /\ jobs[j].status = "pending" => jobs[j].attempt < jobs[j].max

\* What a busy worker read at claim time may be old but was once true; if the
\* row still names the worker, it is of the row's latest attempt.
ClaimsKnown ==
  \A w \in Workers :
    Busy(w) =>
      LET j == claim[w].job IN
      /\ j \in Submitted
      /\ claim[w].attempt \in 1..MaxAttempts
      /\ Owns(w, j) => claim[w].attempt = jobs[j].attempt

\* A worker about to commit left a result file behind, perhaps not its own.
PublishedFirst ==
  \A w \in Workers :
    pc[w] \in {"commit", "commit_failure"} => artifact[claim[w].job] # NoResult

IInv == /\ TypeOK /\ AttemptsBounded /\ ScopeExclusive /\ ClaimsKnown
        /\ PublishedFirst /\ StoredResultHasFile /\ SucceededByLatestClaim

\* A step that takes no job: rows keep their attempts, limit and scope, none
\* starts to run or changes hands, and none becomes pending with no attempt
\* left.  Every action but Submit and claim_next is one.
RowsKept ==
  /\ Submitted' = Submitted
  /\ jobs' \in [Submitted -> Job]
  /\ \A i \in Submitted :
       /\ jobs'[i].attempt = jobs[i].attempt
       /\ jobs'[i].max = jobs[i].max
       /\ jobs'[i].scope = jobs[i].scope
       /\ jobs'[i].status = "running" =>
            jobs[i].status = "running" /\ jobs'[i].worker = jobs[i].worker
       /\ jobs'[i].status = "pending" => jobs[i].attempt < jobs[i].max

\* A step in which no worker becomes busy and busy workers keep their claims.
ClaimsKept ==
  \A v \in Workers : Busy(v)' => Busy(v) /\ claim'[v] = claim[v]

-----------------------------------------------------------------------------
(* Rows.                                                                   *)

\* Releasing a row changes nothing but status, gate, lease and worker.
LEMMA UnleasedRow ==
  ASSUME NEW r \in Job, NEW s \in JobStatus, NEW g \in GateState
  PROVE  /\ Unleased(r, s, g) \in Job
         /\ Unleased(r, s, g).status = s
         /\ Unleased(r, s, g).attempt = r.attempt
         /\ Unleased(r, s, g).max = r.max
         /\ Unleased(r, s, g).scope = r.scope
  BY DEF Unleased, Job, Lease

\* A write of one row leaves the other rows alone.
LEMMA RowWrite ==
  ASSUME TypeOK, NEW j \in Submitted, NEW r \in Job,
         jobs' = [jobs EXCEPT ![j] = r]
  PROVE  /\ Submitted' = Submitted
         /\ jobs' \in [Submitted -> Job]
         /\ jobs'[j] = r
         /\ \A i \in Submitted : i # j => jobs'[i] = jobs[i]
  BY DEF TypeOK, Submitted

\* A write of one row that does not take the job keeps the rows.
LEMMA RowWriteKeeps ==
  ASSUME IInv, NEW j \in Submitted, NEW r \in Job,
         jobs' = [jobs EXCEPT ![j] = r],
         r.attempt = jobs[j].attempt, r.max = jobs[j].max, r.scope = jobs[j].scope,
         r.status = "running" => jobs[j].status = "running" /\ r.worker = jobs[j].worker,
         r.status = "pending" => jobs[j].attempt < jobs[j].max
  PROVE  RowsKept
<1>1. /\ Submitted' = Submitted
      /\ jobs' \in [Submitted -> Job]
      /\ jobs'[j] = r
      /\ \A i \in Submitted : i # j => jobs'[i] = jobs[i]
  BY RowWrite DEF IInv
<1>2. \A i \in Submitted : jobs[i].status = "pending" => jobs[i].attempt < jobs[i].max
  BY DEF IInv, AttemptsBounded
<1>3. ASSUME NEW i \in Submitted
      PROVE  /\ jobs'[i].attempt = jobs[i].attempt
             /\ jobs'[i].max = jobs[i].max
             /\ jobs'[i].scope = jobs[i].scope
             /\ jobs'[i].status = "running" =>
                  jobs[i].status = "running" /\ jobs'[i].worker = jobs[i].worker
             /\ jobs'[i].status = "pending" => jobs[i].attempt < jobs[i].max
  <2>1. CASE i = j
    BY <2>1, <1>1
  <2>2. CASE i # j
    BY <2>2, <1>1, <1>2
  <2>3. QED
    BY <2>1, <2>2
<1>4. QED
  BY <1>1, <1>3 DEF RowsKept

\* A step that does not touch the job table keeps the rows.
LEMMA SameRowsKept ==
  ASSUME IInv, UNCHANGED jobs
  PROVE  RowsKept
  BY DEF IInv, TypeOK, AttemptsBounded, RowsKept, Submitted

\* recover_expired only releases rows.
LEMMA RecoveredRow ==
  ASSUME NEW r \in Job, r.status = "pending" => r.attempt < r.max
  PROVE  /\ Recovered(r) \in Job
         /\ Recovered(r).attempt = r.attempt
         /\ Recovered(r).max = r.max
         /\ Recovered(r).scope = r.scope
         /\ Recovered(r).status = "running" => Recovered(r) = r
         /\ Recovered(r).status = "succeeded" => Recovered(r) = r
         /\ Recovered(r).status = "pending" => r.attempt < r.max
<1>1. CASE r.status # "running" \/ r.lease # "expired"
  BY <1>1 DEF Recovered
<1>2. CASE ~(r.status # "running" \/ r.lease # "expired")
           /\ (r.kind \in UnsafeKinds \/ Exhausted(r))
  <2>1. Recovered(r) = Unleased(r, "failed", "BLOCKED")
    BY <1>2 DEF Recovered
  <2>2. QED
    BY <2>1, UnleasedRow DEF JobStatus, GateState
<1>3. CASE ~(r.status # "running" \/ r.lease # "expired")
           /\ ~(r.kind \in UnsafeKinds \/ Exhausted(r))
  <2> DEFINE d == [r EXCEPT !.due = TRUE]
  <2>1. /\ d \in Job
        /\ d.attempt = r.attempt /\ d.max = r.max /\ d.scope = r.scope
    BY DEF Job
  <2>2. Recovered(r) = Unleased(d, "pending", "READY")
    BY <1>3 DEF Recovered
  <2>3. r.attempt < r.max
    BY <1>3, MaxAttemptsAssumption DEF Exhausted, Job
  <2> HIDE DEF d
  <2>4. QED
    BY <2>1, <2>2, <2>3, UnleasedRow DEF JobStatus, GateState
<1>4. QED
  BY <1>1, <1>2, <1>3

-----------------------------------------------------------------------------
(* The conjuncts that follow from RowsKept and ClaimsKept.                 *)

\* The limits and the scopes.
LEMMA KeptRows ==
  ASSUME IInv, RowsKept
  PROVE  AttemptsBounded' /\ ScopeExclusive'
<1>1. AttemptsBounded'
  BY DEF IInv, RowsKept, AttemptsBounded
<1>2. ScopeExclusive'
  BY DEF IInv, RowsKept, ScopeExclusive
<1>3. QED
  BY <1>1, <1>2

\* The claims.
LEMMA KeptClaims ==
  ASSUME IInv, RowsKept, ClaimsKept
  PROVE  ClaimsKnown'
<1> SUFFICES ASSUME NEW v \in Workers, Busy(v)'
             PROVE  /\ claim'[v].job \in Submitted'
                    /\ claim'[v].attempt \in 1..MaxAttempts
                    /\ Owns(v, claim[v].job)' => claim'[v].attempt = jobs'[claim'[v].job].attempt
  BY DEF ClaimsKnown
<1>1. Busy(v) /\ claim'[v] = claim[v]
  BY DEF ClaimsKept
<1>2. /\ claim[v].job \in Submitted
      /\ claim[v].attempt \in 1..MaxAttempts
      /\ Owns(v, claim[v].job) => claim[v].attempt = jobs[claim[v].job].attempt
  BY <1>1 DEF IInv, ClaimsKnown
<1>3. Owns(v, claim[v].job)' => Owns(v, claim[v].job)
  BY <1>1, <1>2 DEF RowsKept, Owns
<1>4. QED
  BY <1>1, <1>2, <1>3 DEF RowsKept

\* A step that writes neither results nor artifacts, lets no worker reach a
\* commit and completes no job keeps what is published and stored.
LEMMA KeptResults ==
  ASSUME IInv, RowsKept, ClaimsKept, UNCHANGED <<results, artifact, tmp>>,
         \A v \in Workers : pc'[v] \in {"commit", "commit_failure"} => pc'[v] = pc[v],
         \A i \in Submitted : jobs'[i].status = "succeeded" => jobs[i].status = "succeeded"
  PROVE  PublishedFirst' /\ StoredResultHasFile' /\ SucceededByLatestClaim'
<1>1. PublishedFirst'
  BY DEF IInv, ClaimsKept, PublishedFirst, Busy
<1>2. StoredResultHasFile'
  BY DEF IInv, StoredResultHasFile
<1>3. SucceededByLatestClaim'
  BY DEF IInv, RowsKept, SucceededByLatestClaim
<1>4. QED
  BY <1>1, <1>2, <1>3

-----------------------------------------------------------------------------
(* The worker's own variables.                                             *)

WorkerTypes ==
  /\ pc \in [Workers -> PC]
  /\ claim \in [Workers -> [job : Jobs \cup {NoJob}, attempt : 0..MaxAttempts,
                            max : 1..MaxAttempts, kind : JobKind]]
  /\ error \in [Workers -> Error]

\* Idle and Fail keep the worker variables in their types, and claims.
LEMMA IdleKeeps ==
  ASSUME IInv, NEW w \in Workers, Idle(w)
  PROVE  /\ WorkerTypes' /\ ClaimsKept
         /\ \A v \in Workers : pc'[v] \in {"commit", "commit_failure"} => pc'[v] = pc[v]
<1>1. NoClaim \in [job : Jobs \cup {NoJob}, attempt : 0..MaxAttempts,
                   max : 1..MaxAttempts, kind : JobKind]
  BY MaxAttemptsAssumption DEF NoClaim, JobKind
<1>2. NoError \in Error /\ "idle" \in PC
  BY DEF NoError, Error, PC
<1>3. WorkerTypes'
  BY <1>1, <1>2 DEF Idle, IInv, TypeOK, WorkerTypes
<1>4. QED
  BY <1>3 DEF Idle, IInv, TypeOK, ClaimsKept, Busy

\* _handle_error.
LEMMA FailKeeps ==
  ASSUME IInv, NEW w \in Workers, NEW err \in Error, Fail(w, err), Busy(w)
  PROVE  /\ WorkerTypes' /\ ClaimsKept
         /\ \A v \in Workers : pc'[v] \in {"commit", "commit_failure"} => pc'[v] = pc[v]
<1> DEFINE p == IF /\ err.retryable
                   /\ ~(claim[w].kind = "REPO_CHANGE" /\ err.uncertain)
                   /\ claim[w].attempt < claim[w].max
                THEN "retry" ELSE "publish_failure"
<1>1. pc' = [pc EXCEPT ![w] = p] /\ error' = [error EXCEPT ![w] = err] /\ claim' = claim
  BY DEF Fail
<1>2. p \in {"retry", "publish_failure"}
  OBVIOUS
<1> HIDE DEF p
<1>3. WorkerTypes'
  BY <1>1, <1>2 DEF IInv, TypeOK, WorkerTypes, PC
<1>4. QED
  BY <1>1, <1>2, <1>3 DEF IInv, TypeOK, ClaimsKept, Busy

\* A worker that goes on with its claim.
LEMMA StepKeeps ==
  ASSUME IInv, NEW w \in Workers, NEW p \in PC, pc' = [pc EXCEPT ![w] = p],
         UNCHANGED <<claim, error>>, Busy(w) \/ p \in {"idle", "polled"}
  PROVE  /\ WorkerTypes' /\ ClaimsKept
         /\ \A v \in Workers : v # w => pc'[v] = pc[v]
         /\ pc'[w] = p
<1>1. WorkerTypes'
  BY DEF IInv, TypeOK, WorkerTypes
<1>2. QED
  BY <1>1 DEF IInv, TypeOK, ClaimsKept, Busy

\* Types from their parts.
LEMMA TypeFromParts ==
  ASSUME TypeOK, RowsKept, WorkerTypes', UNCHANGED <<results, artifact, tmp>>
  PROVE  TypeOK'
  BY DEF TypeOK, RowsKept, WorkerTypes

\* A step of somebody else.
LEMMA SameWorkers ==
  ASSUME IInv, UNCHANGED <<pc, claim, error>>
  PROVE  /\ WorkerTypes' /\ ClaimsKept
         /\ \A v \in Workers : pc'[v] = pc[v]
  BY DEF IInv, TypeOK, WorkerTypes, ClaimsKept, Busy

\* The induction step of every action that touches neither the results table
\* nor the artifacts, takes no job and completes none.
LEMMA QuietStep ==
  ASSUME IInv, RowsKept, ClaimsKept, WorkerTypes', UNCHANGED <<results, artifact, tmp>>,
         \A v \in Workers : pc'[v] \in {"commit", "commit_failure"} => pc'[v] = pc[v],
         \A i \in Submitted : jobs'[i].status = "succeeded" => jobs[i].status = "succeeded"
  PROVE  IInv'
<1>1. TypeOK'
  BY TypeFromParts DEF IInv
<1>2. AttemptsBounded' /\ ScopeExclusive'
  BY KeptRows
<1>3. ClaimsKnown'
  BY KeptClaims
<1>4. PublishedFirst' /\ StoredResultHasFile' /\ SucceededByLatestClaim'
  BY KeptResults
<1>5. QED
  BY <1>1, <1>2, <1>3, <1>4 DEF IInv

-----------------------------------------------------------------------------
(* One lemma per action that takes a job, publishes or completes.          *)

\* Submit adds a fresh pending row.
LEMMA SubmitStep ==
  ASSUME IInv, NEW j \in Jobs, SubmitAny(j)
  PROVE  IInv'
<1>1. PICK kind \in SubmitKinds, scope \in Scopes, max \in 1..MaxAttempts,
           auth \in BOOLEAN, verification \in BOOLEAN :
             Submit(j, kind, scope, max, auth, verification)
  BY DEF SubmitAny
<1> DEFINE r == [status |-> "pending", attempt |-> 0, max |-> max,
                 gate |-> InitialGate(kind, auth, verification),
                 lease |-> "none", worker |-> NoWorker, due |-> TRUE,
                 kind |-> kind, scope |-> scope, auth |-> auth]
<1>2. r \in Job
  BY MaxAttemptsAssumption DEF Job, JobStatus, GateState, Lease, InitialGate
<1>3. r.attempt = 0 /\ r.max \in 1..MaxAttempts /\ r.status = "pending"
  OBVIOUS
<1>4. /\ j \notin Submitted
      /\ jobs' = [i \in Submitted \cup {j} |-> IF i # j THEN jobs[i] ELSE r]
      /\ UNCHANGED <<results, artifact, tmp, pc, claim, error>>
  BY <1>1 DEF Submit
<1> HIDE DEF r
<1>5. /\ Submitted' = Submitted \cup {j}
      /\ jobs'[j] = r
      /\ \A i \in Submitted : i # j /\ jobs'[i] = jobs[i]
  BY <1>4 DEF Submitted
<1>6. TypeOK'
  BY <1>2, <1>4, <1>5 DEF IInv, TypeOK
<1>7. AttemptsBounded'
  BY <1>3, <1>5, MaxAttemptsAssumption DEF IInv, AttemptsBounded
<1>8. ScopeExclusive'
  BY <1>3, <1>5 DEF IInv, ScopeExclusive
<1>9. ClaimsKnown'
  BY <1>4, <1>5 DEF IInv, ClaimsKnown, Busy, Owns
<1>10. PublishedFirst' /\ StoredResultHasFile'
  BY <1>4 DEF IInv, PublishedFirst, StoredResultHasFile
<1>11. SucceededByLatestClaim'
  BY <1>3, <1>4, <1>5 DEF IInv, SucceededByLatestClaim
<1>12. QED
  BY <1>6, <1>7, <1>8, <1>9, <1>10, <1>11 DEF IInv

\* claim_next takes a pending row of a free scope: its own claim is of the
\* new attempt, and whoever had claimed the row before no longer owns it.
LEMMA ClaimStep ==
  ASSUME IInv, NEW w \in Workers, claim_next(w)
  PROVE  IInv'
<1>1. PICK j \in Submitted :
        /\ Claimable(w, j)
        /\ jobs' = [jobs EXCEPT ![j] =
                      [@ EXCEPT !.status = "running", !.attempt = jobs[j].attempt + 1,
                                !.lease = "live", !.worker = w]]
        /\ claim' = [claim EXCEPT ![w] =
                       [job |-> j, attempt |-> jobs[j].attempt + 1,
                        max |-> jobs[j].max, kind |-> jobs[j].kind]]
  BY DEF claim_next
<1>2. /\ pc[w] = "polled" /\ pc' = [pc EXCEPT ![w] = "turn"]
      /\ UNCHANGED <<results, artifact, tmp, error>>
  BY DEF claim_next
<1> DEFINE r == [jobs[j] EXCEPT !.status = "running", !.attempt = jobs[j].attempt + 1,
                                !.lease = "live", !.worker = w]
           c == [job |-> j, attempt |-> jobs[j].attempt + 1,
                 max |-> jobs[j].max, kind |-> jobs[j].kind]
<1>3. /\ jobs[j] \in Job /\ j \in Jobs
      /\ jobs[j].attempt < jobs[j].max /\ jobs[j].status = "pending"
      /\ ScopeFree(j)
  BY <1>1 DEF IInv, TypeOK, Claimable
<1>0. jobs[j].attempt + 1 \in 0..MaxAttempts
  BY <1>3, MaxAttemptsAssumption DEF Job
<1>4. /\ r \in Job
      /\ r.status = "running" /\ r.attempt = jobs[j].attempt + 1
      /\ r.max = jobs[j].max /\ r.scope = jobs[j].scope /\ r.worker = w
  BY <1>0, <1>3 DEF Job, JobStatus, Lease
<1>5. /\ c \in [job : Jobs \cup {NoJob}, attempt : 0..MaxAttempts,
                max : 1..MaxAttempts, kind : JobKind]
      /\ c.job = j /\ c.attempt = jobs[j].attempt + 1
      /\ c.attempt \in 1..MaxAttempts
  BY <1>3, MaxAttemptsAssumption, SubmitKindsAssumption DEF Job
<1>6. jobs' = [jobs EXCEPT ![j] = r] /\ claim' = [claim EXCEPT ![w] = c]
  BY <1>1
<1> HIDE DEF r, c
<1>7. /\ Submitted' = Submitted
      /\ jobs' \in [Submitted -> Job]
      /\ jobs'[j] = r
      /\ \A i \in Submitted : i # j => jobs'[i] = jobs[i]
  BY <1>4, <1>6, RowWrite DEF IInv
<1>8. /\ claim'[w] = c /\ pc'[w] = "turn"
      /\ \A v \in Workers : v # w => claim'[v] = claim[v] /\ pc'[v] = pc[v]
  BY <1>2, <1>6 DEF IInv, TypeOK
<1>9. TypeOK'
  BY <1>2, <1>5, <1>6, <1>7 DEF IInv, TypeOK, PC
<1>10. AttemptsBounded'
  BY <1>3, <1>4, <1>7, MaxAttemptsAssumption DEF IInv, AttemptsBounded, Job
<1>11. ScopeExclusive'
  BY <1>3, <1>4, <1>7 DEF IInv, ScopeExclusive, ScopeFree
<1>12. ClaimsKnown'
  <2> SUFFICES ASSUME NEW v \in Workers, Busy(v)'
               PROVE  /\ claim'[v].job \in Submitted'
                      /\ claim'[v].attempt \in 1..MaxAttempts
                      /\ (jobs'[claim'[v].job].status = "running"
                            /\ jobs'[claim'[v].job].worker = v)
                           => claim'[v].attempt = jobs'[claim'[v].job].attempt
    BY DEF ClaimsKnown, Owns
  <2>1. CASE v = w
    BY <2>1, <1>4, <1>5, <1>7, <1>8
  <2>2. CASE v # w
    BY <2>2, <1>4, <1>7, <1>8 DEF IInv, ClaimsKnown, Busy, Owns
  <2>3. QED
    BY <2>1, <2>2
<1>13. PublishedFirst' /\ StoredResultHasFile'
  BY <1>2, <1>8 DEF IInv, PublishedFirst, StoredResultHasFile
<1>14. SucceededByLatestClaim'
  BY <1>2, <1>4, <1>7 DEF IInv, SucceededByLatestClaim
<1>15. QED
  BY <1>9, <1>10, <1>11, <1>12, <1>13, <1>14 DEF IInv

\* Writing the temporary, or finding the file there, touches no other state;
\* the worker reaches its commit only when the file exists.
LEMMA WriteStep ==
  ASSUME IInv, NEW w \in Workers, NEW o \in {"succeeded", "failed"}, Busy(w),
         NEW p \in PC \ {"commit", "commit_failure"}, NEW c \in PC,
         write_result(w, o, p, c), Busy(w)', UNCHANGED <<jobs, results>>
  PROVE  IInv'
<1> DEFINE j == claim[w].job
<1>1. /\ j \in Jobs /\ claim[w].attempt \in 1..MaxAttempts
      /\ pc \in [Workers -> PC]
  BY DEF IInv, ClaimsKnown, TypeOK
<1>2. Envelope(w, o) \in Result /\ Envelope(w, o) # NoResult
  BY <1>1 DEF Envelope, Result, NoResult
<1>3. UNCHANGED <<artifact, claim, error>>
  BY DEF write_result
<1>4. PICK q \in {p, c} : pc' = [pc EXCEPT ![w] = q] /\ (q = p \/ artifact[j] = Envelope(w, o))
  BY DEF write_result
<1>5. /\ WorkerTypes' /\ ClaimsKept /\ pc'[w] = q
      /\ \A v \in Workers : v # w => pc'[v] = pc[v]
  BY <1>3, <1>4, StepKeeps
<1>6. RowsKept
  BY SameRowsKept
<1>7. tmp' \in [Jobs -> Result \cup {NoResult}]
  BY <1>2 DEF write_result, IInv, TypeOK
<1>8. TypeOK'
  BY <1>3, <1>5, <1>7 DEF IInv, TypeOK, WorkerTypes, Submitted
<1>9. AttemptsBounded' /\ ScopeExclusive' /\ ClaimsKnown'
  BY <1>5, <1>6, KeptRows, KeptClaims
<1>10. PublishedFirst'
  BY <1>2, <1>3, <1>4, <1>5 DEF IInv, PublishedFirst
<1>11. StoredResultHasFile' /\ SucceededByLatestClaim'
  BY <1>3 DEF IInv, StoredResultHasFile, SucceededByLatestClaim, Submitted
<1>12. QED
  BY <1>8, <1>9, <1>10, <1>11 DEF IInv

\* The rename only ever puts an envelope in place, whoever wrote it.
LEMMA ReplaceStep ==
  ASSUME IInv, NEW w \in Workers, NEW c \in {"commit", "commit_failure"}, Busy(w),
         os_replace(w, c), UNCHANGED <<jobs, results>>
  PROVE  IInv'
<1> DEFINE j == claim[w].job
<1>1. j \in Jobs /\ c \in PC
  BY DEF IInv, ClaimsKnown, TypeOK, PC
<1>2. /\ tmp[j] # NoResult
      /\ artifact' = [artifact EXCEPT ![j] = tmp[j]]
      /\ tmp' = [tmp EXCEPT ![j] = NoResult]
      /\ pc' = [pc EXCEPT ![w] = c]
      /\ UNCHANGED <<claim, error>>
  BY DEF os_replace
<1>3. /\ WorkerTypes' /\ ClaimsKept
      /\ \A v \in Workers : v # w => pc'[v] = pc[v]
  BY <1>1, <1>2, StepKeeps
<1>4. RowsKept
  BY SameRowsKept
<1>5. /\ artifact'[j] # NoResult
      /\ \A i \in Jobs : artifact[i] # NoResult => artifact'[i] # NoResult
  BY <1>1, <1>2 DEF IInv, TypeOK
<1>6. TypeOK'
  <2>1. /\ artifact' \in [Jobs -> Result \cup {NoResult}]
        /\ tmp' \in [Jobs -> Result \cup {NoResult}]
    BY <1>1, <1>2 DEF IInv, TypeOK
  <2>2. QED
    BY <2>1, <1>3 DEF IInv, TypeOK, WorkerTypes, Submitted
<1>7. AttemptsBounded' /\ ScopeExclusive' /\ ClaimsKnown'
  BY <1>3, <1>4, KeptRows, KeptClaims
<1>8. PublishedFirst'
  <2> SUFFICES ASSUME NEW v \in Workers, pc'[v] \in {"commit", "commit_failure"}
               PROVE  artifact'[claim'[v].job] # NoResult
    BY DEF PublishedFirst
  <2>1. CASE v = w
    BY <2>1, <1>2, <1>5
  <2>2. CASE v # w
    <3>1. pc[v] = pc'[v] /\ claim[v].job \in Jobs
      BY <2>2, <1>3 DEF IInv, ClaimsKnown, TypeOK, Busy
    <3>2. QED
      BY <3>1, <1>2, <1>5 DEF IInv, PublishedFirst
  <2>3. QED
    BY <2>1, <2>2
<1>9. StoredResultHasFile' /\ SucceededByLatestClaim'
  BY <1>5 DEF IInv, StoredResultHasFile, SucceededByLatestClaim, Submitted
<1>10. QED
  BY <1>6, <1>7, <1>8, <1>9 DEF IInv

\* A completion stores the worker's envelope.  The row is the worker's own, of
\* its attempt, or it was completed the same way before; a success stored before
\* is the same envelope, or mark_success would have raised.
LEMMA CompleteStep ==
  ASSUME IInv, NEW w \in Workers, Busy(w), Idle(w), UNCHANGED <<artifact, tmp>>,
         NEW o \in {"succeeded", "failed"}, NEW g \in GateState,
         artifact[claim[w].job] # NoResult,
         o = "succeeded" => ~Conflicts(w, claim[w].job),
         MayComplete(w, claim[w].job, o),
         results' = [results EXCEPT ![claim[w].job] = Envelope(w, o)],
         jobs' = [jobs EXCEPT ![claim[w].job] = Unleased(@, o, g)]
  PROVE  IInv'
<1> DEFINE j == claim[w].job
           r == Unleased(jobs[j], o, g)
<1>1. /\ j \in Submitted /\ j \in Jobs /\ claim[w].attempt \in 1..MaxAttempts
      /\ jobs[j] \in Job
      /\ Owns(w, j) => claim[w].attempt = jobs[j].attempt
  BY DEF IInv, ClaimsKnown, TypeOK
<1>2. /\ r \in Job
      /\ r.status = o /\ r.attempt = jobs[j].attempt
      /\ r.max = jobs[j].max /\ r.scope = jobs[j].scope
  <2>1. o \in JobStatus
    BY DEF JobStatus
  <2>2. QED
    BY <1>1, <2>1, UnleasedRow
<1>3. jobs' = [jobs EXCEPT ![j] = r]
  OBVIOUS
<1> HIDE DEF r
<1>4. RowsKept
  BY <1>1, <1>2, <1>3, RowWriteKeeps
<1>5. /\ jobs'[j] = r
      /\ \A i \in Submitted : i # j => jobs'[i] = jobs[i]
  BY <1>1, <1>2, <1>3, RowWrite DEF IInv
<1>6. /\ WorkerTypes' /\ ClaimsKept
      /\ \A v \in Workers : pc'[v] \in {"commit", "commit_failure"} => pc'[v] = pc[v]
  BY IdleKeeps
<1>7. Envelope(w, o) \in Result
  BY <1>1 DEF Envelope, Result
<1>8. TypeOK'
  BY <1>1, <1>4, <1>6, <1>7 DEF IInv, TypeOK, RowsKept, WorkerTypes
<1>9. AttemptsBounded' /\ ScopeExclusive' /\ ClaimsKnown'
  BY <1>4, <1>6, KeptRows, KeptClaims
<1>10. PublishedFirst'
  BY <1>6 DEF IInv, ClaimsKept, PublishedFirst, Busy
<1>11. StoredResultHasFile'
  BY <1>1 DEF IInv, TypeOK, StoredResultHasFile
<1>12. SucceededByLatestClaim'
  <2> SUFFICES ASSUME NEW i \in Submitted, jobs'[i].status = "succeeded"
               PROVE  results'[i] = [attempt |-> jobs'[i].attempt, outcome |-> "succeeded"]
    BY <1>4 DEF RowsKept, SucceededByLatestClaim
  <2>1. CASE i = j
    <3>1. o = "succeeded"
      BY <2>1, <1>2, <1>5
    <3>2. results'[i] = Envelope(w, "succeeded")
      BY <2>1, <3>1, <1>1 DEF IInv, TypeOK
    <3>3. CASE Owns(w, j)
      BY <2>1, <3>2, <3>3, <1>1, <1>2, <1>5 DEF Envelope
    <3>4. CASE jobs[j].status = "succeeded"
      <4>1. results[j] = [attempt |-> jobs[j].attempt, outcome |-> "succeeded"]
        BY <3>4, <1>1 DEF IInv, SucceededByLatestClaim
      <4>2. results[j] # NoResult
        BY <4>1 DEF NoResult
      <4>3. results[j] = Envelope(w, "succeeded")
        BY <3>1, <4>2 DEF Conflicts
      <4>4. QED
        BY <2>1, <3>2, <4>1, <4>3, <1>2, <1>5
    <3>5. QED
      BY <3>1, <3>3, <3>4 DEF MayComplete
  <2>2. CASE i # j
    BY <2>2, <1>1, <1>5 DEF IInv, TypeOK, SucceededByLatestClaim
  <2>3. QED
    BY <2>1, <2>2
<1>13. QED
  BY <1>8, <1>9, <1>10, <1>11, <1>12 DEF IInv

-----------------------------------------------------------------------------
(* Induction.                                                              *)

\* The invariant holds initially.
LEMMA InitIInv == Init => IInv
<1> SUFFICES ASSUME Init PROVE IInv
  OBVIOUS
<1>1. Submitted = {}
  BY DEF Init, Submitted
<1>2. WorkerTypes
  BY MaxAttemptsAssumption DEF Init, WorkerTypes, PC, NoClaim, NoError, Error, JobKind
<1>3. TypeOK
  BY <1>1, <1>2 DEF Init, TypeOK, WorkerTypes
<1>4. AttemptsBounded /\ ScopeExclusive /\ SucceededByLatestClaim
  BY <1>1 DEF AttemptsBounded, ScopeExclusive, SucceededByLatestClaim
<1>5. ClaimsKnown /\ PublishedFirst /\ StoredResultHasFile
  BY DEF Init, ClaimsKnown, PublishedFirst, StoredResultHasFile, Busy
<1>6. QED
  BY <1>3, <1>4, <1>5 DEF IInv

\* The operator's calls and the passage of time.
LEMMA JobStep ==
  ASSUME IInv, NEW j \in Jobs, Operator(j) \/ Time(j)
  PROVE  IInv'
<1>1. CASE SubmitAny(j)
  BY <1>1, SubmitStep
<1> DEFINE OneRow(r) ==
      /\ j \in Submitted /\ r \in Job /\ jobs' = [jobs EXCEPT ![j] = r]
      /\ r.attempt = jobs[j].attempt /\ r.max = jobs[j].max /\ r.scope = jobs[j].scope
      /\ r.status = "running" => jobs[j].status = "running" /\ r.worker = jobs[j].worker
      /\ r.status = "pending" => jobs[j].attempt < jobs[j].max
      /\ r.status = "succeeded" => jobs[j].status = "succeeded"
      /\ UNCHANGED <<results, artifact, tmp, pc, claim, error>>
<1>2. ASSUME NEW r, OneRow(r) PROVE IInv'
  <2>1. RowsKept
    BY <1>2, RowWriteKeeps
  <2>2. /\ jobs'[j] = r
        /\ \A i \in Submitted : i # j => jobs'[i] = jobs[i]
    BY <1>2, RowWrite DEF IInv
  <2>3. \A i \in Submitted : jobs'[i].status = "succeeded" => jobs[i].status = "succeeded"
    BY <1>2, <2>2
  <2>4. /\ WorkerTypes' /\ ClaimsKept
        /\ \A v \in Workers : pc'[v] = pc[v]
    BY <1>2, SameWorkers
  <2>5. QED
    BY <1>2, <2>1, <2>3, <2>4, QuietStep
<1>3. j \in Submitted => jobs[j] \in Job
  BY DEF IInv, TypeOK
<1>4. j \in Submitted /\ jobs[j].status = "pending" => jobs[j].attempt < jobs[j].max
  BY DEF IInv, AttemptsBounded
<1>5. CASE retry_failed(j)
  <2> DEFINE r == [jobs[j] EXCEPT !.status = "pending", !.gate = "READY", !.due = TRUE]
  <2>1. OneRow(r)
    BY <1>3, <1>5 DEF retry_failed, Retryable, Job, JobStatus, GateState
  <2> HIDE DEF r
  <2>2. QED
    BY <2>1, <1>2
<1>6. CASE cancel(j)
  <2> DEFINE r == Unleased(jobs[j], "cancelled", "BLOCKED")
  <2>1. OneRow(r)
    BY <1>3, <1>6, UnleasedRow DEF cancel, JobStatus, GateState
  <2> HIDE DEF r
  <2>2. QED
    BY <2>1, <1>2
<1>7. CASE LeaseExpires(j)
  <2> DEFINE r == [jobs[j] EXCEPT !.lease = "expired"]
  <2>1. OneRow(r)
    BY <1>3, <1>4, <1>7 DEF LeaseExpires, Job, Lease
  <2> HIDE DEF r
  <2>2. QED
    BY <2>1, <1>2
<1>8. CASE BackoffElapses(j)
  <2> DEFINE r == [jobs[j] EXCEPT !.due = TRUE]
  <2>1. OneRow(r)
    BY <1>3, <1>4, <1>8 DEF BackoffElapses, Job
  <2> HIDE DEF r
  <2>2. QED
    BY <2>1, <1>2
<1>9. QED
  BY <1>1, <1>5, <1>6, <1>7, <1>8 DEF Operator, Time

\* Recovery: the poll that starts run_once.
LEMMA RecoverStep ==
  ASSUME IInv, NEW w \in Workers, recover_expired(w)
  PROVE  IInv'
<1>1. jobs' = [i \in Submitted |-> Recovered(jobs[i])]
  BY DEF recover_expired
<1>2. ASSUME NEW i \in Submitted
      PROVE  /\ jobs'[i] = Recovered(jobs[i])
             /\ Recovered(jobs[i]) \in Job
             /\ Recovered(jobs[i]).attempt = jobs[i].attempt
             /\ Recovered(jobs[i]).max = jobs[i].max
             /\ Recovered(jobs[i]).scope = jobs[i].scope
             /\ Recovered(jobs[i]).status = "running" => Recovered(jobs[i]) = jobs[i]
             /\ Recovered(jobs[i]).status = "succeeded" => Recovered(jobs[i]) = jobs[i]
             /\ Recovered(jobs[i]).status = "pending" => jobs[i].attempt < jobs[i].max
  <2>1. jobs[i] \in Job /\ (jobs[i].status = "pending" => jobs[i].attempt < jobs[i].max)
    BY DEF IInv, TypeOK, AttemptsBounded
  <2>2. QED
    BY <1>1, <2>1, RecoveredRow
<1>3. Submitted' = Submitted
  BY <1>1 DEF Submitted
<1>4. jobs' \in [Submitted -> Job]
  BY <1>1, <1>2
<1>5. RowsKept
  BY <1>2, <1>3, <1>4 DEF RowsKept
<1>6. /\ WorkerTypes' /\ ClaimsKept
      /\ \A v \in Workers : v # w => pc'[v] = pc[v]
      /\ pc'[w] = "polled"
  BY StepKeeps DEF recover_expired, PC
<1>7. UNCHANGED <<results, artifact, tmp>>
  BY DEF recover_expired
<1>8. \A i \in Submitted : jobs'[i].status = "succeeded" => jobs[i].status = "succeeded"
  BY <1>2
<1>9. \A v \in Workers : pc'[v] \in {"commit", "commit_failure"} => pc'[v] = pc[v]
  BY <1>6
<1>10. QED
  BY <1>5, <1>6, <1>7, <1>8, <1>9, QuietStep

\* A step that leaves the database and the artifacts alone.
LEMMA PrivateStep ==
  ASSUME IInv, UNCHANGED <<jobs, results, artifact, tmp>>, WorkerTypes', ClaimsKept,
         \A v \in Workers : pc'[v] \in {"commit", "commit_failure"} => pc'[v] = pc[v]
  PROVE  IInv'
<1>1. RowsKept
  BY SameRowsKept
<1>2. QED
  BY <1>1, QuietStep DEF Submitted

\* Every other step of a worker.
LEMMA WorkerStep ==
  ASSUME IInv, NEW w \in Workers, RunOnce(w) \/ Restart(w)
  PROVE  IInv'
<1>1. CASE recover_expired(w)
  BY <1>1, RecoverStep
<1>2. CASE claim_next(w)
  BY <1>2, ClaimStep
<1>3. CASE NothingToClaim(w)
  BY <1>3, StepKeeps, PrivateStep DEF NothingToClaim, PC
<1>4. CASE heartbeat(w)
  <2> DEFINE j == claim[w].job
  <2>1. /\ Busy(w) /\ j \in Submitted /\ jobs[j] \in Job
    BY <1>4 DEF heartbeat, Busy, IInv, ClaimsKnown, TypeOK
  <2>2. CASE Owns(w, j)
    <3> DEFINE r == [jobs[j] EXCEPT !.lease = "live"]
    <3>1. /\ r \in Job /\ jobs' = [jobs EXCEPT ![j] = r]
          /\ r.attempt = jobs[j].attempt /\ r.max = jobs[j].max
          /\ r.scope = jobs[j].scope /\ r.status = jobs[j].status
          /\ r.worker = jobs[j].worker /\ jobs[j].status = "running"
          /\ UNCHANGED <<results, artifact, tmp, pc, claim, error>>
      BY <2>1, <2>2, <1>4 DEF heartbeat, Owns, Job, Lease
    <3> HIDE DEF r
    <3>2. RowsKept
      BY <2>1, <3>1, RowWriteKeeps
    <3>3. \A i \in Submitted : jobs'[i].status = jobs[i].status
      BY <2>1, <3>1, RowWrite DEF IInv
    <3>4. QED
      BY <3>1, <3>2, <3>3, SameWorkers, QuietStep
  <2>3. CASE ~Owns(w, j)
    <3>1. Fail(w, LeaseLostError) /\ UNCHANGED <<jobs, results, artifact, tmp>>
      BY <2>3, <1>4 DEF heartbeat
    <3>2. LeaseLostError \in Error
      BY DEF LeaseLostError, Error
    <3>3. QED
      BY <2>1, <3>1, <3>2, FailKeeps, PrivateStep
  <2>4. QED
    BY <2>2, <2>3
<1>5. CASE TurnSucceeds(w)
  <2>1. Busy(w) /\ "publish" \in PC
    BY <1>5 DEF TurnSucceeds, Busy, PC
  <2>2. QED
    BY <1>5, <2>1, StepKeeps, PrivateStep DEF TurnSucceeds
<1>6. ASSUME NEW err \in TurnErrors, TurnFails(w, err) PROVE IInv'
  <2>0. err \in Error
    <3>1. \A a, b \in BOOLEAN : [retryable |-> a, uncertain |-> b] \in Error
      BY DEF Error
    <3>2. TRUE \in BOOLEAN /\ FALSE \in BOOLEAN
      OBVIOUS
    <3>3. QED
      BY <3>1, <3>2, Zenon DEF TurnErrors
  <2>1. Busy(w) /\ err \in Error
    BY <1>6, <2>0 DEF TurnFails, Busy
  <2>2. QED
    BY <1>6, <2>1, FailKeeps, PrivateStep DEF TurnFails
<1>7. CASE PublishSuccess(w)
  <2>1. Busy(w) /\ {"replace", "commit"} \subseteq PC /\ NoError \in Error
    BY <1>7 DEF PublishSuccess, Busy, PC, NoError, Error
  <2>2. CASE write_result(w, "succeeded", "replace", "commit")
    <3>1. Busy(w)'
      BY <2>2 DEF write_result, Busy, IInv, TypeOK
    <3>2. QED
      BY <1>7, <2>1, <2>2, <3>1, WriteStep DEF PublishSuccess
  <2>3. CASE Fail(w, NoError) /\ UNCHANGED <<artifact, tmp>>
    BY <1>7, <2>1, <2>3, FailKeeps, PrivateStep DEF PublishSuccess
  <2>4. QED
    BY <1>7, <2>2, <2>3 DEF PublishSuccess
<1>8. CASE ReplaceSuccess(w)
  <2>1. Busy(w) /\ NoError \in Error
    BY <1>8 DEF ReplaceSuccess, Busy, NoError, Error
  <2>2. CASE os_replace(w, "commit")
    BY <1>8, <2>1, <2>2, ReplaceStep DEF ReplaceSuccess
  <2>3. CASE Fail(w, NoError) /\ UNCHANGED <<artifact, tmp>>
    BY <1>8, <2>1, <2>3, FailKeeps, PrivateStep DEF ReplaceSuccess
  <2>4. QED
    BY <1>8, <2>2, <2>3 DEF ReplaceSuccess
<1>9. CASE mark_success(w)
  <2> DEFINE j == claim[w].job
  <2>1. Busy(w) /\ NoError \in Error /\ UNCHANGED <<artifact, tmp>>
        /\ artifact[j] # NoResult
    BY <1>9 DEF mark_success, Busy, NoError, Error, IInv, PublishedFirst
  <2>2. CASE ~MayComplete(w, j, "succeeded")
    <3>1. Idle(w) /\ UNCHANGED <<jobs, results, artifact, tmp>>
      BY <1>9, <2>2 DEF mark_success
    <3>2. QED
      BY <3>1, IdleKeeps, PrivateStep
  <2>3. CASE MayComplete(w, j, "succeeded") /\ Conflicts(w, j)
    <3>1. Fail(w, NoError) /\ UNCHANGED <<jobs, results, artifact, tmp>>
      BY <1>9, <2>3 DEF mark_success
    <3>2. QED
      BY <2>1, <3>1, FailKeeps, PrivateStep
  <2>4. CASE MayComplete(w, j, "succeeded") /\ ~Conflicts(w, j)
    <3>1. /\ results' = [results EXCEPT ![j] = Envelope(w, "succeeded")]
          /\ jobs' = [jobs EXCEPT ![j] = Unleased(@, "succeeded", "VERIFIED")]
          /\ Idle(w)
      BY <1>9, <2>4 DEF mark_success
    <3>2. "VERIFIED" \in GateState
      BY DEF GateState
    <3>3. QED
      BY <2>1, <2>4, <3>1, <3>2, CompleteStep
  <2>5. QED
    BY <2>2, <2>3, <2>4
<1>10. CASE schedule_retry(w)
  <2> DEFINE j == claim[w].job
  <2>1. /\ Busy(w) /\ j \in Submitted /\ jobs[j] \in Job
        /\ UNCHANGED <<results, artifact, tmp>>
    BY <1>10 DEF schedule_retry, Busy, IInv, ClaimsKnown, TypeOK
  <2>2. CASE MayReschedule(w, j)
    <3> DEFINE d == [jobs[j] EXCEPT !.due = FALSE]
               r == Unleased(d, "pending", "READY")
    <3>1. /\ d \in Job
          /\ d.attempt = jobs[j].attempt /\ d.max = jobs[j].max /\ d.scope = jobs[j].scope
      BY <2>1 DEF Job
    <3>2. jobs' = [jobs EXCEPT ![j] = r] /\ Idle(w)
      BY <1>10, <2>2 DEF schedule_retry
    <3>3. jobs[j].attempt < jobs[j].max
      BY <2>2 DEF MayReschedule, Retryable
    <3> HIDE DEF d
    <3>4. /\ r \in Job /\ r.status = "pending" /\ r.attempt = jobs[j].attempt
          /\ r.max = jobs[j].max /\ r.scope = jobs[j].scope
      BY <3>1, UnleasedRow DEF JobStatus, GateState
    <3> HIDE DEF r
    <3>5. RowsKept
      BY <2>1, <3>2, <3>3, <3>4, RowWriteKeeps
    <3>6. \A i \in Submitted : jobs'[i].status = "succeeded" => jobs[i].status = "succeeded"
      BY <2>1, <3>2, <3>4, RowWrite DEF IInv
    <3>7. QED
      BY <2>1, <3>2, <3>5, <3>6, IdleKeeps, QuietStep
  <2>3. CASE ~MayReschedule(w, j)
    <3>1. /\ pc' = [pc EXCEPT ![w] = "publish_failure"]
          /\ UNCHANGED <<jobs, claim, error>> /\ "publish_failure" \in PC
      BY <1>10, <2>3 DEF schedule_retry, PC
    <3>2. QED
      BY <2>1, <3>1, StepKeeps, PrivateStep
  <2>4. QED
    BY <2>2, <2>3
<1>11. ASSUME Busy(w), Escape(w), UNCHANGED <<jobs, results>> PROVE IInv'
  <2>1. "escaped" \in PC
    BY DEF PC
  <2>2. QED
    BY <1>11, <2>1, StepKeeps, PrivateStep DEF Escape
<1>12. CASE PublishFailure(w)
  <2>1. Busy(w) /\ {"replace_failure", "commit_failure"} \subseteq PC
    BY <1>12 DEF PublishFailure, Busy, PC
  <2>2. CASE write_result(w, "failed", "replace_failure", "commit_failure")
    <3>1. Busy(w)'
      BY <2>2 DEF write_result, Busy, IInv, TypeOK
    <3>2. QED
      BY <1>12, <2>1, <2>2, <3>1, WriteStep DEF PublishFailure
  <2>3. CASE Escape(w)
    BY <1>12, <1>11, <2>1, <2>3 DEF PublishFailure
  <2>4. QED
    BY <1>12, <2>2, <2>3 DEF PublishFailure
<1>13. CASE ReplaceFailure(w)
  <2>1. Busy(w)
    BY <1>13 DEF ReplaceFailure, Busy
  <2>2. CASE os_replace(w, "commit_failure")
    BY <1>13, <2>1, <2>2, ReplaceStep DEF ReplaceFailure
  <2>3. CASE Escape(w)
    BY <1>13, <1>11, <2>1, <2>3 DEF ReplaceFailure
  <2>4. QED
    BY <1>13, <2>2, <2>3 DEF ReplaceFailure
<1>14. CASE mark_failure(w)
  <2> DEFINE j == claim[w].job
  <2>1. Busy(w) /\ UNCHANGED <<artifact, tmp>> /\ Idle(w)
        /\ artifact[j] # NoResult /\ "BLOCKED" \in GateState
    BY <1>14 DEF mark_failure, Busy, IInv, PublishedFirst, GateState
  <2>2. CASE MayComplete(w, j, "failed")
    <3>1. /\ results' = [results EXCEPT ![j] = Envelope(w, "failed")]
          /\ jobs' = [jobs EXCEPT ![j] = Unleased(@, "failed", "BLOCKED")]
      BY <1>14, <2>2 DEF mark_failure
    <3>2. QED
      BY <2>1, <2>2, <3>1, CompleteStep
  <2>3. CASE ~MayComplete(w, j, "failed")
    <3>1. UNCHANGED <<jobs, results, artifact, tmp>>
      BY <1>14, <2>3 DEF mark_failure
    <3>2. QED
      BY <2>1, <3>1, IdleKeeps, PrivateStep
  <2>4. QED
    BY <2>2, <2>3
<1>15. CASE Restart(w)
  BY <1>15, IdleKeeps, PrivateStep DEF Restart
<1>16. QED
  BY <1>1, <1>2, <1>3, <1>4, <1>5, <1>6, <1>7, <1>8,
     <1>9, <1>10, <1>12, <1>13, <1>14, <1>15
  DEF RunOnce

\* Every step keeps the invariant.
LEMMA NextIInv == IInv /\ [Next]_vars => IInv'
<1> SUFFICES ASSUME IInv, [Next]_vars PROVE IInv'
  OBVIOUS
<1>1. CASE Next
  BY <1>1, JobStep, WorkerStep DEF Next
<1>2. CASE UNCHANGED vars
  BY <1>2, SameWorkers, PrivateStep DEF vars
<1>3. QED
  BY <1>1, <1>2

\* The inductive invariant holds in every behaviour of the queue.
THEOREM Invariant == Spec => []IInv
  BY InitIInv, NextIInv, PTL DEF Spec

\* The tables, the artifacts and the workers' state keep their types.
THEOREM TypeCorrect == Spec => []TypeOK
<1>1. IInv => TypeOK
  BY DEF IInv
<1>2. QED
  BY <1>1, Invariant, PTL

\* claim_next's NOT EXISTS serialises each scope key.
THEOREM ScopesSerialised == Spec => []ScopeExclusive
<1>1. IInv => ScopeExclusive
  BY DEF IInv
<1>2. QED
  BY <1>1, Invariant, PTL

\* No path back to pending strands a job without attempts.
THEOREM RetriesBounded == Spec => []PendingHasAttempts
<1>1. IInv => PendingHasAttempts
  BY DEF IInv, AttemptsBounded, PendingHasAttempts
<1>2. QED
  BY <1>1, Invariant, PTL

\* A stored result always has its published file.
THEOREM ResultsPublished == Spec => []StoredResultHasFile
<1>1. IInv => StoredResultHasFile
  BY DEF IInv
<1>2. QED
  BY <1>1, Invariant, PTL

\* A succeeded job holds the success envelope of its latest claim.
THEOREM LatestClaimWins == Spec => []SucceededByLatestClaim
<1>1. IInv => SucceededByLatestClaim
  BY DEF IInv
<1>2. QED
  BY <1>1, Invariant, PTL

-----------------------------------------------------------------------------
(* What may run.                                                           *)

\* A kind with an external effect, or a gated job without its authorization.
Barred(r) == r.kind \in UnsafeKinds \/ (r.kind \in GatedKinds /\ ~r.auth)

\* A barred row never started: it waits, or was cancelled, and one without its
\* authorization is not READY.
Held(r) ==
  Barred(r) =>
    /\ r.attempt = 0 /\ r.status \in {"pending", "cancelled"}
    /\ r.kind \in UnsafeKinds \/ r.gate # "READY"

AllHeld == \A j \in Submitted : Held(jobs[j])

\* A write that keeps kind and authorization, and of a waiting or cancelled
\* row changes only what a barred row may change.
Keeps(r, q) ==
  /\ q.kind = r.kind /\ q.auth = r.auth
  /\ r.status \in {"pending", "cancelled"} =>
       /\ q.attempt = r.attempt /\ q.status \in {"pending", "cancelled"}
       /\ q.gate \in {r.gate, "BLOCKED"}

\* Such a write keeps a barred row where it is.
LEMMA KeepsHeld ==
  ASSUME NEW r, NEW q, Held(r), Keeps(r, q) PROVE Held(q)
  BY DEF Held, Keeps, Barred

\* A write of one row.
LEMMA HeldWrite ==
  ASSUME IInv, AllHeld, NEW j \in Submitted, NEW q \in Job, Keeps(jobs[j], q),
         jobs' = [jobs EXCEPT ![j] = q]
  PROVE  AllHeld'
<1>1. /\ Submitted' = Submitted /\ jobs'[j] = q
      /\ \A i \in Submitted : i # j => jobs'[i] = jobs[i]
  BY RowWrite DEF IInv
<1>2. Held(q)
  BY KeepsHeld DEF AllHeld
<1> QED
  BY <1>1, <1>2 DEF AllHeld

\* The same for a row that is released.
LEMMA HeldRelease ==
  ASSUME IInv, AllHeld, NEW j \in Submitted, NEW s \in JobStatus, NEW g \in GateState,
         jobs' = [jobs EXCEPT ![j] = Unleased(jobs[j], s, g)],
         jobs[j].status \in {"pending", "cancelled"} => s = "cancelled" /\ g = "BLOCKED"
  PROVE  AllHeld'
<1>1. jobs[j] \in Job
  BY DEF IInv, TypeOK
<1> DEFINE q == Unleased(jobs[j], s, g)
<1>2. q \in Job /\ q.kind = jobs[j].kind /\ q.auth = jobs[j].auth /\ q.status = s
      /\ q.gate = g /\ q.attempt = jobs[j].attempt
  BY <1>1 DEF Unleased, Job, Lease
<1> HIDE DEF q
<1>3. Keeps(jobs[j], q)
  BY <1>2 DEF Keeps
<1> QED
  BY <1>2, <1>3, HeldWrite DEF q

\* The operator and the passage of time.
LEMMA HeldJobStep ==
  ASSUME IInv, AllHeld, NEW j \in Jobs, Operator(j) \/ Time(j)
  PROVE  AllHeld'
<1>1. j \in Submitted => jobs[j] \in Job
  BY DEF IInv, TypeOK
<1>2. CASE SubmitAny(j)
  <2>1. PICK kind \in SubmitKinds, scope \in Scopes, max \in 1..MaxAttempts,
             auth \in BOOLEAN, verification \in BOOLEAN :
               Submit(j, kind, scope, max, auth, verification)
    BY <1>2 DEF SubmitAny
  <2> DEFINE r == [status |-> "pending", attempt |-> 0, max |-> max,
                   gate |-> InitialGate(kind, auth, verification),
                   lease |-> "none", worker |-> NoWorker, due |-> TRUE,
                   kind |-> kind, scope |-> scope, auth |-> auth]
  <2>2. Held(r)
    BY DEF Held, Barred, InitialGate
  <2>3. /\ j \notin Submitted
        /\ jobs' = [i \in Submitted \cup {j} |-> IF i # j THEN jobs[i] ELSE r]
    BY <2>1 DEF Submit
  <2> HIDE DEF r
  <2>4. /\ Submitted' = Submitted \cup {j} /\ jobs'[j] = r
        /\ \A i \in Submitted : jobs'[i] = jobs[i]
    BY <2>3 DEF Submitted
  <2> QED
    BY <2>2, <2>4 DEF AllHeld
<1>3. CASE retry_failed(j)
  <2> DEFINE q == [jobs[j] EXCEPT !.status = "pending", !.gate = "READY", !.due = TRUE]
  <2>1. /\ j \in Submitted /\ jobs[j].status = "failed" /\ jobs' = [jobs EXCEPT ![j] = q]
    BY <1>3 DEF retry_failed
  <2>2. q \in Job /\ q.kind = jobs[j].kind /\ q.auth = jobs[j].auth
    BY <1>1, <2>1 DEF Job, JobStatus, GateState
  <2> HIDE DEF q
  <2>3. Keeps(jobs[j], q)
    BY <2>1, <2>2 DEF Keeps
  <2> QED
    BY <2>1, <2>2, <2>3, HeldWrite
<1>4. CASE cancel(j)
  BY <1>4, HeldRelease DEF cancel, JobStatus, GateState
<1>5. CASE LeaseExpires(j)
  <2> DEFINE q == [jobs[j] EXCEPT !.lease = "expired"]
  <2>1. /\ q \in Job /\ q.kind = jobs[j].kind /\ q.auth = jobs[j].auth
        /\ q.status = jobs[j].status /\ q.gate = jobs[j].gate /\ q.attempt = jobs[j].attempt
        /\ j \in Submitted /\ jobs' = [jobs EXCEPT ![j] = q]
    BY <1>1, <1>5 DEF LeaseExpires, Job, Lease
  <2> HIDE DEF q
  <2>2. Keeps(jobs[j], q)
    BY <2>1 DEF Keeps
  <2> QED
    BY <2>1, <2>2, HeldWrite
<1>6. CASE BackoffElapses(j)
  <2> DEFINE q == [jobs[j] EXCEPT !.due = TRUE]
  <2>1. /\ q \in Job /\ q.kind = jobs[j].kind /\ q.auth = jobs[j].auth
        /\ q.status = jobs[j].status /\ q.gate = jobs[j].gate /\ q.attempt = jobs[j].attempt
        /\ j \in Submitted /\ jobs' = [jobs EXCEPT ![j] = q]
    BY <1>1, <1>6 DEF BackoffElapses, Job
  <2> HIDE DEF q
  <2>2. Keeps(jobs[j], q)
    BY <2>1 DEF Keeps
  <2> QED
    BY <2>1, <2>2, HeldWrite
<1> QED
  BY <1>2, <1>3, <1>4, <1>5, <1>6 DEF Operator, Time

\* claim_next takes no barred row: a kind with an external effect is not
\* eligible, and a gated one that is READY has its authorization.
LEMMA HeldClaim ==
  ASSUME IInv, AllHeld, NEW w \in Workers, claim_next(w) PROVE AllHeld'
<1>1. PICK j \in Submitted :
        /\ Claimable(w, j)
        /\ jobs' = [jobs EXCEPT ![j] =
                      [@ EXCEPT !.status = "running", !.attempt = jobs[j].attempt + 1,
                                !.lease = "live", !.worker = w]]
  BY DEF claim_next
<1> DEFINE r == [jobs[j] EXCEPT !.status = "running", !.attempt = jobs[j].attempt + 1,
                                !.lease = "live", !.worker = w]
<1>2. /\ jobs[j] \in Job /\ jobs[j].attempt < jobs[j].max /\ jobs[j].gate = "READY"
      /\ jobs[j].kind \in AGY_JOB_KINDS \cup {"MAINNET_PREFLIGHT"}
  BY <1>1 DEF IInv, TypeOK, Claimable, EligibleKinds
<1>3. ~Barred(jobs[j])
  BY <1>2 DEF AllHeld, Held, Barred, AGY_JOB_KINDS, UnsafeKinds
<1>4. jobs[j].attempt + 1 \in 0..MaxAttempts
  BY <1>2, MaxAttemptsAssumption DEF Job
<1>5. r \in Job /\ r.kind = jobs[j].kind /\ r.auth = jobs[j].auth
  BY <1>2, <1>4 DEF Job, JobStatus, Lease
<1> HIDE DEF r
<1>6. Held(r)
  BY <1>3, <1>5 DEF Held, Barred
<1>7. /\ Submitted' = Submitted /\ jobs'[j] = r
      /\ \A i \in Submitted : i # j => jobs'[i] = jobs[i]
  BY <1>1, <1>5, RowWrite DEF IInv, r
<1> QED
  BY <1>6, <1>7 DEF AllHeld

\* The worker.
LEMMA HeldWorkerStep ==
  ASSUME IInv, AllHeld, NEW w \in Workers, RunOnce(w) \/ Restart(w) PROVE AllHeld'
<1> DEFINE j == claim[w].job
<1>1. CASE UNCHANGED jobs
  BY <1>1 DEF AllHeld, Submitted
<1>2. Busy(w) => j \in Submitted /\ jobs[j] \in Job
  BY DEF IInv, ClaimsKnown, TypeOK
<1>3. CASE recover_expired(w)
  <2>1. Submitted' = Submitted /\ \A i \in Submitted : jobs'[i] = Recovered(jobs[i])
    BY <1>3 DEF recover_expired, Submitted
  <2>2. ASSUME NEW i \in Submitted PROVE Held(Recovered(jobs[i]))
    <3>1. jobs[i] \in Job /\ Held(jobs[i])
      BY DEF IInv, TypeOK, AllHeld
    <3>2. jobs[i].status = "running" =>
            Recovered(jobs[i]).kind = jobs[i].kind /\ Recovered(jobs[i]).auth = jobs[i].auth
      BY <3>1 DEF Recovered, Unleased, Job
    <3>3. jobs[i].status # "running" => Recovered(jobs[i]) = jobs[i]
      BY DEF Recovered
    <3> QED
      BY <3>1, <3>2, <3>3 DEF Held, Barred
  <2> QED
    BY <2>1, <2>2 DEF AllHeld
<1>4. CASE heartbeat(w)
  <2>1. CASE ~Owns(w, j)
    BY <1>1, <1>4, <2>1 DEF heartbeat
  <2>2. CASE Owns(w, j)
    <3> DEFINE q == [jobs[j] EXCEPT !.lease = "live"]
    <3>1. /\ j \in Submitted /\ jobs[j] \in Job /\ jobs' = [jobs EXCEPT ![j] = q]
          /\ jobs[j].status = "running"
      BY <1>2, <1>4, <2>2 DEF heartbeat, Busy, Owns
    <3>2. q \in Job /\ q.kind = jobs[j].kind /\ q.auth = jobs[j].auth
      BY <3>1 DEF Job, Lease
    <3> HIDE DEF j, q
    <3>3. Keeps(jobs[j], q)
      BY <3>1, <3>2 DEF Keeps
    <3> QED
      BY <3>1, <3>2, <3>3, HeldWrite
  <2> QED
    BY <2>1, <2>2
<1>5. CASE mark_success(w)
  <2>1. CASE /\ MayComplete(w, j, "succeeded")
             /\ jobs' = [jobs EXCEPT ![j] = Unleased(jobs[j], "succeeded", "VERIFIED")]
    <3>1. j \in Submitted /\ jobs[j].status \in {"succeeded", "running"}
      BY <1>2, <1>5, <2>1 DEF mark_success, Busy, MayComplete, Owns
    <3> HIDE DEF j
    <3> QED
      BY <2>1, <3>1, HeldRelease DEF JobStatus, GateState
  <2> QED
    BY <1>1, <1>5, <2>1 DEF mark_success
<1>6. CASE mark_failure(w)
  <2>1. CASE /\ MayComplete(w, j, "failed")
             /\ jobs' = [jobs EXCEPT ![j] = Unleased(jobs[j], "failed", "BLOCKED")]
    <3>1. j \in Submitted /\ jobs[j].status \in {"failed", "running"}
      BY <1>2, <1>6, <2>1 DEF mark_failure, Busy, MayComplete, Owns
    <3> HIDE DEF j
    <3> QED
      BY <2>1, <3>1, HeldRelease DEF JobStatus, GateState
  <2> QED
    BY <1>1, <1>6, <2>1 DEF mark_failure
<1>7. CASE schedule_retry(w)
  <2> DEFINE q == Unleased([jobs[j] EXCEPT !.due = FALSE], "pending", "READY")
  <2>1. CASE MayReschedule(w, j) /\ jobs' = [jobs EXCEPT ![j] = q]
    <3>1. j \in Submitted /\ jobs[j] \in Job /\ jobs[j].status = "running"
      BY <1>2, <1>7, <2>1 DEF schedule_retry, Busy, MayReschedule
    <3> HIDE DEF j
    <3>2. q \in Job /\ q.kind = jobs[j].kind /\ q.auth = jobs[j].auth
      BY <3>1 DEF Unleased, Job, JobStatus, GateState, Lease
    <3> HIDE DEF q
    <3>3. Keeps(jobs[j], q)
      BY <3>1, <3>2 DEF Keeps
    <3> QED
      BY <2>1, <3>1, <3>2, <3>3, HeldWrite
  <2> QED
    BY <1>1, <1>7, <2>1 DEF schedule_retry
<1> QED
  BY <1>1, <1>3, <1>4, <1>5, <1>6, <1>7, HeldClaim
  DEF RunOnce, Restart, NothingToClaim, TurnSucceeds, TurnFails, PublishSuccess,
      ReplaceSuccess, PublishFailure, ReplaceFailure

\* No barred row ever starts.
LEMMA AlwaysHeld == Spec => []AllHeld
<1>1. Init => AllHeld
  BY DEF Init, AllHeld, Submitted
<1>2. IInv /\ AllHeld /\ [Next]_vars => AllHeld'
  <2> SUFFICES ASSUME IInv, AllHeld, [Next]_vars PROVE AllHeld'
    OBVIOUS
  <2>1. CASE UNCHANGED vars
    BY <2>1 DEF vars, AllHeld, Submitted
  <2> QED
    BY <2>1, HeldJobStep, HeldWorkerStep DEF Next
<1> QED
  BY <1>1, <1>2, Invariant, PTL DEF Spec

\* No gated job runs, or has run, without its authorization, although retry
\* and recovery set gate_state to READY without looking at it: a job that
\* reaches them has passed the gate once.
THEOREM GatedNeedAuthorization == Spec => []RunsOnlyAuthorized
<1>1. IInv /\ AllHeld => RunsOnlyAuthorized
  BY DEF IInv, TypeOK, Job, AllHeld, Held, Barred, RunsOnlyAuthorized
<1> QED
  BY <1>1, Invariant, AlwaysHeld, PTL

\* Cloud writes, orders and the kill switch never start, whatever is retried,
\* recovered or authorised.
THEOREM UnsafeNeverStart == Spec => []ExternalEffectsNeverRun
<1>1. AllHeld => ExternalEffectsNeverRun
  BY DEF AllHeld, Held, Barred, ExternalEffectsNeverRun
<1> QED
  BY <1>1, AlwaysHeld, PTL

-----------------------------------------------------------------------------
(* What a step may do to a row.                                            *)

\* Only a running row has a lease and an owner, and a succeeded one is VERIFIED.
Tidy(r) ==
  /\ r.status # "running" => r.lease = "none" /\ r.worker = NoWorker
  /\ r.status = "succeeded" => r.gate = "VERIFIED"

AllTidy == \A j \in Submitted : Tidy(jobs[j])

Settled(r) == r.status \in {"succeeded", "cancelled"}

\* The completions CompletionIsFenced allows.
FencedEnd(j, q) ==
  \/ jobs[j].lease = "expired" /\ q.status = "failed"
  \/ \E w \in Workers :
       /\ w = jobs[j].worker
       /\ claim[w].job = j /\ claim[w].attempt = jobs[j].attempt
       /\ pc[w] \in {"commit", "commit_failure"}

\* Row j may become q.
MayBecome(j, q) ==
  /\ Tidy(q)
  /\ Settled(jobs[j]) => q = jobs[j]
  /\ jobs[j].status = "running" /\ q.status \in {"succeeded", "failed"} => FencedEnd(j, q)

Moved ==
  /\ AllTidy'
  /\ \A j \in Submitted : /\ MayBecome(j, jobs'[j])
                          /\ Settled(jobs[j]) => results'[j] = results[j]

\* A step that writes neither table.
LEMMA SameMoved ==
  ASSUME AllTidy, UNCHANGED <<jobs, results>> PROVE Moved
  BY DEF Moved, AllTidy, MayBecome, Submitted

\* A write of one row.
LEMMA WriteMoved ==
  ASSUME IInv, AllTidy, NEW j \in Submitted, NEW q \in Job, MayBecome(j, q),
         jobs' = [jobs EXCEPT ![j] = q],
         \A i \in Submitted : Settled(jobs[i]) => results'[i] = results[i]
  PROVE  Moved
<1>1. /\ Submitted' = Submitted /\ jobs'[j] = q
      /\ \A i \in Submitted : i # j => jobs'[i] = jobs[i]
  BY RowWrite DEF IInv
<1>2. ASSUME NEW i \in Submitted PROVE MayBecome(i, jobs[i])
  BY DEF MayBecome, AllTidy
<1>3. \A i \in Submitted : MayBecome(i, jobs'[i])
  BY <1>1, <1>2
<1>4. AllTidy'
  BY <1>1, <1>3 DEF AllTidy, MayBecome
<1> QED
  BY <1>3, <1>4 DEF Moved

\* A row that is released as succeeded, failed, cancelled or pending.
LEMMA ReleaseTidy ==
  ASSUME NEW r \in Job, NEW s \in JobStatus \ {"running"}, NEW g \in GateState,
         s = "succeeded" => g = "VERIFIED"
  PROVE  /\ Unleased(r, s, g) \in Job /\ Tidy(Unleased(r, s, g))
         /\ Unleased(r, s, g).status = s
  BY UnleasedRow DEF Unleased, Job, Tidy

\* The operator and the passage of time.
LEMMA JobMoves ==
  ASSUME IInv, AllTidy, NEW j \in Jobs, Operator(j) \/ Time(j) PROVE Moved
<1>1. j \in Submitted => jobs[j] \in Job /\ Tidy(jobs[j])
  BY DEF IInv, TypeOK, AllTidy
<1>2. results' = results
  BY DEF Operator, Time, SubmitAny, Submit, retry_failed, cancel, LeaseExpires, BackoffElapses
<1>3. CASE SubmitAny(j)
  <2>1. PICK kind \in SubmitKinds, scope \in Scopes, max \in 1..MaxAttempts,
             auth \in BOOLEAN, verification \in BOOLEAN :
               Submit(j, kind, scope, max, auth, verification)
    BY <1>3 DEF SubmitAny
  <2>2. j \notin Submitted /\ Submitted' = Submitted \cup {j} /\ Tidy(jobs'[j])
        /\ \A i \in Submitted : jobs'[i] = jobs[i]
    BY <2>1 DEF Submit, Submitted, Tidy
  <2>3. \A i \in Submitted : MayBecome(i, jobs'[i])
    BY <2>2 DEF MayBecome, AllTidy
  <2> QED
    BY <1>2, <2>2, <2>3 DEF Moved, AllTidy
<1>4. CASE retry_failed(j)
  <2> DEFINE q == [jobs[j] EXCEPT !.status = "pending", !.gate = "READY", !.due = TRUE]
  <2>1. j \in Submitted /\ jobs[j].status = "failed" /\ jobs' = [jobs EXCEPT ![j] = q]
    BY <1>4 DEF retry_failed
  <2>2. q \in Job /\ q.status = "pending" /\ q.lease = jobs[j].lease /\ q.worker = jobs[j].worker
    BY <1>1, <2>1 DEF Job, JobStatus, GateState
  <2> HIDE DEF q
  <2>3. MayBecome(j, q)
    BY <1>1, <2>1, <2>2 DEF MayBecome, Tidy, Settled
  <2> QED
    BY <1>2, <2>1, <2>2, <2>3, WriteMoved
<1>5. CASE cancel(j)
  <2> DEFINE q == Unleased(jobs[j], "cancelled", "BLOCKED")
  <2>1. j \in Submitted /\ jobs[j].status \in {"pending", "running"} /\ jobs' = [jobs EXCEPT ![j] = q]
    BY <1>5 DEF cancel
  <2>2. q \in Job /\ Tidy(q) /\ q.status = "cancelled"
    BY <1>1, <2>1, ReleaseTidy DEF JobStatus, GateState
  <2> HIDE DEF q
  <2>3. MayBecome(j, q)
    BY <2>1, <2>2 DEF MayBecome, Settled
  <2> QED
    BY <1>2, <2>1, <2>2, <2>3, WriteMoved
<1>6. CASE LeaseExpires(j)
  <2> DEFINE q == [jobs[j] EXCEPT !.lease = "expired"]
  <2>1. j \in Submitted /\ jobs[j].lease = "live" /\ jobs' = [jobs EXCEPT ![j] = q]
    BY <1>6 DEF LeaseExpires
  <2>2. q \in Job /\ q.status = jobs[j].status
    BY <1>1, <2>1 DEF Job, Lease
  <2> HIDE DEF q
  <2>3. MayBecome(j, q)
    BY <1>1, <2>1, <2>2 DEF MayBecome, Tidy, Settled
  <2> QED
    BY <1>2, <2>1, <2>2, <2>3, WriteMoved
<1>7. CASE BackoffElapses(j)
  <2> DEFINE q == [jobs[j] EXCEPT !.due = TRUE]
  <2>1. j \in Submitted /\ jobs[j].status = "pending" /\ jobs' = [jobs EXCEPT ![j] = q]
    BY <1>7 DEF BackoffElapses
  <2>2. /\ q \in Job /\ q.status = jobs[j].status /\ q.lease = jobs[j].lease
        /\ q.worker = jobs[j].worker
    BY <1>1, <2>1 DEF Job
  <2> HIDE DEF q
  <2>3. MayBecome(j, q)
    BY <1>1, <2>1, <2>2 DEF MayBecome, Tidy, Settled
  <2> QED
    BY <1>2, <2>1, <2>2, <2>3, WriteMoved
<1> QED
  BY <1>3, <1>4, <1>5, <1>6, <1>7 DEF Operator, Time

\* A completion: the row is the worker's own, or already ended the same way.
LEMMA CompletionMoves ==
  ASSUME IInv, AllTidy, NEW w \in Workers, mark_success(w) \/ mark_failure(w) PROVE Moved
<1> DEFINE j == claim[w].job
<1>1. /\ j \in Submitted /\ jobs[j] \in Job /\ Tidy(jobs[j])
      /\ claim[w].attempt \in 1..MaxAttempts
      /\ Owns(w, j) => claim[w].attempt = jobs[j].attempt
      /\ results \in [Jobs -> Result \cup {NoResult}] /\ j \in Jobs
  BY DEF mark_success, mark_failure, IInv, ClaimsKnown, Busy, TypeOK, AllTidy
<1>2. CASE UNCHANGED <<jobs, results>>
  BY <1>2, SameMoved
<1>3. CASE /\ mark_success(w) /\ MayComplete(w, j, "succeeded") /\ ~Conflicts(w, j)
  <2> DEFINE q == Unleased(jobs[j], "succeeded", "VERIFIED")
             r == Envelope(w, "succeeded")
  <2>1. jobs' = [jobs EXCEPT ![j] = q] /\ results' = [results EXCEPT ![j] = r]
        /\ pc[w] = "commit" /\ results[j] \in {NoResult, r}
    BY <1>3 DEF mark_success, Conflicts
  <2>2. q \in Job /\ Tidy(q) /\ q.status = "succeeded"
    BY <1>1, ReleaseTidy DEF JobStatus, GateState
  <2>3. CASE jobs[j].status = "succeeded"
    <3>1. jobs[j].gate = "VERIFIED" /\ jobs[j].lease = "none" /\ jobs[j].worker = NoWorker
      BY <1>1, <2>3 DEF Tidy
    <3>2. q = jobs[j]
      BY <1>1, <2>3, <3>1 DEF Unleased, Job
    <3>3. results[j] = [attempt |-> jobs[j].attempt, outcome |-> "succeeded"]
      BY <1>1, <2>3 DEF IInv, SucceededByLatestClaim
    <3>4. results[j] = r
      BY <2>1, <3>3 DEF NoResult
    <3> HIDE DEF j, q, r
    <3>5. jobs' = jobs /\ results' = results
      BY <1>1, <2>1, <3>2, <3>4 DEF IInv, TypeOK
    <3> QED
      BY <3>5, SameMoved
  <2>4. CASE Owns(w, j)
    <3>1. FencedEnd(j, q)
      BY <1>1, <2>1, <2>4 DEF FencedEnd, Owns
    <3> HIDE DEF j, q, r
    <3>2. jobs[j].status = "running"
      BY <2>4 DEF Owns
    <3>3. MayBecome(j, q)
      BY <2>2, <3>1, <3>2 DEF MayBecome, Settled
    <3>4. \A i \in Submitted : Settled(jobs[i]) => results'[i] = results[i]
      BY <1>1, <2>1, <3>2 DEF Settled, IInv, TypeOK
    <3> QED
      BY <1>1, <2>1, <2>2, <3>3, <3>4, WriteMoved
  <2> QED
    BY <1>3, <2>3, <2>4 DEF MayComplete
<1>4. CASE mark_failure(w) /\ MayComplete(w, j, "failed")
  <2> DEFINE q == Unleased(jobs[j], "failed", "BLOCKED")
             r == Envelope(w, "failed")
  <2>1. jobs' = [jobs EXCEPT ![j] = q] /\ results' = [results EXCEPT ![j] = r]
        /\ pc[w] = "commit_failure"
    BY <1>4 DEF mark_failure
  <2>2. q \in Job /\ Tidy(q) /\ q.status = "failed"
    BY <1>1, ReleaseTidy DEF JobStatus, GateState
  <2>3. jobs[j].status \in {"failed", "running"} /\ (jobs[j].status = "running" => Owns(w, j))
    BY <1>4 DEF MayComplete, Owns
  <2>4. jobs[j].status = "running" => FencedEnd(j, q)
    BY <1>1, <2>1, <2>3 DEF FencedEnd, Owns
  <2> HIDE DEF j, q, r
  <2>5. MayBecome(j, q)
    BY <2>2, <2>3, <2>4 DEF MayBecome, Settled
  <2>6. \A i \in Submitted : Settled(jobs[i]) => results'[i] = results[i]
    BY <1>1, <2>1, <2>3 DEF Settled, IInv, TypeOK
  <2> QED
    BY <1>1, <2>1, <2>2, <2>5, <2>6, WriteMoved
<1> QED
  BY <1>2, <1>3, <1>4 DEF mark_success, mark_failure

\* The worker.
LEMMA WorkerMoves ==
  ASSUME IInv, AllTidy, NEW w \in Workers, RunOnce(w) \/ Restart(w) PROVE Moved
<1> DEFINE j == claim[w].job
<1>1. CASE UNCHANGED <<jobs, results>>
  BY <1>1, SameMoved
<1>2. Busy(w) => j \in Submitted /\ jobs[j] \in Job /\ Tidy(jobs[j])
  BY DEF IInv, ClaimsKnown, TypeOK, AllTidy
<1>3. CASE recover_expired(w)
  <2>1. /\ Submitted' = Submitted /\ results' = results
        /\ \A i \in Submitted : jobs'[i] = Recovered(jobs[i])
    BY <1>3 DEF recover_expired, Submitted
  <2>2. ASSUME NEW i \in Submitted PROVE MayBecome(i, Recovered(jobs[i]))
    <3>1. jobs[i] \in Job /\ Tidy(jobs[i])
      BY DEF IInv, TypeOK, AllTidy
    <3>2. CASE jobs[i].status # "running" \/ jobs[i].lease # "expired"
      BY <3>1, <3>2 DEF Recovered, MayBecome
    <3>3. CASE jobs[i].status = "running" /\ jobs[i].lease = "expired"
      <4> DEFINE d == [jobs[i] EXCEPT !.due = TRUE]
      <4>1. d \in Job
        BY <3>1 DEF Job
      <4>2. Recovered(jobs[i]) \in {Unleased(jobs[i], "failed", "BLOCKED"),
                                    Unleased(d, "pending", "READY")}
        BY <3>3 DEF Recovered
      <4> HIDE DEF d
      <4>3. LET q == Unleased(jobs[i], "failed", "BLOCKED") IN Tidy(q) /\ q.status = "failed"
        BY <3>1, ReleaseTidy DEF JobStatus, GateState
      <4>4. LET q == Unleased(d, "pending", "READY") IN Tidy(q) /\ q.status = "pending"
        BY <4>1, ReleaseTidy DEF JobStatus, GateState
      <4>5. Tidy(Recovered(jobs[i])) /\ Recovered(jobs[i]).status \in {"failed", "pending"}
        BY <4>2, <4>3, <4>4
      <4> QED
        BY <3>3, <4>5 DEF MayBecome, Settled, FencedEnd
    <3> QED
      BY <3>2, <3>3
  <2> QED
    BY <2>1, <2>2 DEF Moved, AllTidy, MayBecome
<1>4. CASE claim_next(w)
  <2>1. PICK i \in Submitted :
          /\ Claimable(w, i)
          /\ jobs' = [jobs EXCEPT ![i] =
                        [@ EXCEPT !.status = "running", !.attempt = jobs[i].attempt + 1,
                                  !.lease = "live", !.worker = w]]
    BY <1>4 DEF claim_next
  <2> DEFINE q == [jobs[i] EXCEPT !.status = "running", !.attempt = jobs[i].attempt + 1,
                                  !.lease = "live", !.worker = w]
  <2>2. jobs[i] \in Job /\ jobs[i].attempt < jobs[i].max /\ jobs[i].status = "pending"
    BY <2>1 DEF IInv, TypeOK, Claimable
  <2>3. jobs[i].attempt + 1 \in 0..MaxAttempts
    BY <2>2, MaxAttemptsAssumption DEF Job
  <2>4. q \in Job /\ q.status = "running"
    BY <2>2, <2>3 DEF Job, JobStatus, Lease
  <2>5. jobs' = [jobs EXCEPT ![i] = q]
    BY <2>1
  <2> HIDE DEF q
  <2>6. MayBecome(i, q)
    BY <2>2, <2>4 DEF MayBecome, Tidy, Settled
  <2> QED
    BY <1>4, <2>4, <2>5, <2>6, WriteMoved DEF claim_next
<1>5. CASE heartbeat(w)
  <2>1. CASE ~Owns(w, j)
    BY <1>1, <1>5, <2>1 DEF heartbeat
  <2>2. CASE Owns(w, j)
    <3> DEFINE q == [jobs[j] EXCEPT !.lease = "live"]
    <3>1. /\ j \in Submitted /\ jobs[j] \in Job /\ jobs' = [jobs EXCEPT ![j] = q]
          /\ jobs[j].status = "running" /\ results' = results
      BY <1>2, <1>5, <2>2 DEF heartbeat, Busy, Owns
    <3>2. q \in Job /\ q.status = "running"
      BY <3>1 DEF Job, Lease
    <3> HIDE DEF j, q
    <3>3. MayBecome(j, q)
      BY <3>1, <3>2 DEF MayBecome, Tidy, Settled
    <3> QED
      BY <3>1, <3>2, <3>3, WriteMoved
  <2> QED
    BY <2>1, <2>2
<1>6. CASE schedule_retry(w)
  <2> DEFINE d == [jobs[j] EXCEPT !.due = FALSE]
             q == Unleased(d, "pending", "READY")
  <2>1. CASE MayReschedule(w, j) /\ jobs' = [jobs EXCEPT ![j] = q]
    <3>1. j \in Submitted /\ jobs[j] \in Job /\ jobs[j].status = "running" /\ results' = results
      BY <1>2, <1>6, <2>1 DEF schedule_retry, Busy, MayReschedule
    <3> HIDE DEF j
    <3>2. d \in Job
      BY <3>1 DEF Job
    <3> HIDE DEF d
    <3>3. q \in Job /\ Tidy(q) /\ q.status = "pending"
      BY <3>2, ReleaseTidy DEF JobStatus, GateState
    <3> HIDE DEF q
    <3>4. MayBecome(j, q)
      BY <3>1, <3>3 DEF MayBecome, Settled
    <3> QED
      BY <2>1, <3>1, <3>3, <3>4, WriteMoved
  <2> QED
    BY <1>1, <1>6, <2>1 DEF schedule_retry
<1> QED
  BY <1>1, <1>3, <1>4, <1>5, <1>6, CompletionMoves
  DEF RunOnce, Restart, NothingToClaim, TurnSucceeds, TurnFails, PublishSuccess,
      ReplaceSuccess, PublishFailure, ReplaceFailure

\* Every step.
LEMMA NextMoves == ASSUME IInv, AllTidy, [Next]_vars PROVE Moved
<1>1. CASE UNCHANGED vars
  BY <1>1, SameMoved DEF vars
<1> QED
  BY <1>1, JobMoves, WorkerMoves DEF Next

\* Rows are tidy in every reachable state.
LEMMA AlwaysTidy == Spec => []AllTidy
<1>1. Init => AllTidy
  BY DEF Init, AllTidy, Submitted
<1>2. IInv /\ AllTidy /\ [Next]_vars => AllTidy'
  BY NextMoves DEF Moved
<1> QED
  BY <1>1, <1>2, Invariant, PTL DEF Spec

\* Succeeded and cancelled rows keep their row and their result whatever late
\* worker, recovery or operator call arrives: a repeated completion of the same
\* claim writes what is already there.
THEOREM SettledStays == Spec => SettledIsFinal
<1> DEFINE Stays ==
      \A j \in Submitted :
        jobs[j].status \in {"succeeded", "cancelled"} =>
          jobs'[j] = jobs[j] /\ results'[j] = results[j]
<1>1. IInv /\ AllTidy /\ [Next]_vars => [Stays]_vars
  BY NextMoves DEF Moved, MayBecome, Settled
<1> QED
  BY <1>1, Invariant, AlwaysTidy, PTL DEF Spec, SettledIsFinal

\* A running job ends only by its current owner's own completion of this
\* attempt, or by recovery once its lease has expired.
THEOREM CompletionsFenced == Spec => CompletionIsFenced
<1> DEFINE Fence ==
      \A j \in Submitted :
        jobs[j].status = "running" /\ jobs'[j].status \in {"succeeded", "failed"} =>
          \/ jobs[j].lease = "expired" /\ jobs'[j].status = "failed"
          \/ \E w \in Workers :
               /\ w = jobs[j].worker
               /\ claim[w].job = j /\ claim[w].attempt = jobs[j].attempt
               /\ pc[w] \in {"commit", "commit_failure"}
<1>1. IInv /\ AllTidy /\ [Next]_vars => [Fence]_vars
  BY NextMoves DEF Moved, MayBecome, FencedEnd
<1> QED
  BY <1>1, Invariant, AlwaysTidy, PTL DEF Spec, CompletionIsFenced
=============================================================================
