------------------------------- MODULE Release ------------------------------
(***************************************************************************)
(* A Mainnet release: the repository gate and the cloud evidence behind a  *)
(* candidate, its approval and consumption in the control plane's release  *)
(* store, the controller builds that promote the Cloud Run worker, and the *)
(* staged ARM.                                                             *)
(*                                                                         *)
(* An artifact is an image digest with its secret versions.  An approval   *)
(* id is the candidate it was minted for.  A call to gcloud or to the      *)
(* control plane is one action; builds run concurrently and may stop       *)
(* between any two calls.                                                  *)
(***************************************************************************)
EXTENDS Integers, Sequences, FiniteSets

CONSTANTS
  Candidates,   \* release candidates
  Builds,       \* runs of release_controller.py that may overlap
  Artifacts,
  RepoChecks,   \* the checks of run_repo_gate
  MaxRevisions, \* bound: Cloud Run revisions
  MaxEvidence,  \* bound: cloud-gate-*.json files
  MaxFaults,    \* bound: builds that stop early, revisions that never get Ready
  NoCandidate,
  NoEvidence

ASSUME ReleaseAssumption ==
  /\ MaxRevisions \in Nat \ {0}
  /\ MaxEvidence \in Nat
  /\ MaxFaults \in Nat
  /\ NoCandidate \notin Candidates
  /\ Artifacts # {}

VARIABLES
  evidence, \* the cloud evidence files, oldest modification first
  failing,  \* the repository checks that fail now
  gate,     \* the output of the last run_gate
  store,    \* release_candidates
  approved, \* candidates an operator approved, ever
  request,  \* the approve requests whose verification passed
  build,    \* the controller builds
  spec,     \* the template of the Cloud Run service
  serving,  \* the Ready revision that has the traffic
  worker,   \* the process of that revision
  arming,   \* the ARM request the control plane has checked
  faults

gates == <<evidence, failing, gate>>
releases == <<store, approved, request>>
service == <<spec, serving, worker>>
vars == <<gates, releases, build, service, arming, faults>>

Template == [revision : 1..MaxRevisions, artifact : Artifacts,
             source : 1..MaxRevisions, live : BOOLEAN,
             approval : Candidates \cup {NoCandidate}]
Evidence == [passed : BOOLEAN, fresh : BOOLEAN]
NoGate == [overall_passed |-> FALSE, cloud_tier |-> NoEvidence,
           repo_tier |-> [failed |-> {}, overall_passed |-> FALSE]]
Started == [engine |-> "DISARMED", attempts |-> 0]

----------------------------------------------------------------------------
(* The release gate.                                                       *)

\* _load_cloud_evidence: the last file modified; NoEvidence is the synthetic
\* FAIL.  A malformed file counts as one that did not pass.
Newest == IF evidence = <<>> THEN NoEvidence ELSE Len(evidence)
_load_cloud_evidence ==
  IF Newest # NoEvidence /\ evidence[Newest].fresh THEN Newest ELSE NoEvidence

\* Seeded fault: one check that passes is enough.
run_any_check == failing # RepoChecks

run_repo_gate == failing = {}

overall_passed ==
  /\ run_repo_gate
  /\ _load_cloud_evidence # NoEvidence
  /\ evidence[_load_cloud_evidence].passed

\* Bound: nothing reads the gate once every candidate exists.
Preparing == \E c \in Candidates : store[c].status = "NONE"

\* gate.main.
run_gate ==
  /\ Preparing
  /\ gate' = [overall_passed |-> overall_passed,
              repo_tier |-> [failed |-> failing, overall_passed |-> run_repo_gate],
              cloud_tier |-> _load_cloud_evidence]
  /\ UNCHANGED <<evidence, failing, releases, build, service, arming, faults>>

\* cloud_gate.ps1 writes a file.
WriteEvidence(passed) ==
  /\ Preparing
  /\ Len(evidence) < MaxEvidence
  /\ evidence' = Append(evidence, [passed |-> passed, fresh |-> TRUE])
  /\ UNCHANGED <<failing, gate, releases, build, service, arming, faults>>

\* generated_at falls behind max_cloud_evidence_age_sec.
EvidenceAges(i) ==
  /\ Preparing
  /\ evidence[i].fresh
  /\ evidence' = [evidence EXCEPT ![i].fresh = FALSE]
  /\ UNCHANGED <<failing, gate, releases, build, service, arming, faults>>

\* The tree the checks run on changes.
RepoChanges(checks) ==
  /\ Preparing
  /\ failing' = checks
  /\ UNCHANGED <<evidence, gate, releases, build, service, arming, faults>>

----------------------------------------------------------------------------
(* The service and the candidate.                                          *)

\* gcloud run deploy: the service gets a template of a new revision, which
\* becomes Ready and takes the traffic, or never does.
Deployed(template) ==
  /\ spec.revision < MaxRevisions
  /\ spec' = template
  /\ \/ /\ serving' = template
        /\ worker' = Started
        /\ UNCHANGED faults
     \/ /\ faults < MaxFaults
        /\ faults' = faults + 1
        /\ UNCHANGED <<serving, worker>>

NextRevision == spec.revision + 1

\* deploy-live-disarmed.ps1.
DeployDisarmed(artifact) ==
  /\ Deployed([revision |-> NextRevision, artifact |-> artifact,
               source |-> NextRevision, live |-> FALSE, approval |-> NoCandidate])
  /\ UNCHANGED <<gates, releases, build, arming>>

\* What the routes candidate, verify, approve and consume require of the
\* worker's /state.
DisarmedAs(artifact, revision) ==
  /\ ~serving.live
  /\ worker = Started
  /\ serving.artifact = artifact
  /\ serving.source = revision

\* /internal/release/candidate: newReleaseCandidate checks the gate output it
\* is sent, the age of its cloud tier again, and the running worker.  The caller
\* is taken to send what the gate has last written.
CreateCandidate(c) ==
  /\ store[c].status = "NONE"
  /\ gate.repo_tier.overall_passed
  /\ gate.cloud_tier # NoEvidence
  /\ evidence[gate.cloud_tier].passed
  /\ evidence[gate.cloud_tier].fresh
  /\ DisarmedAs(serving.artifact, serving.source)
  /\ store' = [store EXCEPT ![c] =
       [status |-> "PENDING_APPROVAL", expired |-> FALSE,
        artifact |-> serving.artifact, revision |-> serving.source,
        repoGate |-> gate.repo_tier.failed]]
  /\ UNCHANGED <<gates, approved, request, build, service, arming, faults>>

\* Seeded fault: the store keeps the status EXPIRED.
ExpireStored(c) ==
  /\ store[c].status # "NONE"
  /\ ~store[c].expired
  /\ store' = [store EXCEPT ![c].expired = TRUE, ![c].status = "EXPIRED"]
  /\ UNCHANGED <<gates, approved, request, build, service, arming, faults>>

\* expiresAt passes; consumeApproval's EXPIRED is rolled back by its throw.
Expire(c) ==
  /\ store[c].status # "NONE"
  /\ ~store[c].expired
  /\ store' = [store EXCEPT ![c].expired = TRUE]
  /\ UNCHANGED <<gates, approved, request, build, service, arming, faults>>

\* validateApprovalPrerequisites.
Verified(c) ==
  /\ store[c].status # "NONE"
  /\ ~store[c].expired
  /\ DisarmedAs(store[c].artifact, store[c].revision)

\* /api/release/mainnet/approve: verifyReleaseCandidate, ...
VerifyForApproval(c) ==
  /\ c \notin request
  /\ Verified(c)
  /\ request' = request \cup {c}
  /\ UNCHANGED <<gates, store, approved, build, service, arming, faults>>

\* ... then the transaction of approveCandidate on the snapshot it took.
approveCandidate(c) ==
  /\ c \in request
  /\ request' = request \ {c}
  /\ IF store[c].status = "PENDING_APPROVAL" /\ ~store[c].expired
       THEN /\ store' = [store EXCEPT ![c].status = "APPROVED"]
            /\ approved' = approved \cup {c}
       ELSE UNCHANGED <<store, approved>>
  /\ UNCHANGED <<gates, build, service, arming, faults>>

----------------------------------------------------------------------------
(* The release controller.                                                 *)

Resting == {"idle", "failed", "success"}
Goto(b, pc) == build' = [build EXCEPT ![b].pc = pc]

\* _validate_inputs, _verify_script_digest, _assert_attached_identity and
\* _identity_token accept a build that is given candidate c and artifact a.
Start(b, c, a) ==
  /\ build[b].pc \in Resting
  /\ store[c].status # "NONE"
  /\ build' = [build EXCEPT ![b] = [pc |-> "verify", candidate |-> c, artifact |-> a]]
  /\ UNCHANGED <<gates, releases, service, arming, faults>>

\* _consume_approval, its first request.
Verify(b) ==
  /\ build[b].pc = "verify"
  /\ Goto(b, IF Verified(build[b].candidate) THEN "consume" ELSE "failed")
  /\ UNCHANGED <<gates, releases, service, arming, faults>>

\* Seeded fault: a consumed approval is refused to the build that
\* runs again.
ConsumableOnce(c) ==
  /\ store[c].status = "APPROVED"
  /\ ~store[c].expired

\* consumeApproval takes an APPROVED candidate; the route answers again for a
\* CONSUMED one.
Consumable(c) ==
  /\ store[c].status \in {"APPROVED", "CONSUMED"}
  /\ ~store[c].expired

\* _consume_approval, its second request: the artifact is compared once the
\* approval is consumed.
_consume_approval(b) ==
  LET c == build[b].candidate IN
  /\ build[b].pc = "consume"
  /\ IF Consumable(c) /\ DisarmedAs(store[c].artifact, store[c].revision)
       THEN /\ store' = [store EXCEPT ![c].status = "CONSUMED"]
            /\ Goto(b, IF store[c].artifact = build[b].artifact
                         THEN "baseline" ELSE "failed")
       ELSE /\ Goto(b, "failed")
            /\ UNCHANGED store
  /\ UNCHANGED <<gates, approved, request, service, arming, faults>>

\* _read_worker_service: the template and the Ready condition of the service.
_read_worker_service(b, live, approval, source) ==
  /\ spec.artifact = build[b].artifact
  /\ spec.live = live
  /\ spec.approval = approval
  /\ spec.source = source
  /\ spec = serving

_read_worker_baseline(b) ==
  LET c == build[b].candidate IN
  /\ build[b].pc = "baseline"
  /\ Goto(b, IF /\ _read_worker_service(b, FALSE, NoCandidate, store[c].revision)
                /\ serving.revision = store[c].revision
               THEN "deploy" ELSE "failed")
  /\ UNCHANGED <<gates, releases, service, arming, faults>>

\* A revision that never gets Ready makes gcloud fail.
_deploy_worker(b) ==
  LET c == build[b].candidate IN
  /\ build[b].pc = "deploy"
  /\ Deployed([revision |-> NextRevision, artifact |-> build[b].artifact,
               source |-> store[c].revision, live |-> TRUE, approval |-> c])
  /\ Goto(b, IF faults' = faults THEN "readback" ELSE "failed")
  /\ UNCHANGED <<gates, releases, arming>>

ReadBack(b) ==
  LET c == build[b].candidate IN
  /\ build[b].pc = "readback"
  /\ Goto(b, IF /\ _read_worker_service(b, TRUE, c, store[c].revision)
                /\ serving.revision # store[c].revision
               THEN "runtime" ELSE "failed")
  /\ UNCHANGED <<gates, releases, service, arming, faults>>

\* _verify_disarmed_runtime, after _verify_control_plane_readiness.
_verify_disarmed_runtime(b) ==
  LET c == build[b].candidate IN
  /\ build[b].pc = "runtime"
  /\ Goto(b, IF /\ serving.live
                /\ serving.artifact = build[b].artifact
                /\ serving.source = store[c].revision
                /\ worker = Started
               THEN "success" ELSE "failed")
  /\ UNCHANGED <<gates, releases, service, arming, faults>>

\* A call fails or times out, the preflight or the readiness fails, or the
\* build is stopped.
Stop(b) ==
  /\ build[b].pc \notin Resting
  /\ faults < MaxFaults
  /\ faults' = faults + 1
  /\ Goto(b, "failed")
  /\ UNCHANGED <<gates, releases, service, arming>>

----------------------------------------------------------------------------
(* The staged ARM.                                                         *)

\* /api/system/arm reads the consumed approval and the worker's /state, ...
CheckArm(c) ==
  /\ arming = NoCandidate
  /\ store[c].status = "CONSUMED"
  /\ ~store[c].expired
  /\ serving.live
  /\ worker = Started
  /\ serving.artifact = store[c].artifact
  /\ serving.source = store[c].revision
  /\ arming' = c
  /\ UNCHANGED <<gates, releases, build, service, faults>>

\* Seeded fault: the worker trusts the control plane's check.
ArmableUnchecked == TRUE

\* The worker's own condition in arm for a LIVE request, the only kind the
\* control plane and the worker check, and the only one modelled.
Armable == serving.live

\* ... then forwards to the worker that serves now.
ForwardArm ==
  /\ arming # NoCandidate
  /\ arming' = NoCandidate
  /\ worker' = IF Armable THEN [worker EXCEPT !.engine = "ARMED"] ELSE worker
  /\ UNCHANGED <<gates, releases, build, spec, serving, faults>>

\* The armed worker submits its staged order.
Submit ==
  /\ worker.engine = "ARMED"
  /\ worker.attempts = 0
  /\ worker' = [worker EXCEPT !.attempts = 1]
  /\ UNCHANGED <<gates, releases, build, spec, serving, arming, faults>>

Disarm ==
  /\ worker.engine = "ARMED"
  /\ worker' = [worker EXCEPT !.engine = "DISARMED"]
  /\ UNCHANGED <<gates, releases, build, spec, serving, arming, faults>>

----------------------------------------------------------------------------
Init ==
  /\ evidence = <<>>
  /\ failing \in SUBSET RepoChecks
  /\ gate = NoGate
  /\ \E a \in Artifacts :
       /\ store = [c \in Candidates |->
            [status |-> "NONE", expired |-> FALSE, artifact |-> a, revision |-> 1,
             repoGate |-> {}]]
       /\ build = [b \in Builds |->
            [pc |-> "idle", candidate |-> NoCandidate, artifact |-> a]]
       /\ spec = [revision |-> 1, artifact |-> a, source |-> 1,
                  live |-> FALSE, approval |-> NoCandidate]
  /\ approved = {}
  /\ request = {}
  /\ serving = spec
  /\ worker = Started
  /\ arming = NoCandidate
  /\ faults = 0

ControllerStep(b) ==
  \/ Verify(b)
  \/ _consume_approval(b)
  \/ _read_worker_baseline(b)
  \/ _deploy_worker(b)
  \/ ReadBack(b)
  \/ _verify_disarmed_runtime(b)

Next ==
  \/ run_gate
  \/ \E passed \in BOOLEAN : WriteEvidence(passed)
  \/ \E i \in 1..Len(evidence) : EvidenceAges(i)
  \/ \E checks \in SUBSET RepoChecks : RepoChanges(checks)
  \/ \E a \in Artifacts : DeployDisarmed(a)
  \/ \E c \in Candidates :
       \/ CreateCandidate(c) \/ Expire(c) \/ VerifyForApproval(c)
       \/ approveCandidate(c) \/ CheckArm(c)
  \/ \E b \in Builds, c \in Candidates, a \in Artifacts : Start(b, c, a)
  \/ \E b \in Builds : ControllerStep(b) \/ Stop(b)
  \/ ForwardArm
  \/ Submit
  \/ Disarm

Spec == Init /\ [][Next]_vars

\* A build that is started runs on, and an approved candidate's build is
\* started again after it failed.
FairSpec ==
  /\ Spec
  /\ \A b \in Builds : WF_vars(ControllerStep(b))
  /\ \A b \in Builds, c \in Candidates :
       SF_vars(Start(b, c, store[c].artifact))
----------------------------------------------------------------------------
\* Every variable keeps its type; no deployment passes the last revision.
TypeOK ==
  /\ evidence \in Seq(Evidence)
  /\ failing \subseteq RepoChecks
  /\ gate.cloud_tier \in 1..MaxEvidence \cup {NoEvidence}
  /\ store \in [Candidates ->
       [status : {"NONE", "PENDING_APPROVAL", "APPROVED", "CONSUMED"},
        expired : BOOLEAN, artifact : Artifacts, revision : 1..MaxRevisions,
        repoGate : SUBSET RepoChecks]]
  /\ approved \subseteq Candidates
  /\ request \subseteq Candidates
  /\ build \in [Builds ->
       [pc : Resting \cup {"verify", "consume", "baseline", "deploy", "readback", "runtime"},
        candidate : Candidates \cup {NoCandidate}, artifact : Artifacts]]
  /\ spec \in Template
  /\ serving \in Template
  /\ worker \in [engine : {"DISARMED", "ARMED"}, attempts : 0..1]
  /\ arming \in Candidates \cup {NoCandidate}
  /\ faults \in 0..MaxFaults

\* A template with MAINNET_LIVE_APPROVED, served or not, carries the approval
\* of a candidate that an operator approved, that a controller consumed,
\* whose repository gate had no failing check, and whose artifact and disarmed
\* revision it promotes, however many builds race and whatever they were given.
LiveIsEarned ==
  \A t \in {spec, serving} : t.live =>
    LET c == t.approval IN
    /\ c \in approved
    /\ store[c].status = "CONSUMED"
    /\ store[c].repoGate = {}
    /\ t.artifact = store[c].artifact
    /\ t.source = store[c].revision
    /\ t.source < t.revision

\* The process that is armed for LIVE, or has submitted, is a LIVE-approved
\* revision, also when a deployment comes between the control plane's check of
\* an ARM request and its forwarding.
ArmedIsLive == worker # Started => serving.live

\* A promotion replaces the unused, disarmed revision its candidate names.
\* It fails: the build reads the baseline and deploys later, so that it replaces
\* a revision deployed in between, or the promoted, perhaps armed, worker of a
\* second build that got the same consumed approval.
PromotesItsBaseline ==
  [][(spec' # spec /\ spec'.live) =>
       DisarmedAs(spec'.artifact, spec'.source) /\ serving.revision = spec'.source]_vars

\* A release whose build stopped between consuming the approval and deploying
\* does not get stuck: while the disarmed baseline is in place a build that is
\* run again gets the consumed approval again and deploys, unless the approval
\* expires or the worker changes.
Resumable(c) ==
  /\ store[c].status = "CONSUMED"
  /\ ~store[c].expired
  /\ spec = serving
  /\ serving.revision = store[c].revision
  /\ DisarmedAs(store[c].artifact, store[c].revision)
  /\ spec.revision < MaxRevisions
StoppedReleaseResumes == \A c \in Candidates : Resumable(c) ~> ~Resumable(c)
=============================================================================
