---------------------------- MODULE ReleaseProofs ---------------------------
(***************************************************************************)
(* For any number of candidates, builds, artifacts and revisions: a        *)
(* template that is approved for LIVE carries a consumed approval an       *)
(* operator gave to exactly that artifact and revision, and only a process *)
(* of such a revision is ever armed.                                       *)
(***************************************************************************)
EXTENDS Release, TLAPS

Status == {"NONE", "PENDING_APPROVAL", "APPROVED", "CONSUMED"}
Candidate == [status : Status, expired : BOOLEAN, artifact : Artifacts,
              revision : 1..MaxRevisions, repoGate : SUBSET RepoChecks]
Build == [pc : Resting \cup {"verify", "consume", "baseline", "deploy", "readback", "runtime"},
          candidate : Candidates \cup {NoCandidate}, artifact : Artifacts]

\* The gate output, as far as a candidate can tell: a repository tier that
\* passed has no failing check.
GateOK ==
  /\ evidence \in Seq(Evidence) /\ Len(evidence) <= MaxEvidence
  /\ failing \subseteq RepoChecks
  /\ gate.cloud_tier \in 1..MaxEvidence \cup {NoEvidence}
  /\ gate.repo_tier.failed \subseteq RepoChecks
  /\ gate.repo_tier.overall_passed => gate.repo_tier.failed = {}

\* A candidate passed the repository gate, an approval was given, and the
\* revision it names is one of the past.
StoreOK ==
  /\ store \in [Candidates -> Candidate]
  /\ approved \subseteq Candidates /\ request \subseteq Candidates
  /\ \A c \in Candidates :
       /\ store[c].status # "NONE" =>
            store[c].repoGate = {} /\ store[c].revision <= spec.revision
       /\ store[c].status \in {"APPROVED", "CONSUMED"} => c \in approved

\* A build that may deploy holds a consumed approval of its artifact.
BuildOK ==
  /\ build \in [Builds -> Build]
  /\ \A b \in Builds :
       /\ build[b].pc \notin Resting => build[b].candidate \in Candidates
       /\ build[b].pc \in {"baseline", "deploy", "readback", "runtime"} =>
            /\ store[build[b].candidate].status = "CONSUMED"
            /\ store[build[b].candidate].artifact = build[b].artifact

ServiceOK ==
  /\ spec \in Template /\ serving \in Template
  /\ serving.source <= spec.revision
  /\ worker \in [engine : {"DISARMED", "ARMED"}, attempts : 0..1]
  /\ arming \in Candidates \cup {NoCandidate}
  /\ faults \in 0..MaxFaults

Inv == GateOK /\ StoreOK /\ BuildOK /\ ServiceOK /\ LiveIsEarned /\ ArmedIsLive

\* The invariant holds initially.
LEMMA InitInv == Init => Inv
<1> SUFFICES ASSUME Init PROVE Inv
  OBVIOUS
<1> USE ReleaseAssumption
<1>1. GateOK
  BY DEF Init, GateOK, NoGate
<1>2. PICK a \in Artifacts :
       /\ store = [c \in Candidates |->
            [status |-> "NONE", expired |-> FALSE, artifact |-> a, revision |-> 1,
             repoGate |-> {}]]
       /\ build = [b \in Builds |->
            [pc |-> "idle", candidate |-> NoCandidate, artifact |-> a]]
       /\ spec = [revision |-> 1, artifact |-> a, source |-> 1,
                  live |-> FALSE, approval |-> NoCandidate]
  BY DEF Init
<1>3. StoreOK
  BY <1>2 DEF Init, StoreOK, Candidate, Status
<1>4. BuildOK
  BY <1>2 DEF BuildOK, Build, Resting
<1>5. spec \in Template /\ spec.source <= spec.revision /\ ~spec.live
  BY <1>2 DEF Template
<1>6. ServiceOK
  BY <1>5 DEF Init, ServiceOK, Started
<1>7. LiveIsEarned /\ ArmedIsLive
  BY <1>5 DEF Init, LiveIsEarned, ArmedIsLive
<1> QED
  BY <1>1, <1>3, <1>4, <1>6, <1>7 DEF Inv

-----------------------------------------------------------------------------
(* What a step does to each part.                                          *)

\* gate.main, cloud_gate.ps1 and the tree.
LEMMA GateStep == Inv /\ [Next]_vars => GateOK'
<1> SUFFICES ASSUME Inv, [Next]_vars PROVE GateOK'
  OBVIOUS
<1> USE ReleaseAssumption
<1>1. GateOK
  BY DEF Inv
<1>2. CASE UNCHANGED gates
  BY <1>1, <1>2 DEF GateOK, gates
<1>3. CASE run_gate
  <2>1. /\ UNCHANGED <<evidence, failing>>
        /\ gate' = [overall_passed |-> overall_passed,
                    repo_tier |-> [failed |-> failing, overall_passed |-> run_repo_gate],
                    cloud_tier |-> _load_cloud_evidence]
    BY <1>3 DEF run_gate
  <2>2. _load_cloud_evidence \in 1..MaxEvidence \cup {NoEvidence}
    BY <1>1 DEF _load_cloud_evidence, Newest, GateOK
  <2>3. /\ gate'.cloud_tier = _load_cloud_evidence /\ gate'.repo_tier.failed = failing
        /\ gate'.repo_tier.overall_passed = run_repo_gate
    BY <2>1
  <2> QED
    BY <1>1, <2>1, <2>2, <2>3 DEF GateOK, run_repo_gate
<1>4. ASSUME NEW passed \in BOOLEAN, WriteEvidence(passed) PROVE GateOK'
  <2>1. [passed |-> passed, fresh |-> TRUE] \in Evidence
    BY DEF Evidence
  <2>2. /\ evidence' \in Seq(Evidence) /\ Len(evidence') = Len(evidence) + 1
        /\ Len(evidence) < MaxEvidence /\ Len(evidence) \in Nat
    BY <1>1, <1>4, <2>1 DEF WriteEvidence, GateOK
  <2>3. Len(evidence') <= MaxEvidence
    BY <2>2
  <2> QED
    BY <1>1, <1>4, <2>2, <2>3 DEF WriteEvidence, GateOK
<1>5. ASSUME NEW i \in 1..Len(evidence), EvidenceAges(i) PROVE GateOK'
  <2>1. [evidence[i] EXCEPT !.fresh = FALSE] \in Evidence
    <3>1. evidence[i] \in Evidence
      BY <1>1 DEF GateOK
    <3> QED
      BY <3>1 DEF Evidence
  <2>2. evidence' \in Seq(Evidence) /\ Len(evidence') = Len(evidence)
    BY <1>1, <1>5, <2>1 DEF EvidenceAges, GateOK
  <2> QED
    BY <1>1, <1>5, <2>2 DEF EvidenceAges, GateOK
<1>6. ASSUME NEW checks \in SUBSET RepoChecks, RepoChanges(checks) PROVE GateOK'
  BY <1>1, <1>6 DEF RepoChanges, GateOK
<1> QED
  BY <1>2, <1>3, <1>4, <1>5, <1>6
  DEF Next, ControllerStep, DeployDisarmed, CreateCandidate, Expire, VerifyForApproval,
      approveCandidate, CheckArm, Start, Verify, _consume_approval, _read_worker_baseline,
      _deploy_worker, ReadBack, _verify_disarmed_runtime, Stop, ForwardArm, Submit, Disarm, vars

\* What never changes of a candidate.
Kept ==
  /\ approved \subseteq approved'
  /\ \A c \in Candidates :
       /\ store[c].status # "NONE" =>
            /\ store'[c].status # "NONE"
            /\ store'[c].artifact = store[c].artifact
            /\ store'[c].revision = store[c].revision
            /\ store'[c].repoGate = store[c].repoGate
       /\ store[c].status = "CONSUMED" => store'[c].status = "CONSUMED"

\* A deployment only adds revisions.
LEMMA Deployment ==
  ASSUME ServiceOK, NEW t, Deployed(t), t.revision = NextRevision
  PROVE  spec.revision <= spec'.revision /\ NextRevision \in 1..MaxRevisions
         /\ spec.revision \in 1..MaxRevisions /\ faults' \in 0..MaxFaults
  BY ReleaseAssumption DEF ServiceOK, Deployed, NextRevision, Template

\* Revisions are numbered upwards.
LEMMA Revisions == Inv /\ [Next]_vars => spec.revision <= spec'.revision
<1> SUFFICES ASSUME Inv, [Next]_vars PROVE spec.revision <= spec'.revision
  OBVIOUS
<1>1. ServiceOK /\ spec.revision \in 1..MaxRevisions
  BY DEF Inv, ServiceOK, Template
<1>2. CASE UNCHANGED spec
  BY <1>1, <1>2
<1>3. ASSUME NEW a \in Artifacts, DeployDisarmed(a) PROVE spec.revision <= spec'.revision
  BY <1>1, <1>3, Deployment DEF DeployDisarmed
<1>4. ASSUME NEW b \in Builds, _deploy_worker(b) PROVE spec.revision <= spec'.revision
  BY <1>1, <1>4, Deployment DEF _deploy_worker
<1> QED
  BY <1>2, <1>3, <1>4
  DEF Next, ControllerStep, run_gate, WriteEvidence, EvidenceAges, RepoChanges, CreateCandidate,
      Expire, VerifyForApproval, approveCandidate, CheckArm, Start, Verify, _consume_approval,
      _read_worker_baseline, ReadBack, _verify_disarmed_runtime, Stop, ForwardArm, Submit,
      Disarm, vars, service

\* The release store: one candidate changes, and only forward.
LEMMA StoreStep == Inv /\ [Next]_vars => StoreOK' /\ Kept
<1> SUFFICES ASSUME Inv, [Next]_vars PROVE StoreOK' /\ Kept
  OBVIOUS
<1>1. StoreOK /\ GateOK /\ BuildOK /\ ServiceOK
  BY DEF Inv
<1>2. /\ spec.revision <= spec'.revision /\ spec.revision \in Int /\ spec'.revision \in Int
      /\ serving.source <= spec.revision
  <2>1. spec.revision <= spec'.revision /\ spec.revision \in Int
    BY <1>1, Revisions DEF ServiceOK, Template
  <2>2. spec'.revision \in Int
    <3>1. CASE UNCHANGED spec
      BY <2>1, <3>1
    <3>2. ASSUME NEW t, t.revision = NextRevision, Deployed(t) PROVE spec'.revision \in Int
      BY <1>1, <3>2, Deployment DEF Deployed
    <3>3. ASSUME NEW a \in Artifacts, DeployDisarmed(a) PROVE spec'.revision \in Int
      BY <3>2, <3>3 DEF DeployDisarmed
    <3>4. ASSUME NEW b \in Builds, _deploy_worker(b) PROVE spec'.revision \in Int
      BY <3>2, <3>4 DEF _deploy_worker
    <3> QED
      BY <3>1, <3>3, <3>4
      DEF Next, ControllerStep, run_gate, WriteEvidence, EvidenceAges, RepoChanges,
          CreateCandidate, Expire, VerifyForApproval, approveCandidate, CheckArm, Start, Verify,
          _consume_approval, _read_worker_baseline, ReadBack, _verify_disarmed_runtime, Stop,
          ForwardArm, Submit, Disarm, vars, service
  <2> QED
    BY <1>1, <2>1, <2>2 DEF ServiceOK
\* candidate c becomes r
<1>3. ASSUME NEW c \in Candidates, NEW r \in Candidate,
             store' = [store EXCEPT ![c] = r], approved \subseteq approved',
             approved' \subseteq Candidates, request' \subseteq Candidates,
             r.status # "NONE", r.repoGate = {}, r.revision <= spec.revision,
             r.status \in {"APPROVED", "CONSUMED"} => c \in approved',
             store[c].status # "NONE" =>
               r.artifact = store[c].artifact /\ r.revision = store[c].revision,
             store[c].status = "CONSUMED" => r.status = "CONSUMED"
      PROVE  StoreOK' /\ Kept
  <2>1. store \in [Candidates -> Candidate] /\ store' \in [Candidates -> Candidate]
    BY <1>1, <1>3 DEF StoreOK
  <2>2. /\ store'[c] = r
        /\ \A d \in Candidates \ {c} : store'[d] = store[d]
    BY <1>3, <2>1
  <2>3. Kept
    BY <1>1, <1>3, <2>2 DEF Kept, StoreOK
  <2>4. \A d \in Candidates :
          store[d].revision \in Int /\ store'[d].revision \in Int
    BY <2>1 DEF Candidate
  <2>5. ASSUME NEW d \in Candidates
        PROVE  /\ store'[d].status # "NONE" =>
                    store'[d].repoGate = {} /\ store'[d].revision <= spec'.revision
               /\ store'[d].status \in {"APPROVED", "CONSUMED"} => d \in approved'
    <3>1. CASE d = c
      BY <1>2, <1>3, <2>2, <2>4, <3>1
    <3>2. CASE d # c
      BY <1>1, <1>2, <1>3, <2>2, <2>4, <3>2 DEF StoreOK
    <3> QED
      BY <3>1, <3>2
  <2> QED
    BY <1>3, <2>1, <2>3, <2>5 DEF StoreOK
<1>4. CASE UNCHANGED <<store, approved>> /\ request' \subseteq Candidates
  <2>1. \A d \in Candidates : store[d].revision \in Int
    BY <1>1 DEF StoreOK, Candidate
  <2> QED
    BY <1>1, <1>2, <1>4, <2>1 DEF StoreOK, Kept
<1>5. ASSUME NEW c \in Candidates, CreateCandidate(c) PROVE StoreOK' /\ Kept
  <2> DEFINE r == [status |-> "PENDING_APPROVAL", expired |-> FALSE,
                   artifact |-> serving.artifact, revision |-> serving.source,
                   repoGate |-> gate.repo_tier.failed]
  <2>1. store' = [store EXCEPT ![c] = r] /\ UNCHANGED <<approved, request>>
        /\ store[c].status = "NONE" /\ gate.repo_tier.failed = {}
    BY <1>1, <1>5 DEF CreateCandidate, GateOK
  <2>2. r \in Candidate /\ r.status = "PENDING_APPROVAL" /\ r.repoGate = {}
        /\ r.revision = serving.source
    BY <1>1, <2>1 DEF Candidate, Status, ServiceOK, Template
  <2> HIDE DEF r
  <2> QED
    BY <1>1, <1>2, <1>3, <2>1, <2>2 DEF StoreOK
<1>6. ASSUME NEW c \in Candidates, Expire(c) PROVE StoreOK' /\ Kept
  <2> DEFINE r == [store[c] EXCEPT !.expired = TRUE]
  <2>1. store' = [store EXCEPT ![c] = r] /\ UNCHANGED <<approved, request>>
        /\ store[c].status # "NONE" /\ store[c] \in Candidate
    BY <1>1, <1>6 DEF Expire, StoreOK
  <2>2. r \in Candidate /\ r.status = store[c].status /\ r.repoGate = store[c].repoGate
        /\ r.revision = store[c].revision /\ r.artifact = store[c].artifact
    BY <2>1 DEF Candidate
  <2> HIDE DEF r
  <2> QED
    BY <1>1, <1>3, <2>1, <2>2 DEF StoreOK
<1>7. ASSUME NEW c \in Candidates, approveCandidate(c) PROVE StoreOK' /\ Kept
  <2> DEFINE r == [store[c] EXCEPT !.status = "APPROVED"]
  <2>1. store[c] \in Candidate /\ request' \subseteq Candidates
    BY <1>1, <1>7 DEF approveCandidate, StoreOK
  <2>2. r \in Candidate /\ r.status = "APPROVED" /\ r.repoGate = store[c].repoGate
        /\ r.revision = store[c].revision /\ r.artifact = store[c].artifact
    BY <2>1 DEF Candidate, Status
  <2>3. CASE UNCHANGED <<store, approved>>
    BY <1>4, <2>1, <2>3
  <2>4. CASE store' = [store EXCEPT ![c] = r] /\ store[c].status = "PENDING_APPROVAL"
             /\ approved' = approved \cup {c}
    <3> HIDE DEF r
    <3> QED
      BY <1>1, <1>3, <2>1, <2>2, <2>4 DEF StoreOK
  <2> QED
    BY <1>7, <2>3, <2>4 DEF approveCandidate
<1>8. ASSUME NEW b \in Builds, _consume_approval(b) PROVE StoreOK' /\ Kept
  <2> DEFINE c == build[b].candidate
             r == [store[c] EXCEPT !.status = "CONSUMED"]
  <2>1. c \in Candidates /\ store[c] \in Candidate /\ UNCHANGED <<approved, request>>
    BY <1>1, <1>8 DEF _consume_approval, StoreOK, BuildOK, Resting
  <2> HIDE DEF c
  <2>2. r \in Candidate /\ r.status = "CONSUMED" /\ r.repoGate = store[c].repoGate
        /\ r.revision = store[c].revision /\ r.artifact = store[c].artifact
    BY <2>1 DEF Candidate, Status
  <2>3. CASE UNCHANGED store
    BY <1>1, <1>4, <2>1, <2>3 DEF StoreOK
  <2>4. CASE store' = [store EXCEPT ![c] = r] /\ store[c].status \in {"APPROVED", "CONSUMED"}
    <3> HIDE DEF r
    <3> QED
      BY <1>1, <1>3, <2>1, <2>2, <2>4 DEF StoreOK
  <2> QED
    BY <1>8, <2>3, <2>4 DEF _consume_approval, Consumable, c
<1>9. ASSUME NEW c \in Candidates, VerifyForApproval(c)
      PROVE  UNCHANGED <<store, approved>> /\ request' \subseteq Candidates
  BY <1>1, <1>9 DEF VerifyForApproval, StoreOK
<1>10. request \subseteq Candidates
  BY <1>1 DEF StoreOK
<1>11. CASE UNCHANGED releases
  BY <1>4, <1>10, <1>11 DEF releases
<1> QED
  BY <1>4, <1>5, <1>6, <1>7, <1>8, <1>9, <1>11
  DEF Next, ControllerStep, run_gate, WriteEvidence, EvidenceAges, RepoChanges, DeployDisarmed,
      CheckArm, Start, Verify, _read_worker_baseline, _deploy_worker, ReadBack,
      _verify_disarmed_runtime, Stop, ForwardArm, Submit, Disarm, vars

\* The builds: only _consume_approval lets a build on to the deployment.
LEMMA BuildStep == Inv /\ [Next]_vars => BuildOK'
<1> SUFFICES ASSUME Inv, [Next]_vars PROVE BuildOK'
  OBVIOUS
<1>1. BuildOK /\ StoreOK /\ StoreOK' /\ Kept
  BY StoreStep DEF Inv
<1>2. CASE UNCHANGED build
  BY <1>1, <1>2 DEF BuildOK, Kept, Resting
\* build b goes on to pc
<1>3. ASSUME NEW b \in Builds, NEW pc, build' = [build EXCEPT ![b].pc = pc],
             pc \in Resting \cup {"consume", "baseline", "deploy", "readback", "runtime"},
             build[b].pc \notin Resting,
             pc \in {"baseline", "deploy", "readback", "runtime"} =>
               \/ build[b].pc \in {"baseline", "deploy", "readback"}
               \/ /\ store'[build[b].candidate].status = "CONSUMED"
                  /\ store'[build[b].candidate].artifact = build[b].artifact
      PROVE  BuildOK'
  <2>1. build \in [Builds -> Build] /\ build[b] \in Build
    BY <1>1 DEF BuildOK
  <2>2. [build[b] EXCEPT !.pc = pc] \in Build
    BY <1>3, <2>1 DEF Build
  <2>3. /\ build' \in [Builds -> Build]
        /\ build'[b] = [build[b] EXCEPT !.pc = pc]
        /\ \A d \in Builds \ {b} : build'[d] = build[d]
    BY <1>3, <2>1, <2>2
  <2>4. /\ build'[b].pc = pc /\ build'[b].candidate = build[b].candidate
        /\ build'[b].artifact = build[b].artifact
    BY <2>1, <2>3 DEF Build
  <2>5. ASSUME NEW d \in Builds
        PROVE  /\ build'[d].pc \notin Resting => build'[d].candidate \in Candidates
               /\ build'[d].pc \in {"baseline", "deploy", "readback", "runtime"} =>
                    /\ store'[build'[d].candidate].status = "CONSUMED"
                    /\ store'[build'[d].candidate].artifact = build'[d].artifact
    <3>1. CASE d = b
      BY <1>1, <1>3, <2>4, <3>1 DEF BuildOK, Kept
    <3>2. CASE d # b
      BY <1>1, <2>3, <3>2 DEF BuildOK, Kept, Resting
    <3> QED
      BY <3>1, <3>2
  <2> QED
    BY <2>3, <2>5 DEF BuildOK
<1>4. ASSUME NEW b \in Builds, NEW c \in Candidates, NEW a \in Artifacts, Start(b, c, a)
      PROVE  BuildOK'
  <2> DEFINE r == [pc |-> "verify", candidate |-> c, artifact |-> a]
  <2>1. r \in Build /\ r.pc = "verify" /\ r.candidate = c
    BY DEF Build
  <2>2. build' = [build EXCEPT ![b] = r] /\ build \in [Builds -> Build]
    BY <1>1, <1>4 DEF Start, BuildOK
  <2> HIDE DEF r
  <2>3. /\ build' \in [Builds -> Build] /\ build'[b] = r
        /\ \A d \in Builds \ {b} : build'[d] = build[d]
    BY <2>1, <2>2
  <2> QED
    BY <1>1, <2>1, <2>3 DEF BuildOK, Kept, Resting
<1>5. ASSUME NEW b \in Builds, _consume_approval(b) PROVE BuildOK'
  <2> DEFINE c == build[b].candidate
  <2>1. build[b].pc = "consume" /\ c \in Candidates
    BY <1>1, <1>5 DEF _consume_approval, BuildOK, Resting
  <2>2. CASE Goto(b, "failed")
    BY <1>3, <2>1, <2>2 DEF Goto, Resting
  <2>3. CASE /\ store' = [store EXCEPT ![c].status = "CONSUMED"]
             /\ store[c].artifact = build[b].artifact /\ Goto(b, "baseline")
    <3>1. store[c] \in Candidate /\ store \in [Candidates -> Candidate]
      BY <1>1, <2>1 DEF StoreOK
    <3>2. store'[c].status = "CONSUMED" /\ store'[c].artifact = build[b].artifact
      <4> HIDE DEF c
      <4> QED
        BY <2>1, <2>3, <3>1 DEF Candidate
    <3> QED
      BY <1>3, <2>1, <2>3, <3>2 DEF Goto, Resting
  <2> QED
    BY <1>5, <2>2, <2>3 DEF _consume_approval
<1>6. ASSUME NEW b \in Builds, Verify(b) PROVE BuildOK'
  <2>1. build[b].pc = "verify"
        /\ \E pc \in {"consume", "failed"} : build' = [build EXCEPT ![b].pc = pc]
    BY <1>6 DEF Verify, Goto
  <2> QED
    BY <1>3, <2>1 DEF Resting
<1>7. ASSUME NEW b \in Builds, _read_worker_baseline(b) PROVE BuildOK'
  <2>1. build[b].pc = "baseline"
        /\ \E pc \in {"deploy", "failed"} : build' = [build EXCEPT ![b].pc = pc]
    BY <1>7 DEF _read_worker_baseline, Goto
  <2> QED
    BY <1>3, <2>1 DEF Resting
<1>8. ASSUME NEW b \in Builds, _deploy_worker(b) PROVE BuildOK'
  <2>1. build[b].pc = "deploy"
        /\ \E pc \in {"readback", "failed"} : build' = [build EXCEPT ![b].pc = pc]
    BY <1>8 DEF _deploy_worker, Goto
  <2> QED
    BY <1>3, <2>1 DEF Resting
<1>9. ASSUME NEW b \in Builds, ReadBack(b) PROVE BuildOK'
  <2>1. build[b].pc = "readback"
        /\ \E pc \in {"runtime", "failed"} : build' = [build EXCEPT ![b].pc = pc]
    BY <1>9 DEF ReadBack, Goto
  <2> QED
    BY <1>3, <2>1 DEF Resting
<1>10. ASSUME NEW b \in Builds, _verify_disarmed_runtime(b) PROVE BuildOK'
  <2>1. build[b].pc = "runtime"
        /\ \E pc \in {"success", "failed"} : build' = [build EXCEPT ![b].pc = pc]
    BY <1>10 DEF _verify_disarmed_runtime, Goto
  <2> QED
    BY <1>3, <2>1 DEF Resting
<1>11. ASSUME NEW b \in Builds, Stop(b) PROVE BuildOK'
  <2>1. build[b].pc \notin Resting /\ build' = [build EXCEPT ![b].pc = "failed"]
    BY <1>11 DEF Stop, Goto
  <2> QED
    BY <1>3, <2>1 DEF Resting
<1> QED
  BY <1>2, <1>4, <1>5, <1>6, <1>7, <1>8, <1>9, <1>10, <1>11
  DEF Next, ControllerStep, run_gate, WriteEvidence, EvidenceAges, RepoChanges, DeployDisarmed,
      CreateCandidate, Expire, VerifyForApproval, approveCandidate, CheckArm, ForwardArm, Submit,
      Disarm, vars

\* What a LIVE template needs of the store s and the approvals ever given.
Earned(t, s, given) ==
  t.live =>
    /\ t.approval \in Candidates /\ t.approval \in given
    /\ s[t.approval].status = "CONSUMED"
    /\ s[t.approval].repoGate = {}
    /\ t.artifact = s[t.approval].artifact
    /\ t.source = s[t.approval].revision
    /\ t.source < t.revision

\* Cloud Run and the armed process.
LEMMA ServiceStep == Inv /\ [Next]_vars => ServiceOK' /\ LiveIsEarned' /\ ArmedIsLive'
<1> SUFFICES ASSUME Inv, [Next]_vars PROVE ServiceOK' /\ LiveIsEarned' /\ ArmedIsLive'
  OBVIOUS
<1> DEFINE G == ServiceOK' /\ LiveIsEarned' /\ ArmedIsLive'
<1>1. /\ ServiceOK /\ LiveIsEarned /\ ArmedIsLive /\ BuildOK /\ StoreOK /\ StoreOK' /\ Kept
      /\ spec \in Template /\ serving \in Template
  BY StoreStep DEF Inv, ServiceOK
<1>2. Earned(spec, store', approved') /\ Earned(serving, store', approved')
  BY <1>1 DEF LiveIsEarned, Earned, StoreOK, Kept
<1>3. ASSUME Earned(spec', store', approved'), Earned(serving', store', approved')
      PROVE  LiveIsEarned'
  BY <1>3 DEF LiveIsEarned, Earned
\* the service stays
<1>4. CASE /\ UNCHANGED <<spec, serving>>
           /\ worker' \in [engine : {"DISARMED", "ARMED"}, attempts : 0..1]
           /\ worker' # Started => serving.live
           /\ arming' \in Candidates \cup {NoCandidate} /\ faults' \in 0..MaxFaults
  BY <1>1, <1>2, <1>3, <1>4 DEF ServiceOK, ArmedIsLive
\* the service gets template t
<1>5. ASSUME NEW t \in Template, Deployed(t), t.revision = NextRevision,
             t.source <= t.revision, Earned(t, store', approved'), UNCHANGED arming
      PROVE  G
  <2>1. faults' \in 0..MaxFaults /\ spec.revision <= t.revision
    BY <1>1, <1>5, Deployment DEF Deployed
  <2>2. spec' = t /\ ((serving' = t /\ worker' = Started) \/ UNCHANGED <<serving, worker>>)
    BY <1>5 DEF Deployed
  <2>3. serving.source \in Int /\ spec.revision \in Int /\ t.revision \in Int
        /\ serving.source <= spec.revision
    BY <1>1 DEF Template, ServiceOK
  <2>4. serving'.source <= spec'.revision
    BY <1>5, <2>1, <2>2, <2>3
  <2>5. Started \in [engine : {"DISARMED", "ARMED"}, attempts : 0..1]
    BY DEF Started
  <2>6. ServiceOK'
    BY <1>1, <1>5, <2>1, <2>2, <2>4, <2>5 DEF ServiceOK
  <2>7. LiveIsEarned'
    BY <1>2, <1>3, <1>5, <2>2
  <2>8. ArmedIsLive'
    BY <1>1, <2>2 DEF ArmedIsLive
  <2> QED
    BY <2>6, <2>7, <2>8
<1>6. ASSUME NEW a \in Artifacts, DeployDisarmed(a) PROVE G
  <2> DEFINE t == [revision |-> NextRevision, artifact |-> a,
                   source |-> NextRevision, live |-> FALSE, approval |-> NoCandidate]
  <2>1. Deployed(t) /\ UNCHANGED arming /\ t.revision = NextRevision
    BY <1>6 DEF DeployDisarmed
  <2>2. NextRevision \in 1..MaxRevisions
    <3> HIDE DEF t
    <3> QED
      BY <1>1, <2>1, Deployment
  <2>3. t \in Template /\ ~t.live /\ t.source <= t.revision
    BY <2>2 DEF Template
  <2> HIDE DEF t
  <2> QED
    BY <1>5, <2>1, <2>3 DEF Earned
<1>7. ASSUME NEW b \in Builds, _deploy_worker(b) PROVE G
  <2> DEFINE c == build[b].candidate
             t == [revision |-> NextRevision, artifact |-> build[b].artifact,
                   source |-> store[c].revision, live |-> TRUE, approval |-> c]
  <2>1. Deployed(t) /\ UNCHANGED arming /\ t.revision = NextRevision /\ build[b].pc = "deploy"
    BY <1>7 DEF _deploy_worker
  <2>2. /\ c \in Candidates /\ store[c].status = "CONSUMED"
        /\ store[c].artifact = build[b].artifact /\ build[b].artifact \in Artifacts
    BY <1>1, <2>1 DEF BuildOK, Resting, Build
  <2>3. store[c].revision \in 1..MaxRevisions /\ store[c].revision <= spec.revision
        /\ store[c].repoGate = {} /\ c \in approved
    BY <1>1, <2>2 DEF StoreOK, Candidate
  <2>4. NextRevision \in 1..MaxRevisions /\ spec.revision \in 1..MaxRevisions
    <3> HIDE DEF t
    <3> QED
      BY <1>1, <2>1, Deployment
  <2>5. store[c].revision < NextRevision
    BY <2>3, <2>4 DEF NextRevision
  <2> HIDE DEF c
  <2>6. t \in Template /\ t.source <= t.revision
    BY <2>2, <2>3, <2>4, <2>5 DEF Template
  <2>7. Earned(t, store', approved')
    BY <1>1, <2>2, <2>3, <2>5 DEF Earned, Kept
  <2> HIDE DEF t
  <2> QED
    BY <1>5, <2>1, <2>6, <2>7
<1>8. worker \in [engine : {"DISARMED", "ARMED"}, attempts : 0..1]
      /\ (worker # Started => serving.live)
      /\ arming \in Candidates \cup {NoCandidate} /\ faults \in 0..MaxFaults
  BY <1>1 DEF ServiceOK, ArmedIsLive
<1>9. CASE ForwardArm
  <2>1. UNCHANGED <<spec, serving, faults>> /\ arming' = NoCandidate
        /\ \/ UNCHANGED worker
           \/ serving.live /\ worker' = [worker EXCEPT !.engine = "ARMED"]
    BY <1>9 DEF ForwardArm, Armable
  <2> QED
    BY <1>4, <1>8, <2>1
<1>10. CASE Submit \/ Disarm
  <2>1. worker.engine = "ARMED" /\ UNCHANGED <<spec, serving, arming, faults>>
        /\ worker' \in {[worker EXCEPT !.attempts = 1], [worker EXCEPT !.engine = "DISARMED"]}
    BY <1>10 DEF Submit, Disarm
  <2>2. worker # Started
    BY <2>1 DEF Started
  <2>3. worker' \in [engine : {"DISARMED", "ARMED"}, attempts : 0..1]
    BY <1>8, <2>1
  <2> QED
    BY <1>4, <1>8, <2>1, <2>2, <2>3
<1>11. ASSUME NEW c \in Candidates, CheckArm(c) PROVE G
  BY <1>4, <1>8, <1>11 DEF CheckArm, service
<1>12. ASSUME NEW b \in Builds, Stop(b) PROVE G
  <2>1. faults' \in 0..MaxFaults
    BY <1>8, <1>12, ReleaseAssumption DEF Stop
  <2> QED
    BY <1>4, <1>8, <1>12, <2>1 DEF Stop, service
<1>13. CASE UNCHANGED <<service, arming, faults>>
  BY <1>4, <1>8, <1>13 DEF service
<1> QED
  BY <1>6, <1>7, <1>9, <1>10, <1>11, <1>12, <1>13
  DEF Next, ControllerStep, run_gate, WriteEvidence, EvidenceAges, RepoChanges, CreateCandidate,
      Expire, VerifyForApproval, approveCandidate, Start, Verify, _consume_approval,
      _read_worker_baseline, ReadBack, _verify_disarmed_runtime, vars

\* Every step keeps the invariant.
LEMMA NextInv == Inv /\ [Next]_vars => Inv'
  BY GateStep, StoreStep, BuildStep, ServiceStep DEF Inv

\* The inductive invariant: what a candidate, a build and a template carry.
THEOREM ReleaseInvariant == Spec => []Inv
  BY InitInv, NextInv, PTL DEF Spec

\* Release.TypeOK for every value of the constants.
THEOREM ReleaseTypes == Spec => []TypeOK
<1>1. Inv => TypeOK
  BY DEF Inv, TypeOK, GateOK, StoreOK, BuildOK, ServiceOK, Candidate, Status, Build
<1> QED
  BY <1>1, ReleaseInvariant, PTL

\* newReleaseCandidate, approveCandidate, consumeApproval and _deploy_worker
\* together: no race of builds deploys a LIVE template without an approval of
\* its own artifact and disarmed revision.
THEOREM ReleaseEarned == Spec => []LiveIsEarned
<1>1. Inv => LiveIsEarned
  BY DEF Inv
<1> QED
  BY <1>1, ReleaseInvariant, PTL

\* arm: a deployment between the control plane's check and its forwarding
\* never leaves an armed process that is not LIVE-approved.
THEOREM ReleaseArmed == Spec => []ArmedIsLive
<1>1. Inv => ArmedIsLive
  BY DEF Inv
<1> QED
  BY <1>1, ReleaseInvariant, PTL
=============================================================================
