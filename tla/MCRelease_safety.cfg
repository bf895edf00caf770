\* Two builds of one candidate that may overlap; one fault.
CONSTANTS
  c1 = c1
  c2 = c2
  b1 = b1
  b2 = b2
  a1 = a1
  a2 = a2
  NoCandidate = NoCandidate
  NoEvidence = NoEvidence
  Candidates = {c1}
  Builds = {b1, b2}
  Artifacts = {a1, a2}
  RepoChecks = {"pytest_unit", "vite_data_connect_cutover"}
  MaxRevisions = 3
  MaxEvidence = 1
  MaxFaults = 1
SPECIFICATION FairSpec
INVARIANTS TypeOK LiveIsEarned ArmedIsLive
PROPERTIES StoppedReleaseResumes
CHECK_DEADLOCK FALSE
