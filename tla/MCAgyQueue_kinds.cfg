SPECIFICATION FairSpec
CONSTANTS
  w1 = w1
  w2 = w2
  s1 = s1
  s2 = s2
  Jobs <- OneJob
  Workers <- MCWorkers
  PreflightWorkers <- MCPreflight
  Scopes <- OneScope
  SubmitKinds <- AllKinds
  MaxAttempts = 2
INVARIANTS
  RunsOnlyAuthorized
  ExternalEffectsNeverRun
PROPERTIES
  EveryJobSettles
