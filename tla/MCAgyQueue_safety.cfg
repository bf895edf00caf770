SPECIFICATION Spec
CONSTANTS
  w1 = w1
  w2 = w2
  s1 = s1
  s2 = s2
  Jobs <- TwoJobs
  Workers <- MCWorkers
  PreflightWorkers <- MCWorkers
  Scopes <- OneScope
  SubmitKinds <- ReadOnly
  MaxAttempts = 2
SYMMETRY WorkerSymmetry
INVARIANTS
  TypeOK
  ScopeExclusive
  PendingHasAttempts
  StoredResultHasFile
  SucceededByLatestClaim
PROPERTIES
  SettledIsFinal
  CompletionIsFenced
