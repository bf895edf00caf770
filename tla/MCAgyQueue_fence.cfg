SPECIFICATION Spec
CONSTANTS
  w1 = w1
  w2 = w2
  s1 = s1
  s2 = s2
  Jobs <- OneJob
  Workers <- MCWorkers
  PreflightWorkers <- MCWorkers
  Scopes <- OneScope
  SubmitKinds <- ReadOnly
  MaxAttempts = 3
PROPERTIES
  LiveClaimUndisturbed
