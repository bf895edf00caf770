SPECIFICATION Spec
CONSTANTS
  p1 = p1
  p2 = p2
  a1 = a1
  a2 = a2
  Procs <- TwoProcs
  Approvals <- OneApproval
  MaxOrders = 2
SYMMETRY Symmetric
INVARIANTS
  StagedOneOrder
CONSTRAINT OneDisturbed
