SPECIFICATION Spec
CONSTANTS
  p1 = p1
  p2 = p2
  a1 = a1
  a2 = a2
  Procs <- OneProc
  Approvals <- TwoApprovals
  MaxOrders = 2
SYMMETRY Symmetric
INVARIANTS
  TypeOK
  StagedOneOrder
  ReservationCovers
  SubmittedWereAccepted
  OneOpenSession
PROPERTIES
  SessionNeverReset
