SPECIFICATION FairSpec
CONSTANTS
  o1 = o1
  o2 = o2
  h1 = h1
  h2 = h2
  h3 = h3
  h4 = h4
  Owners <- MCOwners
  Handles <- MCHandles
  OwnerOf <- MCOwnerOf
  TTL = 2
INVARIANT TypeOK
PROPERTIES
  NeverRevived
  ImplementsFencedLease
  OrphanExpires
CHECK_DEADLOCK FALSE
