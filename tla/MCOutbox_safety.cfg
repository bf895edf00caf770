\* An order and its fill; two revisions dispatch; a queue of one.
CONSTANTS
  o1 = o1
  o2 = o2
  f2 = f2
  d1 = d1
  d2 = d2
  NoEvent = NoEvent
  Events <- OrderAndFill
  EventType <- MCEventType
  OrderOf <- MCOrderOf
  Rank <- MCRank
  Tradable <- OrderAndFill
  Orders = {"first", "second"}
  Dispatchers = {d1, d2}
  Me = d1
  Capacity = 1
  MaxExponent = 0
  MaxDropped = 1
SPECIFICATION FairSpec
INVARIANTS TypeOK AckedIsDurable AppliedOnce RefusedOnlyWhenTorn NothingSilentlyLost
PROPERTIES ImplementsDurableLog DurableIsApplied
