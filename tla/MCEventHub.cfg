SPECIFICATION FairSpec
CONSTANTS
  Conns = {b1, b2}
  Capacity = 2
  MaxEvents = 3
  Stalled = {b1}
INVARIANTS
  TypeOK
  NoSendOnClosed
PROPERTIES
  ImplementsFeed
  StallHoldsUpNobody
  GoneIsForgotten
CHECK_DEADLOCK FALSE
