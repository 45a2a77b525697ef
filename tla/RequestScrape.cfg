SPECIFICATION FairSpec
CONSTANTS
  p1 = p1
  p2 = p2
  p3 = p3
  IDs = {m1, m2}
  Focus = m1
  Consumers = {c1, c2}
  Results <- FourResults
  ZeroID = ZeroID
  None = None
  Timeout = 2
  WriteTimeout = 1
  MaxNow = 2
INVARIANTS
  CompleteUnlessTimedOut
  FilterStopsMissing
  CompleteOnSuccess
  NoSendOnClosed
  NeverStuck
PROPERTIES
  RequestEnds
CHECK_DEADLOCK FALSE
