SPECIFICATION FairSpec
CONSTANTS
  Clients = {c1, c2}
  IDs = {i1, i2}
  None = None
  TTL = 2
  MaxNow = 4
INVARIANTS
  RemovalsCounted
PROPERTIES
  ReplacedByLonger
  ExpiredLeave
CHECK_DEADLOCK FALSE
