SPECIFICATION FairSpec
CONSTANTS
  Requests = {q1, q2, q3}
  Grace = 3
INVARIANTS
  ServedAfterInit
  CutOnlyAfterGrace
  ExitTellsCause
PROPERTIES
  SignalEndsProcess
CHECK_DEADLOCK FALSE
