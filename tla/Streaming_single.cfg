SPECIFICATION Spec
CONSTANTS
  w1 = w1
  w2 = w2
  Workers <- OneWorker
  IDs = {"1001"}
  IdOf <- OneId
  Atoi <- NumericOne
  NotANumber = NotANumber
  NoResult = NoResult
  Keys = {"k1"}
  ZeroKey = "k0"
  Probes = {p1}
  Kinds = {"result", "parseError"}
  FilterInvalidResults = TRUE
  BufferSize = 0
  TicksPerSecond = 2
  MaxDataAge = 2
  MaxReceived = 2
  MaxNow = 6
  MinRetryDelay = 4
  MaxRetryDelay = 24
  IntBits = 8
INVARIANTS
  BackoffWithinJitter
  StopsOnlyOnOverflow
PROPERTIES
  DisconnectNeverFatal
  ReadyIsFresh
