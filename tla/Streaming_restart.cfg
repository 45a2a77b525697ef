SPECIFICATION Spec
CONSTANTS
  w1 = w1
  w2 = w2
  Workers <- OneWorker
  IDs = {"1001"}
  IdOf <- OneId
  Atoi <- NumericOne
  NotANumber = NotANumber
  NoResult = NoResult
  Keys = {"k1"}
  ZeroKey = "k0"
  Probes = {p1}
  Kinds = {"result", "poison"}
  FilterInvalidResults = TRUE
  BufferSize = 1
  TicksPerSecond = 1
  MaxDataAge = 0
  MaxReceived = 0
  MaxNow = 1
  MinRetryDelay = 4
  MaxRetryDelay = 240
  IntBits = 16
INVARIANTS
  WorkerRestarts
