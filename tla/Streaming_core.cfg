SPECIFICATION Spec
CONSTANTS
  w1 = w1
  w2 = w2
  Workers <- TwoWorkers
  IDs = {"1001", "5001"}
  IdOf <- OwnIds
  Atoi <- Numeric
  NotANumber = NotANumber
  NoResult = NoResult
  Keys = {"k1", "k2"}
  ZeroKey = "k0"
  Probes = {p1}
  Kinds = {"result", "poison"}
  FilterInvalidResults = FALSE
  BufferSize = 1
  TicksPerSecond = 1
  MaxDataAge = 0
  MaxReceived = 3
  MaxNow = 1
  MinRetryDelay = 2
  MaxRetryDelay = 2
  IntBits = 4
INVARIANTS
  ConnectedCount
  GaugeFollows
  Conservation
  DrainedAtMostOncePerPanic
PROPERTIES
  MeasurementsPersist
