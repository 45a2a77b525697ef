SPECIFICATION FairSpec
CONSTANTS
  w1 = w1
  w2 = w2
  Workers <- OneWorker
  IDs = {"1001"}
  IdOf <- OneId
  Atoi <- NumericOne
  NotANumber = NotANumber
  NoResult = NoResult
  Keys = {"k1"}
  ZeroKey = "k0"
  Probes = {p1}
  Kinds = {"result", "poison", "badBounds", "unsupported"}
  FilterInvalidResults = FALSE
  BufferSize = 2
  TicksPerSecond = 1
  MaxDataAge = 0
  MaxReceived = 3
  MaxNow = 1
  MinRetryDelay = 2
  MaxRetryDelay = 2
  IntBits = 4
PROPERTIES
  ImplementsFeed
  ResultsSettle
  Reconnects
  ShutdownStopsWorkers
