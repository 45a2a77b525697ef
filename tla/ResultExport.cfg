SPECIFICATION Spec
CONSTANTS
  Nil = Nil
  None = None
  Scrapers = {s1, s2}
  ProbeIds = {1, 2}
  Docs <- TwoDocs
  Results <- AllResults
INVARIANTS
  NothingRejected
  ExportPanicCauses
  HistogramAgrees
  FilteredHasASN
  AloneOwnFingerprint
CHECK_DEADLOCK FALSE
