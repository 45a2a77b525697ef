SPECIFICATION Spec
CONSTANTS
  Unset = Unset
  NaN = NaN
  Malformed = Malformed
  Default = 60
  Values <- Durations
  Names <- Segments
  Index <- SegmentIndex
  Ids = {"1001", "5001"}
  FileLists <- Lists
  FileSections <- Sections
INVARIANTS
  MeasurementsKept
  Precedence
  HistogramsStart
CHECK_DEADLOCK FALSE
