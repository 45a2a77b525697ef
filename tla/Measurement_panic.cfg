SPECIFICATION Spec
CONSTANTS
  Scrapers = {s1}
  Probes = {p1}
  None = None
  ExportWalks = TRUE
  Short = {}
  TicksPerSecond = 2
  MaxResultAge = 1
  MaxAdds = 2
  MaxNow = 3
INVARIANTS
  NoCrash
CHECK_DEADLOCK FALSE
