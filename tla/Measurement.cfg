SPECIFICATION FairSpec
CONSTANTS
  Scrapers = {s1, s2}
  Probes = {p1, p2}
  None = None
  ExportWalks = TRUE
  Short = {2}
  TicksPerSecond = 2
  MaxResultAge = 1
  MaxAdds = 2
  MaxNow = 3
INVARIANTS
  HistogramsCoverExport
  ScrapeIsFresh
  OnlyBadResultsCrash
PROPERTIES
  ImplementsSnapshot
  AddEnds
  ScrapeEnds
CHECK_DEADLOCK FALSE
