SPECIFICATION FairSpec
CONSTANTS
  Searches = {s1}
  Fingerprints = {f1}
  Endings <- MCEndings
  Pages = {p1}
  Streams = {k1, k2}
  StreamCap = 1
  MaxTurns = 1
  MaxFaults = 1
  NoSearch = NoSearch
  NoPage = NoPage
INVARIANTS PageTypeOK FinishedPageIsComplete
PROPERTIES StreamTellsAll PagesSettle
CHECK_DEADLOCK FALSE
