\* Two searches under arbitrary callers; a fence takes at most two values.
CONSTANTS
  s1 = s1
  s2 = s2
  k1 = k1
  f1 = f1
  Searches <- MCSearches
  Owners <- MCOwners
  Keys <- MCKeys
  Sources <- MCSources
  Fingerprints <- MCFingerprints
  OutcomeLimit = 2
  LeaseTicks = 1
  RepublishTicks = 0
  MaxFence = 2
  NoRequest = NoRequest

SYMMETRY Symmetry

SPECIFICATION StoreSpec

INVARIANTS
  TypeOK
  RunCommandCoupling
  LogTellsStatus
  SightingsCountRuns

PROPERTIES
  SettledIsFinal
  LeaseIsExclusive
  ImplementsLifecycle
