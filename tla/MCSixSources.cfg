\* A request may name six sources, a row holds the outcomes of five.
CONSTANTS
  s1 = s1
  s2 = s2
  k1 = k1
  f1 = f1
  Searches = {s1}
  Owners <- MCOwners
  Keys <- MCKeys
  Sources <- MCAllSources
  Fingerprints = {}
  OutcomeLimit = 5
  LeaseTicks = 1
  RepublishTicks = 0
  MaxFence = 2
  NoRequest = NoRequest

SPECIFICATION StoreSpec

INVARIANTS
  RequestsAreRecordable
