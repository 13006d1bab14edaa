\* One worker and the publisher, under fairness, with two faults; a search for
\* both sources has more outcomes than the row may hold.
CONSTANTS
  Searches = {s1}
  Owners <- MCOwners
  Keys = {k1}
  Sources <- MCTwoSources
  Fingerprints = {}
  Workers = {w1}
  Copies = {c1}
  OutcomeLimit = 1
  LeaseTicks = 2
  RepublishTicks = 0
  BackoffTicks = 1
  MaxFence = 6
  Budget = 2
  MaxFaults = 2
  NoRequest = NoRequest
  NoWorker = NoWorker
  NoCopy = NoCopy
  NoCommand = NoCommand

SPECIFICATION FairSpec

PROPERTIES
  RunsAreAnswered
  QueueDrains
