\* Two messages of one command and two workers, with a fault.
CONSTANTS
  Searches = {s1}
  Owners <- MCOwners
  Keys = {k1}
  Sources <- MCSources
  Fingerprints = {}
  Workers = {w1, w2}
  Copies = {c1, c2}
  OutcomeLimit = 1
  LeaseTicks = 1
  RepublishTicks = 0
  BackoffTicks = 1
  MaxFence = 6
  Budget = 2
  MaxFaults = 1
  NoRequest = NoRequest
  NoWorker = NoWorker
  NoCopy = NoCopy
  NoCommand = NoCommand

SYMMETRY Symmetry

SPECIFICATION Spec

INVARIANTS
  PipelineTypeOK
  FencesDistinct

PROPERTIES
  AcknowledgedIsCompleted
  GivenUpWhenSpent
