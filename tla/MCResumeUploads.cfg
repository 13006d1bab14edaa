\* One upload, two calls and two workers; three versions: one may be on disk and
\* one in each call.
CONSTANTS
  Uploads = {u1}
  Calls = {c1, c2}
  Workers = {w1, w2}
  Versions = {v1, v2, v3}
  Budget = 2
  MaxFaults = 2
  NoUpload = NoUpload
  NoVersion = NoVersion

\* An upload that was deleted is over: the system may stop there.
SPECIFICATION FairSpec
CHECK_DEADLOCK FALSE

INVARIANTS
  UploadsTypeOK
  QueuedHasObject
  CancelledHasNoObject
  ResultTellsExecution

PROPERTIES
  ObjectsAreNotOverwritten
  ResultsAreFinal
  UploadsAreAnswered
