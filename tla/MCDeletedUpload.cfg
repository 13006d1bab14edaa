\* A slow call for the same upload, beside a whole life of it.
CONSTANTS
  Uploads = {u1}
  Calls = {c1, c2}
  Workers = {w1}
  Versions = {v1, v2, v3}
  Budget = 1
  MaxFaults = 0
  NoUpload = NoUpload
  NoVersion = NoVersion

SYMMETRY Symmetry
\* An upload that was deleted is over: the system may stop there.
SPECIFICATION Spec
CHECK_DEADLOCK FALSE

INVARIANTS
  DeletedLeavesNoObject
