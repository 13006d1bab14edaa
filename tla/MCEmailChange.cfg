CONSTANTS
  Accounts = {a1, a2}
  Addresses = {x1, x2}
  Sessions = {s1, s2}
  Browsers = {b1}
  Requests = {r1, r2}
  MaxGen = 1
  MaxIssued = 2
  Attempts = 2
  NoAccount = NoAccount
  NoAddress = NoAddress
  NoSession = NoSession
  NoBrowser = NoBrowser

SYMMETRY Symmetry
SPECIFICATION Spec
CHECK_DEADLOCK FALSE

PROPERTY
  ChangeEndsOthers
