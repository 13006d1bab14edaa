\* Saved, applied, a round and two changes of it, from two tabs.
CONSTANTS
  Tabs = {t1, t2}
  Publishers = {p1, p2}
  Rounds = {k1}
  Statuses <- MCStatuses
  Progressed <- MCProgressed
  NoRound = NoRound
  MaxTime = 2
  MaxEdits = 5
  MaxStops = 0

SPECIFICATION Spec
CHECK_DEADLOCK FALSE

INVARIANT
  RoundEditsAreInformed
