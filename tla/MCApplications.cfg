\* Saved, applied, a round and two changes of it.
CONSTANTS
  Tabs = {t1, t2}
  Publishers = {p1, p2}
  Rounds = {k1}
  Statuses <- MCStatuses
  Progressed <- MCProgressed
  NoRound = NoRound
  MaxTime = 2
  MaxEdits = 4
  MaxStops = 1

SPECIFICATION FairSpec
\* Every edit may be made and time may be over.
CHECK_DEADLOCK FALSE

INVARIANTS
  HistoryTellsLead
  LeadEditsAreInformed
  OneNoticePerTime

PROPERTIES
  NoticesAreWanted
  RemindersArrive
