SPECIFICATION FairSpec
CONSTANTS
  None = None
  t1 = t1
  t2 = t2
  TICKS_PERIOD = 8
  Tasks = {t1, t2}
  Checked = {t2}
  RaisingChecks = {t2}
  Escaping = {t1}
  Periods = {1, 2}
  Options <- MCOptions
  MaxLate = 1
INVARIANTS TypeOK QueuedOnce AbsentNeverFires RunCountExact NoBacklog
PROPERTIES MinGap PeriodicFires
