SPECIFICATION Spec
CONSTANTS
  Thread = {t1, t2, t3}
  PerMinute = 2
  Minute = 3
  None = None
  MaxClock = 6
SYMMETRY Symmetry
INVARIANTS RateHolds SleepSuffices
CHECK_DEADLOCK FALSE
