SPECIFICATION FairSpec
CONSTANTS
  Callers = {t1, t2}
  MaxRuns = 3
CHECK_DEADLOCK FALSE
PROPERTIES
  StopReturns
