CONSTANTS
  Threads = {t1, t2, t3}
  None = None
  Work = 1
  AlarmAt <- Anywhere
SPECIFICATION Spec
INVARIANT
  YieldsFromUserThread
