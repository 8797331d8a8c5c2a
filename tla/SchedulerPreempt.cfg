CONSTANTS
  Threads = {t1, t2, t3}
  None = None
  Work = 2
  AlarmAt <- InUserCode
SPECIFICATION Spec
INVARIANT
  UserCodeIsTimed
