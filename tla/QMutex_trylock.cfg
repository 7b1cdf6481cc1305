SPECIFICATION Spec
CONSTANTS
  t1 = t1
  t2 = t2
  NoThread = NoThread
  Threads = {t1, t2}
  Usages <- LockAndTry
  SpinCount = 1
  SemValueMax = 2
  MaxRecurse = 1
  UintMax = 7
INVARIANT NothingOwnsMe
