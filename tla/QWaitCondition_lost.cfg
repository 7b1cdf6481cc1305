SPECIFICATION FairSpec
CONSTANTS
  t1 = t1
  t2 = t2
  Threads = {t1, t2}
  Waiters = {t1}
PROPERTY WakeAllWakes
