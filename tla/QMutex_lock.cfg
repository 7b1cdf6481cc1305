SPECIFICATION FairSpec
CONSTANTS
  t1 = t1
  t2 = t2
  t3 = t3
  NoThread = NoThread
  Threads = {t1, t2, t3}
  Usages <- LockOrTry
  SpinCount = 1
  SemValueMax = 2
  MaxRecurse = 2
  UintMax = 7
INVARIANTS
  TypeOK
  MutualExclusion
  NothingOwnsMe
  CountAccounts
  NoLostWakeup
PROPERTIES
  ImplementsRecursiveLock
  WaitersAreServed
