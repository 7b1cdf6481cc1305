SPECIFICATION FairSpec
CONSTANTS
  t1 = t1
  t2 = t2
  t3 = t3
  NoThread = NoThread
  Threads = {t1, t2, t3}
  TryLockers = {t1}
  MaxDepth = 2
  MaxWrites = 2
INVARIANTS
  TypeOK
  OneWriter
  AloneWhileCounted
  LockLostIsTold
  ReadersShared
PROPERTIES
  CountLostByNestingOnly
  LockedStateKept
  WritersGetIn
CHECK_DEADLOCK FALSE
