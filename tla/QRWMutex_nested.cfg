SPECIFICATION Spec
CONSTANTS
  t1 = t1
  t2 = t2
  NoThread = NoThread
  Threads = {t1, t2}
  TryLockers = {}
  MaxDepth = 2
  MaxWrites = 2
INVARIANT WriterIsAlone
CHECK_DEADLOCK FALSE
