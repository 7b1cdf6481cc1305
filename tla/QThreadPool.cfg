SPECIFICATION FairSpec
CONSTANTS
  w1 = w1
  w2 = w2
  j1 = j1
  j2 = j2
  c1 = c1
  Null = Null
  Workers = {w1, w2}
  Jobs = {j1, j2}
  Clients = {c1}
  Totals = {1, 2}
  Delayed = {j2}
  Awaited = {j2}
  Throwing = {j2}
INVARIANTS
  TypeOK
  OnePlace
  CancelIsFinal
  FreeNotOverstated
  WorkerHasJob
PROPERTIES
  CancelReturns
  FinishedWaitsReturn
CHECK_DEADLOCK FALSE
