SPECIFICATION Spec
CONSTANTS
  w1 = w1
  w2 = w2
  j1 = j1
  j2 = j2
  c1 = c1
  Null = Null
  Workers = {w1, w2}
  Jobs = {j1, j2}
  Clients = {c1}
  Totals = {2}
  Delayed = {}
  Awaited = {}
  Throwing = {}
INVARIANT JobsAreKept
CHECK_DEADLOCK FALSE
