SPECIFICATION Spec
CONSTANTS
  c1 = c1
  Null = Null
  Controllers = {c1}
  MaxStarts = 1
  MaxHold = 0
PROPERTY FinishedInTime
CHECK_DEADLOCK FALSE
