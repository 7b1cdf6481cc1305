SPECIFICATION FairSpec
CONSTANTS
  c1 = c1
  c2 = c2
  Null = Null
  Callers = {c1, c2}
  IdMax = 2
  MaxSends = 3
  ErrorTrans = FALSE
INVARIANTS
  TypeOK
PROPERTIES
  ImplementsCalls
  CallsReturn
CHECK_DEADLOCK FALSE
