SPECIFICATION FairSpec
CONSTANTS
  c1 = c1
  c2 = c2
  Null = Null
  Controllers = {c1, c2}
  MaxStarts = 2
  MaxHold = 1
INVARIANTS
  TypeOK
  
PROPERTIES
  WaitIsTruthful
  StartIsTruthful
  TerminationEnds
CHECK_DEADLOCK FALSE
