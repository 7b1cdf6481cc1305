SPECIFICATION FairSpec
CONSTANTS
  w1 = w1
  w2 = w2
  r1 = r1
  r2 = r2
  Null = Null
  Writers = {w1, w2}
  Readers = {r1, r2}
  Granularity = 2
  MaxLen = 2
  MaxBytes = 3
INVARIANTS
  TypeOK
  BytesInOrder
PROPERTIES
  ImplementsPipe
  ReadersReturn
CHECK_DEADLOCK FALSE
