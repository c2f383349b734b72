SPECIFICATION Spec
CONSTANTS
  p1 = p1
  Producers = {p1}
  RingSize = 2
  BufferSize = 2
  LineLens = {1, 2}
  MaxBytes = 3
  MaxDrops = 1
  MaxErrors = 1
  MaxOpens = 2
INVARIANTS TypeOK LogFaithful LogEndsWithLine
PROPERTY Drains
