SPECIFICATION Spec
CONSTANTS
  p1 = p1
  p2 = p2
  Producers = {p1, p2}
  RingSize = 2
  BufferSize = 1
  LineLens = {1}
  MaxBytes = 3
  MaxDrops = 2
  MaxErrors = 0
  MaxOpens = 2
SYMMETRY ProducerSymmetry
INVARIANTS StatsExact
