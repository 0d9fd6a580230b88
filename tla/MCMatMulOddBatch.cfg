SPECIFICATION Spec
CONSTANTS
  Width = 2
  SramLimit = 24
  HasBias = TRUE
  Shapes <- OddBatch
  Batches = 1
  WordSize = 65536
INVARIANTS
  IndexesInRange
