SPECIFICATION Spec
CONSTANTS
  Operations = {"LayerNorm", "Add", "Gelu", "Softmax"}
  RowCounts <- MCRowCounts
  RowLengths = {2, 3}
  MaxBatch = 2
  CoreWidth = 2
  VectorCoreWidth = 4
  SramLimit = 25
  WordSize = 65536
INVARIANTS
  RowsStoredOnce
  RowsInTensor
  SourcesLoaded
  TileFits
PROPERTIES
  TilesMade
