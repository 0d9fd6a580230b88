SPECIFICATION Spec
CONSTANTS
  Width = 2
  SramLimit = 24
  HasBias = TRUE
  Shapes <- AllShapes
  Batches = 2
  WordSize = 65536
INVARIANTS
  SidesCovered
  SourcesLoaded
  OutputsComplete
  PowersInRange
PROPERTIES
  TilesMade
