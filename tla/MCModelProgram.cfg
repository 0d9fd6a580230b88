SPECIFICATION Spec
CONSTANTS
  EndToEnd = {FALSE, TRUE}
  LayerCounts = {1, 2}
  TpSizes = {1, 2}
  NumHead = 2
  NumEmbd = 4
  InputSizes = {1, 2, 3}
  MaxBatch = 2
  MaxIterations = 2
INVARIANTS
  ListedOperationsRun
  LayersInOrder
  ShapesFit
PROPERTIES
  ProgramsFinish
CHECK_DEADLOCK FALSE
