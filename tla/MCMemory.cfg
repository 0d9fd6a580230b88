SPECIFICATION Spec
CONSTANTS
  Alignment = 4
  RowBytes = 8
  RowsPerBank = 16
  ActBufSize = 17
  NumChannels = 2
  BanksPerCh = 2
  ElePerRow = 2
  NumEmbd = 3
  Weights <- SomeWeights
  ActSizes = {5}
  Requests <- ThreeRequests
  MaxTokens = 1
  RunModes = {"NPU_ONLY", "NPU_PIM"}
  ActiveReqs = {2, 3, 5}
  MaxSeqLen = 7
  NumHeads = 2
  HeadDim = 2
  Precision = 2
  EntrySize = 2
  HbmSize = 160
  WordSize = 256
INVARIANTS
  RegionsDisjoint
  RowsExclusive
  TokensApart
CHECK_DEADLOCK FALSE
