SPECIFICATION Spec
CONSTANTS
  NumRequests = 1
  Channel <- MCChannel1
  InputSize <- MCInputSize1
  NumChannels = 2
  Dim <- MCDim
  MaxBatchSize = 4
  MaxActiveReqs = 4
  Configs <- SubBatches
  MaxTiles = 1
  NumCores = 1
  NoProgram = NoProgram
INVARIANT InitBatchesOnce
