SPECIFICATION Spec
CONSTANTS
  NumRequests = 3
  Channel <- MCChannel3
  InputSize <- MCInputSize3
  NumChannels = 2
  Dim <- MCDim
  MaxBatchSize = 4
  MaxActiveReqs = 4
  Configs <- MCConfigs
  MaxTiles = 2
  NumCores = 2
  NoProgram = NoProgram
INVARIANTS
  TilesAccounted
  ExecutableFront
  LayerOrder
  StagesLogged
  RequestsConserved
PROPERTIES
  Termination
  ImplementsPipeline
