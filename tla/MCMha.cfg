SPECIFICATION Spec
CONSTANTS
  Operations = {"LogitSoftmax", "Attend", "PIMGEMV", "PIMGEMVSoftmax", "PIMGEMVAdd"}
  SeqLens <- MCSeqLens
  MaxBatch = 3
  NumEmbd = 24
  Dk = 4
  TpSizes = {1, 2}
  PageSize = 16
  Banks = 2
  FixedBanks = 2
  CompCoverage = 2
  Precision = 2
  SpadSize = 600
  AddLimit = 100
INVARIANTS
  SourcesLoaded
  OutputsStored
  HeadersAnnounce
  RowsInTensor
  CutFits
