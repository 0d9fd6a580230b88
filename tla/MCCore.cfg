CONSTANTS
  A = A  W = W  X = X  Y = Y
  Program <- MixedTiles
  SpadAddr <- MCSpadAddr
  AccAddr <- MCAccAddr
  SpadSize = 1
  AccSize = 1
  NumVpus = 2
SPECIFICATION FairSpec
INVARIANTS
  BuffersNotShared
  CountersExact
  FinishedTilesAreQuiet
  FillsAreExpected
  ReservationsFit
PROPERTIES
  TilesFinish
