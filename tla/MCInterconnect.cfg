SPECIFICATION FairSpec
CONSTANTS
  NumCores = 2
  NumMemories = 2
  Latency = 1
  Access <- Contended
INVARIANTS
  AccessesConserved
  DramOrder
PROPERTIES
  EveryAccessAnswered
