CONSTANTS
  A = A  W = W  X = X  Y = Y
  Program <- Product
  SpadAddr <- MCSpadAddr
  AccAddr <- MCAccAddr
  SpadSize = 1
  AccSize = 1
  NumVpus = 1
SPECIFICATION Spec
INVARIANTS
  StoresFollowComputations
