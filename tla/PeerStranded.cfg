SPECIFICATION Spec
CONSTANTS
  t1 = t1
  t2 = t2
  NumPieces = 2
  NominalLength = 2
  TotalLength = 3
  Threads <- TwoThreads
  Steady <- NoThread
  DiskMayFail = TRUE
  MaxHashFailures = 1
INVARIANT NoStrandedPiece
