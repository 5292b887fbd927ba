SPECIFICATION BlockFairSpec
CONSTANTS
  t1 = t1
  t2 = t2
  NumPieces = 2
  NominalLength = 3
  TotalLength = 5
  BLOCK_SIZE = 2
  MAX_PIPELINE = 1
  Modulus = 3
  Threads <- TwoThreads
  Steady <- OtherThread
  Watched <- OneThread
  DiskMayFail = FALSE
  MaxHashFailures = 1
INVARIANTS
  AnswerIsDue
PROPERTIES
  PieceEnds
