SPECIFICATION FairSpec
CONSTANTS
  t1 = t1
  t2 = t2
  NumPieces = 2
  NominalLength = 2
  TotalLength = 3
  Threads <- TwoThreads
  Steady <- OneThread
  DiskMayFail = TRUE
  MaxHashFailures = 2
INVARIANTS
  ExclusiveOwner
  ClaimHasOwner
  SingleWriter
  NeverIdleWithWork
  CompleteMeansStored
PROPERTIES
  PieceSteps
  ImplementsPieceStore
  EventuallyComplete
