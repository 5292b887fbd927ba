SPECIFICATION Spec
CONSTANTS
  t1 = t1
  t2 = t2
  Threads <- TwoThreads
  Layouts <- SmallLayouts
  PieceSizes <- SmallSizes
  DiskMayFail = TRUE
SYMMETRY TwoSymmetric
INVARIANTS
  
  
  SomeCallProceeds
