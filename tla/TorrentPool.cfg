SPECIFICATION FairSpec
CONSTANTS
  p1 = p1
  p2 = p2
  p3 = p3
  Peers <- ThreePeers
  MaxWorkers = 2
  MaxUpload = 1
INVARIANTS
  WorkersAreCounted
  NoIdleSlot
  NoDanglingConnection
  UploadTotalsExact
PROPERTIES
  ThreadsFixedWhileJoining
  StopTerminates
