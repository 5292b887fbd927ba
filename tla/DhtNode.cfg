SPECIFICATION FairSpec
CONSTANTS
  h1 = h1
  n1 = n1
  Hashes <- OneHash
  Nodes <- OneNode
  kMinGoodEntriesToSkipBootstrap = 1
INVARIANTS
  NothingOutlivesStop
  StopIsPrompt
  
PROPERTIES
  TorrentsAreLookedUp
  NeverIsolated
