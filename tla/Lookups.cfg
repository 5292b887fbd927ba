SPECIFICATION FairSpec
CONSTANTS
  h1 = h1
  h2 = h2
  x1 = x1
  x2 = x2
  Hashes <- TwoHashes
  Nodes <- TwoNodes
  Txns <- TwoTxns
  K = 2
  LOOKUP_ALPHA = 1
  GET_PEERS_TXN_TTL = 1
  GET_PEERS_LOOKUP_TTL = 2
INVARIANTS
  TxnsRouted
  ClosestIsAsked
PROPERTY LookupsEnd
