SPECIFICATION Spec
CONSTANTS
  Interval = 2
  Ttl = 4
  MaxTime = 4
  h1 = h1
  h2 = h2
  p1 = p1
  p2 = p2
  p3 = p3
  Hashes <- TwoHashes
  Peers <- ThreePeers
  MAX_PEERS_PER_HASH = 2
  MAX_INFO_HASHES = 1
  PEER_ENTRY_TTL = 2
SYMMETRY Symmetry
INVARIANTS
  TokenOutlivesRotation
  KeepsFreshest
PROPERTY ExpiryIsInvisible
