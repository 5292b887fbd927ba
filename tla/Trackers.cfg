SPECIFICATION FairAnnounceSpec
CONSTANTS
  MAX_RETRANSMISSIONS = 3
  MaxAddresses = 2
  MaxAnnounces = 3
INVARIANT PeersAnswerThisAnnounce
PROPERTY AnnounceReturns
