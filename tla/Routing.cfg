SPECIFICATION FairSpec
CONSTANTS
  NUM_BUCKETS = 3
  K = 2
  self_id_ <- Self
  Network <- SmallNetwork
  NODE_GOOD_TIMEOUT = 2
  MaxAge = 3
  MAX_BUCKETS_REFRESH_PER_TICK = 1
INVARIANTS
  TableIsSound
  RefreshAsksTheBucket
PROPERTIES
  GoodNodesStay
  RefreshReachesEveryBucket
