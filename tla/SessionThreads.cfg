SPECIFICATION FairSpec
CONSTANTS
  s1 = s1
  s2 = s2
  Torrents <- TwoTorrents
INVARIANTS
  NoPeerAfterStop
  SummariesAreRight
  PortMappingLivesWithSession
PROPERTY SessionEnds
