SPECIFICATION FairSpec
CONSTANTS
  p1 = p1  p2 = p2  kA = kA  kB = kB
  Papers = {p1, p2}
  Keywords = {kA, kB}
  Matches <- MCMatches
  Horizons = {2}
  Overlap = 2
  Lag = 1
  BatchSize = 1
  MaxTime = 2
  MaxEvents = 2
  MaxLeftOut = 2
  MidCrawlEdits = 1
  QuickEdits = TRUE
INVARIANTS
  TypeOK
  LostOnlyIfLeftOut
  NoStaleProvenance
PROPERTY FeedConverges
CHECK_DEADLOCK FALSE
