SPECIFICATION FairSpec
CONSTANTS
  Crawler = crawler
  Searchers = {search}
  NoOne = NoOne
  PageSize = 2
  Retries = 2
  Delay = 1
  Partial <- SecondPartial
  MaxListed = 3
  MaxChanges = 2
  MaxSearches = 1
INVARIANTS
  TypeOK
  OnlyTheTailIsMissed
PROPERTIES
  RequestsAreSpaced
  CrawlEnds
  StreamSpec
CHECK_DEADLOCK FALSE
