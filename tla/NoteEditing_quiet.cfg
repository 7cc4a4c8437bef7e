SPECIFICATION FairSpec
CONSTANTS
  t1 = t1  t2 = t2  b1 = b1  b2 = b2
  Pages = {t1, t2}
  Browsers = {b1, b2}
  Browser <- TwoBrowsers
  MaxTyped = 2
  MaxFlight = 2
  MaxFaults = 1
  MaxOpens = 2
  MaxClicks = 2
  RepliesInOrder = TRUE
  PromptReadBack = TRUE
  QuietLoads = TRUE
INVARIANT SavedMeansSaved
PROPERTIES
  EditsSettle
  RegisterSpec
CHECK_DEADLOCK FALSE
