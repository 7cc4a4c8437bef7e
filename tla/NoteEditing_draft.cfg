SPECIFICATION Spec
CONSTANTS
  t1 = t1  t2 = t2  b1 = b1  b2 = b2
  Pages = {t1}
  Browsers = {b1, b2}
  Browser <- OneBrowser
  MaxTyped = 2
  MaxFlight = 2
  MaxFaults = 0
  MaxOpens = 1
  MaxClicks = 0
  RepliesInOrder = TRUE
  PromptReadBack = TRUE
  QuietLoads = TRUE
INVARIANTS
  DraftIsSafe
CHECK_DEADLOCK FALSE
