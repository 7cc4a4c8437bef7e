SPECIFICATION Spec
CONSTANTS
  t1 = t1  t2 = t2  b1 = b1  b2 = b2
  Pages = {t1, t2}
  Browsers = {b1, b2}
  Browser <- OneBrowser
  MaxTyped = 2
  MaxFlight = 2
  MaxFaults = 1
  MaxOpens = 2
  MaxClicks = 1
  RepliesInOrder = FALSE
  PromptReadBack = TRUE
  QuietLoads = FALSE
INVARIANTS
  TypeOK
  NoBlindOverwrite
  AcknowledgedIsStored
CHECK_DEADLOCK FALSE
SYMMETRY PageSymmetry
