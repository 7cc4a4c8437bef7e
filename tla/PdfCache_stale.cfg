SPECIFICATION Spec
CONSTANTS
  Openers = {e1}
  Updaters = {sync}
  MaxVersion = 2
  VersionedUrl = TRUE
INVARIANTS
  SupersededIsStale
CHECK_DEADLOCK FALSE
