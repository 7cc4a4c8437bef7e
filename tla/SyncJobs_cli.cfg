SPECIFICATION Spec
CONSTANTS
  Server = Server
  Clis = {cli}
  Callers = {c1}
  MaxRuns = 2
  MaxEdits = 1
  MaxStarts = 2
  QuietStartup = FALSE
  LeaseOutlivesRun = TRUE
  DatabaseMayLock = FALSE
INVARIANT MutualExclusion
CHECK_DEADLOCK FALSE
