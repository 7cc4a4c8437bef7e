SPECIFICATION FairSpec
CONSTANTS
  Server = Server
  Clis = {cli}
  Callers = {c1, c2}
  MaxRuns = 3
  MaxEdits = 2
  MaxStarts = 2
  QuietStartup = TRUE
  LeaseOutlivesRun = TRUE
  DatabaseMayLock = TRUE
INVARIANTS
  TypeOK
  MutualExclusion
  RequestsAreCovered
PROPERTIES
  StatusMovesForward
  SerialSpec
  RequestIsServed
  RunsFinish
CHECK_DEADLOCK FALSE
