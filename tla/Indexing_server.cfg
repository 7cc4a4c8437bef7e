SPECIFICATION FairSpec
CONSTANTS
  Papers = {p1, p2}
  Executor = executor
  Commands = {command}
  Pages = {search}
  Readers = {reader}
  NoOne = NoOne
  BatchSize = 1
  Seconds = {1, 2}
  MaxChanges = 2
  MaxEvents = 1
INVARIANTS
  TypeOK
  VectorsMatchTheirHash
  OwnVectorsAreServed
PROPERTY EverythingIsIndexed
CHECK_DEADLOCK FALSE
