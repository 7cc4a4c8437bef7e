SPECIFICATION Spec
CONSTANTS
  Openers = {e1, e2}
  Updaters = {sync, search}
  MaxVersion = 2
  VersionedUrl = TRUE
INVARIANTS
  TypeOK
  ReadyIsIntact
  AtMostOneFresh
  LabelMatchesContent
  SupersededUnlessOvertaken
PROPERTIES
  LoneFailureKeepsTheCache
SYMMETRY ThreadSymmetry
CHECK_DEADLOCK FALSE
