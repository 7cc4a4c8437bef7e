SPECIFICATION Spec
CONSTANTS
  t1 = t1  t2 = t2  p1 = p1  p2 = p2  n1 = n1  n2 = n2
  Requests = {t1, t2}
  Papers = {p1, p2}
  Names = {n1, n2}
  NoName = NoName
  MaxGroups = 2
  MaxChanges = 4
  MaxRequests = 2
INVARIANTS
  TypeOK
  SavedXorDismissed
  GroupedAreSaved
  RefusedChangesNothing
  SettledIsNotShown
CHECK_DEADLOCK FALSE
SYMMETRY LibrarySymmetry
