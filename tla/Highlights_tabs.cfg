SPECIFICATION Spec
CONSTANTS
  t1 = t1  t2 = t2  d1 = d1  d2 = d2
  Pages = {t1, t2}
  Docs = {d1, d2}
  NoDoc = NoDoc
  MaxIds = 1
  MaxMarks = 2
  MaxNotes = 3
  MaxLoads = 3
  MaxFaults = 1
  MaxEvents = 6
  PromptReadBack = TRUE
INVARIANTS
  TypeOK
  HighlightsAreBound
  NoBlindNote
CHECK_DEADLOCK FALSE
SYMMETRY HighlightsSymmetry
