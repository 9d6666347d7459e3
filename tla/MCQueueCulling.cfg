SPECIFICATION FairSpec
CONSTANTS
  MaxEntries = 3
  Inputs = 1
  NBytes = 2
  MaxCost = 1
  CalChances = 2
  Variable = TRUE
INVARIANTS RefsExact TraceKept FavoredCover PendingExact
PROPERTIES WinnersStay FavoriteFuzzed
