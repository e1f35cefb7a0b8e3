\* Three statistics and three queries: every profile up to renaming of queries.
SPECIFICATION AscendingSpec
CONSTANTS
  Queries = {1, 2, 3}
  NumStats = 3
  Errors = {1, 2}
  Unmeasured = Unmeasured
INVARIANTS
  OnlyCutPreferencesYield
  CutsIffCyclic
PROPERTIES
  Terminates
