\* Three statistics and three queries: every profile up to renaming of queries.
SPECIFICATION Spec
CONSTANTS
  q1 = q1
  q2 = q2
  q3 = q3
  Queries = {q1, q2, q3}
  NumStats = 3
  Errors = {1, 2}
  Unmeasured = Unmeasured
SYMMETRY AnyQuery
INVARIANTS
  OrderComplete
  SortedBestServes
  AcyclicExact
