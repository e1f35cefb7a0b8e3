\* All modes, ladders and budgets.
SPECIFICATION IlpSpec
CONSTANTS
  ab0 = ab0
  ab1 = ab1
  bc2 = bc2
  de0 = de0
  t1 = t1
  t2 = t2
  q1 = q1
  q2 = q2
  Calls <- Arguments
  None = None
INVARIANTS
  OptimalDeployment
  ServedByBestCreated
  ReportCoversMaintenance
