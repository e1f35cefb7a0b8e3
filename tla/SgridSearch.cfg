\* Every command over whole, interrupted and partly unanswerable corpora.
SPECIFICATION Spec
CONSTANTS
  q1 = q1
  q2 = q2
  q3 = q3
  t1 = t1
  t2 = t2
  T2 = T2
  ab = ab
  cd = cd
  Qids <- TheQids
  TableOrder <- TheTables
  NoTable = NoTable
  Columns = {ab, cd}
  Params = {1, 2}
  Lower <- Keys
  SizeOf <- Sizes
  Huge = 1000
  Jobs <- TheJobs
  None = None
INVARIANTS
  CurveIsBest
  SelectionFits
  NoIdleTable
  CreditedByOwnFidelity
  MeasuredGetsItsCurve
