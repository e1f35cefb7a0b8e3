\* Default levels; level 1 reads the whole table, a multiple of 300 rows.
SPECIFICATION FairSpec
CONSTANTS
  c1 = c1
  c2 = c2
  q1 = q1
  q2 = q2
  foreign = foreign
  Queries = {q1, q2}
  Candidates = {c1, c2}
  CandsOf <- Split
  LevelSeq <- DefaultLevels
  Ladder <- DefaultLadder
  Grid = {50, 500}
  NumRows = 150000
  MaxTarget = 10000
  Foreign = {foreign}
  ForeignTargets = {500}
  MayBeEmpty = {c2}
  ColumnPin = 100
  Unset = Unset
  Null = Null
  MaxFaults = 2
  NoFile = NoFile
  NoReading = NoReading
INVARIANTS
  TypeOK
  ReadSeesOnlyItsObject
  ReadSeesItsPayload
  SameStatePairing
  BaselineAtLevelDepth
PROPERTIES
  ImplementsMeasurement
  EventuallyMeasured
