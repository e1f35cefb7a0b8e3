\* Large table, default levels: both levels sample a part of the table.
SPECIFICATION Spec
CONSTANTS
  c1 = c1
  c2 = c2
  q1 = q1
  q2 = q2
  foreign = foreign
  Queries = {q1, q2}
  Candidates = {c1, c2}
  CandsOf <- Split
  LevelSeq <- DefaultLevels
  Ladder <- DefaultLadder
  Grid = {50, 1000}
  NumRows = 2400000
  MaxTarget = 10000
  Foreign = {foreign}
  ForeignTargets = {500}
  MayBeEmpty = {c2}
  ColumnPin = 100
  Unset = Unset
  Null = Null
  MaxFaults = 1
  NoFile = NoFile
  NoReading = NoReading
INVARIANTS
  SameStatePairing
  OneObjectAtATime
PROPERTIES
  ImplementsMeasurement
