\* A table smaller than 300 * the pin.
SPECIFICATION Spec
CONSTANTS
  c1 = c1
  c2 = c2
  q1 = q1
  q2 = q2
  foreign = foreign
  Queries = {q1, q2}
  Candidates = {c1, c2}
  CandsOf <- Split
  LevelSeq <- DefaultLevels
  Ladder <- DefaultLadder
  Grid = {50, 1000}
  NumRows = 15000
  MaxTarget = 10000
  Foreign = {}
  ForeignTargets = {500}
  MayBeEmpty = {}
  ColumnPin = 100
  Unset = Unset
  Null = Null
  MaxFaults = 0
  NoFile = NoFile
  NoReading = NoReading
INVARIANTS
  SameStatePairing
