\* A fit that was killed, and the one that is run after it, on a table on which
\* nobody else has put a statistic.
SPECIFICATION Spec
CONSTANTS
  c1 = c1
  c2 = c2
  q1 = q1
  q2 = q2
  alien = alien
  probe0 = probe0
  probe1 = probe1
  Queries = {q1, q2}
  Candidates = {c1, c2}
  CandsOf <- Split
  LevelSeq <- TwoLevels
  Ladder <- TwoTargets
  Grid = {50}
  NumRows = 2400000
  MaxTarget = 10000
  Foreign = {probe0, probe1}
  ForeignTargets = {2000}
  MayBeEmpty = {c1}
  ColumnPin = 100
  Unset = Unset
  Null = Null
  NoReading = NoReading
  NoKeep = NoKeep
  NoSuch = NoSuch
  NoJob = NoJob
  Jobs = {"fit"}
  Scripts = {"census", "order", "stceb"}
  KeepChoices <- OneKeep
  ProbesAt <- OneProbe
  MaxRuns = 2
  MaxFaults = 1
INVARIANTS
  BareArmIsBare
