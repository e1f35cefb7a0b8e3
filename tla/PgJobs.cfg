\* One table, four commands of any kind, up to three of them cut short.
SPECIFICATION Spec
CONSTANTS
  c1 = c1
  c2 = c2
  q1 = q1
  q2 = q2
  alien = alien
  probe0 = probe0
  probe1 = probe1
  Queries = {q1, q2}
  Candidates = {c1, c2}
  CandsOf <- Split
  LevelSeq <- TwoLevels
  Ladder <- TwoTargets
  Grid = {50}
  NumRows = 2400000
  MaxTarget = 10000
  Foreign = {alien, probe0, probe1}
  ForeignTargets = {2000}
  MayBeEmpty = {c1}
  ColumnPin = 100
  Unset = Unset
  Null = Null
  NoReading = NoReading
  NoKeep = NoKeep
  NoSuch = NoSuch
  NoJob = NoJob
  Jobs = {"isolate", "fit", "deploy"}
  Scripts = {"census", "order", "stceb"}
  KeepChoices <- TwoKeeps
  ProbesAt <- OneProbe
  MaxRuns = 4
  MaxFaults = 3
INVARIANTS
  MarginalIsOfTheProbes
  DeployedAsOrdered
  DeployedInLevelState
PROPERTIES
  ImplementsIsolation
