\* One table with an alien group, four commands, three faults and one lost drop.
SPECIFICATION Spec
CONSTANTS
  a = a
  b = b
  x = x
  Groups = {a, b, x}
  LevelSeq <- TwoLevels
  SRows <- Ladder
  TableRows = 100000
  Param = Param
  SizeAuto = SizeAuto
  Absent = Absent
  NoJob = NoJob
  NoKeep = NoKeep
  NoReading = NoReading
  Jobs = {"caller", "k2", "measure", "worker", "fit", "deploy"}
  KeepChoices <- SomeKeeps
  K2Keeps <- StudyKeeps
  Candidates = {a, b}
  Probes = {a}
  MaxRuns = 4
  MaxFaults = 3
  MaxLost = 1
INVARIANTS
  ReadsExactlyKeep
  MeasuredAlone
  SameDepthPairing
  MarginalIsOfTheProbes
  DeployedAsSelected
PROPERTIES
  ImplementsIsolation
