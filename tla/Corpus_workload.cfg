\* The command that goes by a file's existence.
SPECIFICATION Spec
CONSTANTS
  NumQueries = 2
  NumWorkers = 1
  Levels = {0, 1}
  Grid = {50, 500}
  MaxParam <- Caps
  Pads = {10}
  Drivers = {"workload"}
  MaxFaults = 2
  Absent = Absent
  Torn = Torn
INVARIANTS
  CleanEndIsComplete
