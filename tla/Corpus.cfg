\* All commands but the one that goes by existence, beside refreshes.
SPECIFICATION FairSpec
CONSTANTS
  NumQueries = 2
  NumWorkers = 2
  Levels = {0, 1}
  Grid = {50, 500}
  MaxParam <- Caps
  Pads = {10}
  Drivers = {"sgrid", "mirror", "stceb", "pad"}
  MaxFaults = 2
  Absent = Absent
  Torn = Torn
INVARIANTS
  OneWriter
  CleanEndIsComplete
  PadDeclaresWhatIsThere
PROPERTIES
  MetaHeals
  MeasuredIsKept
  EventuallyComplete
