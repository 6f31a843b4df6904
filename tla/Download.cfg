SPECIFICATION Spec
CONSTANTS
  a = a  b = b  c = c  d = d
  ChunkSize = 2
  SizeOf <- Sizes
  Versions <- AllVersions
  NodesOf <- Placement
  Serving <- SomeGood
  Stale <- OldDownloads
  Faults = {"disk_full", "row_changes"}
  MaxRuns = 2
INVARIANTS
  OutputWhole
PROPERTIES
  ProgressKept
  Delivers
CHECK_DEADLOCK FALSE
