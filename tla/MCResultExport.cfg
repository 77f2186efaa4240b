CONSTANTS
  j1 = j1
  j2 = j2
  t1 = t1
  c1 = c1
  s1 = s1
  x1 = x1
  x2 = x2
  p1 = p1
  JobIds <- MCJobIds
  Hanging = {}
  Unrecorded = {}
  Tabs <- MCTabs
  Connections <- MCConnections
  Sessions <- MCSessions
  ConnectionOf <- MCConnectionOf
  Slots = {1}
  NoSession = NoSession
  NoJob = NoJob
  Reserved = Reserved
  Exports <- MCExports
  Paths <- MCPaths
  PathOf <- MCPathOf
  Replayable <- MCReplayable
  MaxBatches = 2
SYMMETRY MCSymmetry
SPECIFICATION MCSpec
INVARIANTS
  ExportTypeOK
  TrackedMatchesExports
  CancelReachesExport
  FileMatchesOutcome
PROPERTY TerminalEventIsLast
CHECK_DEADLOCK FALSE
