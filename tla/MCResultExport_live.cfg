CONSTANTS
  j1 = j1
  j2 = j2
  t1 = t1
  c1 = c1
  s1 = s1
  x1 = x1
  x2 = x2
  p1 = p1
  JobIds <- MCJobIds
  Hanging <- MCHanging
  Unrecorded = {}
  Tabs <- MCTabs
  Connections <- MCConnections
  Sessions <- MCSessions
  ConnectionOf <- MCConnectionOf
  Slots = {1, 2}
  NoSession = NoSession
  NoJob = NoJob
  Reserved = Reserved
  Exports <- MCOneExport
  Paths <- MCPaths
  PathOf <- MCPathOf
  Replayable <- MCReplayable
  MaxBatches = 2
SPECIFICATION MCFairSpec
PROPERTY EveryExportEnds
CHECK_DEADLOCK FALSE
