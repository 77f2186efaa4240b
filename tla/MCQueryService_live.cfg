CONSTANTS
  j1 = j1
  j2 = j2
  j3 = j3
  t1 = t1
  t2 = t2
  c1 = c1
  c2 = c2
  s1 = s1
  JobIds <- MCJobIds
  Hanging <- MCHanging
  Unrecorded <- MCUnrecorded
  Tabs <- MCTabs
  Connections <- MCConnections
  Sessions <- MCSessions
  ConnectionOf <- MCConnectionOf
  Slots = {1, 2}
  NoSession = NoSession
  NoJob = NoJob
  Reserved = Reserved
SPECIFICATION MCFairSpec
PROPERTIES
  CancelledRunEnds
  EveryRunEnds
CHECK_DEADLOCK FALSE
