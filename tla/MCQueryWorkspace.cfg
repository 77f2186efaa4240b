CONSTANTS
  j1 = j1
  j2 = j2
  t1 = t1
  t2 = t2
  JobIds <- MCTwoCalls
  Tabs <- MCTwoTabs
  NoJob = NoJob
  EventBuffer = 3
  Outcomes = {"completed", "failed"}
SYMMETRY MCSymmetry
CONSTRAINT MCInOrder
SPECIFICATION WorkspaceSpec
INVARIANTS
  WorkspaceTypeOK
  ShownRunIsCancellable
  FreeTabCanRun
  KeptResultIsShown
CHECK_DEADLOCK FALSE
