CONSTANTS
  j1 = j1
  j2 = j2
  t1 = t1
  t2 = t2
  JobIds <- MCTwoCalls
  Tabs <- MCTwoTabs
  NoJob = NoJob
  EventBuffer = 12
  Outcomes = {"completed", "failed"}
SPECIFICATION WorkspaceSpec
INVARIANT IdleTabCanRun
CHECK_DEADLOCK FALSE
