SPECIFICATION Spec
CONSTANTS
  a = a
  b = b
  d = d
  t1 = t1
  NoRow = NoRow
  Ids <- MCIds
  Devices <- MCDevices
  Action <- MCAction
  Rows <- MCRows
  Stored <- MCStored
  Tasks = {t1}
  Edits = {}
  MaxRuns = 4
  MaxRuntimes = 2
  Headroom = 2
  MaxQueued = 1
  MaxParallel = 2
  MaxCallDepth = 2
INVARIANTS TypeOK QueuedOneAtATime ActiveCountMatches NoStrandedQueue HandlesAreLive SingleOneAtATime
PROPERTIES StoppedRunsDispatchNothing
