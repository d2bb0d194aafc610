SPECIFICATION FairSpec
CONSTANTS
  a = a
  b = b
  t1 = t1
  NoRow = NoRow
  Ids <- MCIds
  Devices = {}
  Action <- MCAction
  Rows <- MCRows
  Stored <- MCStored
  Edits = {}
  Tasks = {t1}
  MaxRuns = 3
  MaxRuntimes = 2
  Headroom = 2
  MaxQueued = 1
  MaxParallel = 1
  MaxCallDepth = 2
PROPERTIES CallsReturn WaitersGoOn AbortEndsRun
