SPECIFICATION Spec
CONSTANTS
  a = a
  d = d
  t1 = t1
  NoRow = NoRow
  Ids = {a}
  Devices = {d}
  Action <- MCAction
  Rows <- MCRows
  Stored <- RestartStored
  Edits = {}
  Tasks = {t1}
  MaxRuns = 4
  MaxRuntimes = 1
  Headroom = 1
  MaxQueued = 1
  MaxParallel = 1
  MaxCallDepth = 2
INVARIANTS RestartOneRun
