SPECIFICATION Spec
CONSTANTS
  a = a
  d = d
  t1 = t1
  t2 = t2
  NoRow = NoRow
  Ids = {a}
  Devices = {d}
  Action <- MCAction
  Rows <- MCRows
  Stored <- MCStored
  Edits <- MCEdits
  Tasks = {t1, t2}
  MaxRuns = 3
  MaxRuntimes = 3
  Headroom = 1
  MaxQueued = 1
  MaxParallel = 1
  MaxCallDepth = 2
INVARIANTS HandlesAreLive RegistrationMatchesRow
PROPERTIES TornDownStaysQuiet
SYMMETRY TaskSymmetry
VIEW LiveView
