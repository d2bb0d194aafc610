SPECIFICATION FairSpec
CONSTANTS
  r1 = r1
  r2 = r2
  a1 = a1
  a2 = a2
  Run = {r1, r2}
  Automation = {a1, a2}
  Owner <- OwnerOf
  MaxBuffer = 3
INVARIANTS TypeOK LogTellsOutcome LossIsExplained
PROPERTIES EntrySettles
CHECK_DEADLOCK FALSE
