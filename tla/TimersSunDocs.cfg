SPECIFICATION Spec
CONSTRAINT OneKind
CONSTANTS
  sunset = sunset
  a1 = a1
  a2 = a2
  on = on
  off = off
  Any = Any
  Absent = Absent
  Sun = {sunset}
  Target <- TargetOf
  Watches <- WatchesOf
  Attr = {a1, a2}
  Values = {on, off}
  Day = 3
  MaxTime = 5
  MaxReloads = 2
PROPERTIES RecalculatesAll
CHECK_DEADLOCK FALSE
