SPECIFICATION FairSpec
CONSTANTS
  r1 = r1
  s1 = s1
  None = None
  Requests = {r1}
  Sessions = {}
  MaxConn = 1
  MaxChunks = 1
  MaxVersion = 1
  MaxVerify = 1
PROPERTY TornDownSeesEOF
CHECK_DEADLOCK FALSE
