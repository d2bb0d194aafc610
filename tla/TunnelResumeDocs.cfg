SPECIFICATION FairSpec
CONSTANTS
  r1 = r1
  s1 = s1
  None = None
  Requests = {}
  Sessions = {s1}
  MaxConn = 2
  MaxChunks = 1
  MaxVersion = 1
  MaxVerify = 1
PROPERTY ServiceResumes
CHECK_DEADLOCK FALSE
