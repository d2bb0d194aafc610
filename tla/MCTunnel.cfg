SPECIFICATION FairSpec
CONSTRAINT OneKindOfUser
ACTION_CONSTRAINT FaultsAfterRegistration
CONSTANTS
  r1 = r1
  s1 = s1
  None = None
  Requests = {r1}
  Sessions = {s1}
  MaxConn = 2
  MaxChunks = 1
  MaxVersion = 2
  MaxVerify = 1
INVARIANTS TypeOK EntryHasOwner CompleteBody OnlyVerified HomeOneSocket ViewIsCurrent
PROPERTIES RelaySpec RequestsAnswered
CHECK_DEADLOCK FALSE
