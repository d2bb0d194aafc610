SPECIFICATION FairSpec
CONSTANTS
  Kinds = {"lutron", "pentair"}
  MaxRestarts = 2
  Threshold = 2
  Cooldown = 4
  BaseDelay = 1
  MaxDelay = 60
INVARIANTS TypeOK NothingLeftBehind OwnerFollowsRow IdleOnlyAtDeadEnds
PROPERTIES RestartReturns RetriesEnd
CHECK_DEADLOCK FALSE
