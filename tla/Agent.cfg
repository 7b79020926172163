SPECIFICATION FairSpec
CONSTANTS
  MaxRetries = 4
  Hosts = {1, 2}
  Missing = Missing
  Unreadable = Unreadable
  Files <- MCFiles
INVARIANTS TypeOK ExitIsEarned ListIsFresh
PROPERTIES ComesBack RefusalEndsUnlessTLS13 ServiceComesBack
CHECK_DEADLOCK FALSE
