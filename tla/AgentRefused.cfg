SPECIFICATION FairSpec
CONSTANTS
  MaxRetries = 4
  Hosts = {1, 2}
  Missing = Missing
  Unreadable = Unreadable
  Files <- MCFiles
PROPERTY RefusalEndsAgent
CHECK_DEADLOCK FALSE
