SPECIFICATION HostFairSpec
CONSTANTS
  Pids = {p1, p2}
  NoPid = NoPid
  Tools = {t1}
  Commands = {"start", "stop", "restart", "run", "install"}
  Patient = TRUE
  Releases = {1, 2}
  Torn = Torn
  NoFile = NoFile
INVARIANTS HostTypeOK OneAgent StopWorks ExecutableRuns
PROPERTIES RestartPicksUp StopEnds
CHECK_DEADLOCK FALSE
