SPECIFICATION SvFairSpec
CONSTANTS
  Pid = {p1, p2}
  NoPid = NoPid
  StalePid = StalePid
  Commands = {}
  LogCommands = {}
  QLen = 0
  FsFaults = FALSE
  Scripts = FALSE
  Actions <- Acts
  wait = 0
  sec = 1
  MaxClock = 1
INVARIANTS SkipsOnlyDone RestartReplaces ReportHolds
PROPERTY ClientEnds
CHECK_DEADLOCK FALSE
