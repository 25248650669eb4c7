SPECIFICATION LiveSpec
CONSTANTS
  Pid = {p1, p2}
  NoPid = NoPid
  StalePid = StalePid
  Commands = {"d", "u", "x", "p"}
  LogCommands = {}
  QLen = 1
  FsFaults = FALSE
  Scripts = FALSE
PROPERTIES UpRuns DownStops ExitLeaves
CHECK_DEADLOCK FALSE
