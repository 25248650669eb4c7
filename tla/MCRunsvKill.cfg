SPECIFICATION Spec
CONSTANTS
  Pid = {p1, p2, p3}
  NoPid = NoPid
  StalePid = StalePid
  Commands = {"d", "u", "x", "k"}
  LogCommands = {"k", "x"}
  QLen = 1
  FsFaults = FALSE
  Scripts = FALSE
SYMMETRY Symmetry
INVARIANT SafeUnderKill
CHECK_DEADLOCK FALSE
