SPECIFICATION Spec
CONSTANTS
  Pid = {p1, p2, p3}
  NoPid = NoPid
  StalePid = StalePid
  Commands = {"d", "u", "x", "t", "p", "c", "o", "a"}
  LogCommands = {"d", "u"}
  QLen = 1
  FsFaults = FALSE
  Scripts = TRUE
SYMMETRY Symmetry
INVARIANTS ChildrenKept StatusFresh
PROPERTY FollowsLifeCycle
CHECK_DEADLOCK FALSE
