CONSTANTS
  NoPid = NoPid
  None = None
  Dir = {d1}
  Ino = {s1, s2}
  Pid = {p1, p2}
  MAXSERVICES = 1
  Faults = {"svdir", "chdir", "readdir", "fork"}
  MaxFaults = 1
  MaxChanges = 2
SPECIFICATION FairSpec
PROPERTIES Supervised Unsupervised
