CONSTANTS
  NoPid = NoPid
  None = None
  Dir = {d1, d2}
  Ino = {s1, s2}
  Pid = {p1, p2, p3}
  MAXSERVICES = 2
  Faults = {"svdir", "chdir", "opendir", "readdir", "stat", "fork"}
  MaxFaults = 1
  MaxChanges = 2
SPECIFICATION Spec
SYMMETRY Symmetry
INVARIANT TableSound
PROPERTY KeepsPresent
