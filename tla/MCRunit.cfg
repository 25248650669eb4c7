CONSTANTS
  n1 = n1
  n2 = n2
  Inits = {n1, n2}
  Polls = 1
  ExecFails = TRUE
SPECIFICATION FairSpec
INVARIANT ShutdownOrderly
PROPERTIES RequestHonoured ShutdownEnds
