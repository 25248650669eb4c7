CONSTANTS
  linemax = 2
  buflen = 2
  nmax = 1
  nmin = 0
  Configs <- LogConfigs
  MaxBytes = 4
  MaxFaults = 1
SPECIFICATION SvlogdFairSpec
INVARIANTS LogComplete LineIntact
PROPERTIES WithinLimits EofExits
CHECK_DEADLOCK FALSE
