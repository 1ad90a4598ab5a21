SPECIFICATION FairSpec
CONSTANTS
  SmallPrimes = {2, 3}
  Scan = 4
  Rounds = 1
  Tasks <- BelowTasks
CHECK_DEADLOCK FALSE
PROPERTY BelowReturns
