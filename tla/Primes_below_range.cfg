SPECIFICATION Spec
CONSTANTS
  SmallPrimes = {2, 3}
  Scan = 4
  Rounds = 1
  Tasks <- NonPowerTasks
CHECK_DEADLOCK FALSE
INVARIANT BelowCovers
