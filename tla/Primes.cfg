SPECIFICATION FairSpec
CONSTANTS
  SmallPrimes = {2, 3}
  Scan = 4
  Rounds = 2
  Tasks <- SearchTasks
CHECK_DEADLOCK FALSE
INVARIANTS IInv VerdictSound WitnessDrawable GeneratedWidth
PROPERTY TaskEnds
