SPECIFICATION FairSpec
CONSTANTS
  MinBits = 6
  MaxOver = 2
  Wanted <- SomeKeys
CHECK_DEADLOCK FALSE
INVARIANTS KeySound NeverThrows IInv CrtIsPlain
PROPERTIES TrapdoorSpec Responds
