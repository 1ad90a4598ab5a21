SPECIFICATION FairSpec
CONSTANTS
  B = 4
  S = 3
  W = 2
  Per = 2
  Ten = 3
  Regs = {x1, x2}
  Limit = 20
  Vectors <- SomeVectors
  Texts <- SomeTexts
  Shifts = {0, 1, 2, 3, 5}
INVARIANTS IInv ObserversRight ArithmeticRight EuclidInv
PROPERTIES ReturnsRight LoopEnds
