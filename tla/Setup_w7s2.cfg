SPECIFICATION FairSpec
CONSTANTS
  B = 128
  S = 2
  W = 7
  NewtonSteps = 2
  Moduli <- BoundaryModuli
INVARIANTS IInv ContextUsable
PROPERTY ConstructionEnds
