SPECIFICATION ApiSpec
CONSTANTS
  B = 4
  S = 2
  W = 2
  Bufs = {x1, x2, x3}
  Contexts <- SomeContexts
  Numbers <- SomeNumbers
INVARIANTS ApiInv BuffersReduced
PROPERTY RingSpec
