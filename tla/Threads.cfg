SPECIFICATION FairSpec
CONSTANTS
  Threads = {t1, t2}
  Base = base
  B = 4
  S = 2
  Moduli <- Nine
  Operands <- Fives
  MaxCalls = 3
INVARIANTS IInv NeverOvercounts ExactAlone
PROPERTIES MontMulSpec CallReturns
