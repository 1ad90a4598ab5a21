SPECIFICATION FairSpec
CONSTANTS
  B = 4
  S = 2
  Bufs = {x1, x2}
  MaxCount = 1
INVARIANTS IInv NoWrap RowsBelow2N
PROPERTIES MontMulSpec CallReturns
