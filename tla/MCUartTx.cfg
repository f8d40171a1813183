SPECIFICATION FairSpec
CONSTANTS
  Writers = {h1}
  IBUF_SIZE = 3
  MaxWrites = 3
  MaxSpurious = 1
  LsrWrites = {{}}
INVARIANTS TxInBounds PrintedInOrder
PROPERTIES SpinEnds TextDrains ThreReturns ShutdownEnds
CHECK_DEADLOCK FALSE
