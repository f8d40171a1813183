SPECIFICATION Spec
CONSTANTS
  Writers = {h1}
  IBUF_SIZE = 3
  MaxWrites = 2
  MaxSpurious = 0
  LsrWrites = {}
INVARIANT NothingLost
CHECK_DEADLOCK FALSE
