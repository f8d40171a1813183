SPECIFICATION FairSpec
CONSTANTS
  IBUF_SIZE = 2
  MaxIn = 5
INVARIANTS TypeOK CountExact ReadInOrder
PROPERTY PollingWorks
