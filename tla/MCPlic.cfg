SPECIFICATION QuietSpec
CONSTANTS
  Threads = {"main", "uart", "hart"}
  Bits = {9, 11}
  PLIC_SOURCE_COUNT = 2
  UART_SOURCE = 1
  MaxPrio = 2
  MaxWrites = 1
INVARIANTS TypeOK ClaimIsHighest
PROPERTY Signalled
