SPECIFICATION Spec
CONSTANTS
  PMP_COUNT = 2
  CSR_BYTES = 2
  XLEN = 6
  RESET_ADDR = 7
  MEM_START = 8
  MEM_END = 24
  CsrOps = {"write"}
  CfgWrites <- CfgOperands
  AddrWrites <- AddrOperands
INVARIANTS LockedInForce ShortCircuitSound AlignedGrantSound
PROPERTY LockedFrozen
