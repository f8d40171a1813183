SPECIFICATION Spec
CONSTANTS
  LEVELS = 2
  FANOUT = 2
  TLB_SIZE = 2
  tlb_hash <- Hash
  Tables = {8, 9}
  Root = 8
  DataFrames = {4, 5}
  PmpConfigs <- Configs
  PteWrites <- Writes
INVARIANTS TlbIndexed TlbCoherent HitsAgree
PROPERTY OnlyMarks
