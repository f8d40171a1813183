SPECIFICATION FairSpec
CONSTANTS
  Ints = {7, 9}
  Excs = {3}
  CsrOps = {"write"}
  StatusWrites <- StatusOperands
  IntWrites <- IntOperands
  ExcWrites = {{}, {8}}
INVARIANT NoneMissed
PROPERTIES FrameKept InterruptsTaken
