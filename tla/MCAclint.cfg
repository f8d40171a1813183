SPECIFICATION FairSpec
CONSTANTS
  Threads = {"main", "hart", "uart"}
  Bits = {3, 7, 9}
  CsrValues = {{}, {9}, {3, 7, 9}}
  MtimeWrites = {TRUE, FALSE}
INVARIANT TypeOK
PROPERTIES TimerRaised TimerFalls SwiRaised
