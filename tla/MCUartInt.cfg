SPECIFICATION FairSpec
CONSTANTS
  RX_TIMEOUT = 4
  FcrNibbles = {0, 1, 7}
INVARIANT TypeOK
PROPERTIES InputAnnounced ThreAnnounced
