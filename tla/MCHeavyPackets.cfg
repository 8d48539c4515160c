SPECIFICATION MCSpec
CONSTANTS
  Size = 2
  MaxSeq = 4
  MaxLag = 3
  MaxEnqueue = 10
  NumScanners = 2
  UpdateEvery = 2
  Threshold = 50
  MaxPackets = 4
INVARIANTS
  FatalOnlyAtWrap
  NoCountLost
  NeverHighInTotal
PROPERTY
  DrainEnds
CHECK_DEADLOCK FALSE
