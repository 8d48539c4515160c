SPECIFICATION FairSpec
CONSTANTS
  Alphabet = {1, 2}
  MaxLength = 3
  MaxLong = 4
  PacketLength = 4
  Files <- MCFiles
  Packets <- MCPackets
  AvoidFailToLeaves = TRUE
  MaxPatterns = 3
  Options <- MCOptions
  Drops = {0, 2}
INVARIANTS
  FailureIsLongestSuffix
  LeavesAreSkipped
  MachineIsComplete
  ScanIsExact
PROPERTY
  ScanEnds
CHECK_DEADLOCK FALSE
