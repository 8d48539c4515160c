SPECIFICATION FairSpec
CONSTANTS
  NumScanners = 2
  WorkGroupSize = 1
  MaxWorkGroups = 3
  PacketsToSteal = 1
  NumPackets = 3
  Heavy = {1, 3}
INVARIANTS
  PartnerReady
  QueuesMatchRoles
  NoEarlyCrash
  NoCloneTwice
  NothingLost
  NormalRunScansAll
  ScanOrder
PROPERTIES
  NoScanWhileDraining
  Termination
