SPECIFICATION Spec
CONSTANTS
  NumScanners = 2
  WorkGroupSize = 1
  MaxWorkGroups = 1
  PacketsToSteal = 1
  NumPackets = 2
  Heavy = {1}
INVARIANTS
  OnlyRegularsTransfer
