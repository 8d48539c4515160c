SPECIFICATION Spec
CONSTANTS
  NumScanners  = 2
  NumDedicated = 1
  Sizes        = {2}
  ReportEvery  = 2
  MaxPackets   = 1
  PacketsToSteal = 1
  MaxEvents    = 8
  MaxIntervals = 1
INVARIANTS
  EachByteCountedOnce
  SinceAlertOnce
  MeasurementsComplete
CHECK_DEADLOCK FALSE
