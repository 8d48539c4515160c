SPECIFICATION FairSpec
CONSTANTS
  Size = 2
  MaxSeq = 4
  MaxLag = 6
  MaxEnqueue = 18
INVARIANTS
  FifoDelivery
  NoFalseAlarm
PROPERTIES
  LapIsFinal
  Delivery
  ImplementsFifo
