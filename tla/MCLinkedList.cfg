SPECIFICATION Spec
CONSTANTS
  t1 = t1
  t2 = t2
  Threads = {t1, t2}
  Owner = t1
  NumNodes = 3
INVARIANTS
  Intact
  DequeuesFirst
  EmptyAnswer
PROPERTIES
  LockReleased
