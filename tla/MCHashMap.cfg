CONSTANTS
  Keys = {k1, k2, k3, k4, k5}
  Values = {v1}
  NoValue = NoValue
  HashValues = {0, 1, 4}
  InitialBuckets = 1
  Threshold = 1
SYMMETRY KeySymmetry
SPECIFICATION Spec
INVARIANTS Integrity ChainsBounded
PROPERTY ImplementsOrderedMap
