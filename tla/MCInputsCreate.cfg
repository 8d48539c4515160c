SPECIFICATION Spec
CONSTANTS
  StringOptions = {"c", "d", "r", "s", "a", "f", "A"}
  NumericOptions = {"l", "b", "m"}
  BooleanOptions = {"v"}
  NUM_OF_OPTIONS = 20
  Thresholds <- MCThresholds
  PatternTexts <- MCPatternTexts
  PatternCuts = 3
  MinLengths = {1, 2}
  ConverterBuffer = 260
  READ_BUFFER_SIZE = 258
  MAX_PATTERNS = 2
  TraceTexts <- MCTraceTexts
  TraceCuts = 17
  Repeats = {1, 2}
  MaxPacketSize = 3
  MaxLines = 5
INVARIANT
  CreatedAlone
CHECK_DEADLOCK FALSE
