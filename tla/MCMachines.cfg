SPECIFICATION AnySpec
CONSTANTS
  MaxLength = 3
  MaxFile = 2
  PacketLength = 4
  MaxGotos = 6
  Files <- TableFiles
  AvoidFailToLeaves = FALSE
  MaxPatterns = 2
  Alphabet <- TableAlphabet
  Packets <- TablePackets
  NumCommon = 3
  BytesBeforeChecking = 1
  LimitNum = 1
  LimitDen = 3
  Drops <- EitherDrop
INVARIANTS
  ScansAreRight
  HandOverLosesNothing
  AnswerIsRight
  SavedExactly
CHECK_DEADLOCK FALSE
