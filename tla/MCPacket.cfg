CONSTANTS
  Limit = 8
  HeadSize = 2
  Lens = {0, 3, 7}
  Chars = {0, 1, 2}
  Offsets <- MCOffsets
  Texts <- MCTexts
  Rows <- MCRows
  Behind <- MCBehind
SPECIFICATION MCSpec
CHECK_DEADLOCK FALSE
INVARIANTS BufferHoldsPacket AccessesStayInside ConversionsStayInside TextSurvives SearchNeverMisses
