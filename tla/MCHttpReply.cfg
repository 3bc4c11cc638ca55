CONSTANTS
  Texts <- MCTexts
  Values <- MCValues
  Chunks = 2
  MaxText = 20
SPECIFICATION ReplyFairSpec
CHECK_DEADLOCK FALSE
INVARIANTS ReplyIsOfOnePage ChangeKeepsTheMeaning
PROPERTY RequestEnds
