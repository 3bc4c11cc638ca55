CONSTANTS
  KeySize = 3
  Head = 4
  Sizes = {0, 2, 4, 5, 7}
SPECIFICATION FairSpec
CHECK_DEADLOCK FALSE
INVARIANTS FramesAgree
PROPERTY ClientIsServed
