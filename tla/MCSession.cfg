CONSTANTS
  Size <- MCSize
  Lag <- MCLag
  Total = 21
  MaxBack = 4
  Room = 6
  Wrap = 7
  KeyLen = 5
  Digest = 12
  Others = {0, 1, 2, 3, 4, 5, 6, 7, 8, 9, 10, 11, 12, 13, 14, 15, 16, 17}
SPECIFICATION SessionSpec
CHECK_DEADLOCK FALSE
INVARIANTS HashedIsPadded SecretsAgree ChunksDoNotMatter
