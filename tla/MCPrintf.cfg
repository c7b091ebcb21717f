CONSTANTS
  W = 6
  IntW = 5
  BUF = 13
  PointerDigits = 2
  Words = {0, 1, 24, 32, 40, 63}
  Paddings = {0, 3, 6, 10, 11, 13}
  MaxTokens = 2
SPECIFICATION Spec
INVARIANTS FormatFollowed ReadsInFormat BufferKept
