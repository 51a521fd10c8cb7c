SPECIFICATION ToolsSpec

CONSTANTS
  NumBlocks = 9
  NumInodes = 5
  NumDirect = 2
  PtrsPerBlock = 2
  BlockSpace = 16
  WordSpace = 32
  BitmapBits = 64
  Leftover = {0, 4, 25}
  MaxStale = 2
  FirstInode = 3
  Reserved = 3
  InlineSize = 60
  Images <- MCImages

INVARIANTS TablesExact IndexBlocksWalked OnlyKnownFalseAlarms FlawsReported
