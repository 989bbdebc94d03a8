SPECIFICATION SizeSpec
CONSTANTS
  PAGE_SIZE = 4096
  BIN_HDR = 12
  BIG_HDR = 44
  NUM_BINS = 11
  SMALLEST_BIN_LOG = 2
  WORD = 32768
INVARIANTS
  BinIsSmallestThatFits
  CellsStayInPage
  BigBinFits
CHECK_DEADLOCK FALSE
