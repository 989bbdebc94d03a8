SPECIFICATION KlSpec
CONSTANTS
  PAGE_SIZE = 36
  BIN_HDR = 12
  BIG_HDR = 16
  NUM_BINS = 3
  SMALLEST_BIN_LOG = 3
  WORD = 1024
  MaxPages = 3
  SKIP_MAX_LEVEL = 1
  SmallRequest = {8, 9}
  BigRequest = {17, 20, 21}
  CallocArgs <- NoWrap
  ReallocMayShrink = TRUE
INVARIANT NoOverrun
CHECK_DEADLOCK FALSE
