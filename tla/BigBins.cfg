SPECIFICATION BigSpec
CONSTANTS
  PAGE_SIZE = 36
  BIN_HDR = 12
  BIG_HDR = 16
  NUM_BINS = 2
  SMALLEST_BIN_LOG = 3
  WORD = 1024
  MaxPages = 4
  SKIP_MAX_LEVEL = 2
  BigRequest = {17, 20, 57}
INVARIANTS
  SkipListExact
  FindBestIsBestFit
  DeleteFindsNode
  ChainInAddressOrder
CHECK_DEADLOCK FALSE
