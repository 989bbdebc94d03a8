SPECIFICATION ShellSpec
CONSTANTS
  BLOCK_SIZE = 4
  DIRECT = 2
  PTR_SIZE = 2
  Inode <- ImageInode
  Pointers <- ImagePointers
  Dirent <- ImageDirent
  NameLen <- ImageNameLen
  CellSizes = {4, 8, 16, 32}
  Path <- ImagePath
  MaxRead = 17
  MaxIndex = 7
  Lines <- TypedLines
  MaxPieces = 9
INVARIANTS
  ShellTypeOK
  PathNamesNode
  TokensAreWords
  ShowsWhatIsNamed
PROPERTY PromptReturns
CHECK_DEADLOCK FALSE
