CONSTANTS
  Blk = 2
  WBlocks = 2
  RBlocks = 1
  DevBlocks = 4
  Word <- SizeT
  MaxLog = 4
  MaxSpurious = 0
  ReadFails = TRUE
  WriteFails = FALSE
  AppendLens = {1, 2}
SPECIFICATION FairSpec
PROPERTY
  CallsReturn
CHECK_DEADLOCK FALSE
