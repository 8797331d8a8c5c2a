CONSTANTS
  Blk = 2
  WBlocks = 2
  RBlocks = 1
  DevBlocks = 1
  Word <- SizeT
  MaxLog = 4
  MaxSpurious = 1
  ReadFails = TRUE
  WriteFails = TRUE
  AppendLens = {1, 2}
SPECIFICATION FairSpec
INVARIANTS
  MutualExclusion
  NoLostWakeup
PROPERTIES
  ReturnsUnlessFailed
CHECK_DEADLOCK FALSE
