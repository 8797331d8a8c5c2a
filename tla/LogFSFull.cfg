CONSTANTS
  Blk = 2
  WBlocks = 5
  RBlocks = 1
  DevBlocks = 8
  Word <- SizeT
  MaxLog = 15
  MaxSpurious = 1
  ReadFails = FALSE
  WriteFails = FALSE
  AppendLens <- HalfTheBuffer
SPECIFICATION FairSpec
INVARIANTS
  NoLostWakeup
  LogIntact
PROPERTIES
  CallsReturn
