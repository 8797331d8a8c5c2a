CONSTANTS
  Blk = 2
  WBlocks = 4
  RBlocks = 1
  DevBlocks = 8
  Word <- SizeT
  MaxLog = 16
  MaxSpurious = 0
  ReadFails = FALSE
  WriteFails = FALSE
  AppendLens <- TwoBlocks
SPECIFICATION Spec
INVARIANT
  LogIntact
