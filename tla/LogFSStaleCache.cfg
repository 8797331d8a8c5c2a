CONSTANTS
  Blk = 2
  WBlocks = 5
  RBlocks = 1
  DevBlocks = 7
  Word <- SizeT
  MaxLog = 12
  MaxSpurious = 0
  ReadFails = FALSE
  WriteFails = FALSE
  AppendLens <- OneOrFive
SPECIFICATION Spec
INVARIANT
  ReadsReturnTheLog
