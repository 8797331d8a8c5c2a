CONSTANTS
  Blk = 2
  WBlocks = 2
  RBlocks = 2
  DevBlocks = 3
  Word <- SizeT
  MaxLog = 6
  MaxSpurious = 1
  ReadFails = FALSE
  WriteFails = FALSE
  AppendLens <- UpToABlock
SPECIFICATION FairSpec
INVARIANTS
  TypeOK
  MutualExclusion
  NoLostWakeup
  LogIntact
  ReadsReturnTheLog
  FlushedBeforeRead
  CacheCoherent
  DurableAtClose
  IdleBacklog
PROPERTIES
  WrittenOnce
  CallsReturn
  ImplementsLog
