CONSTANTS
  Blk = 7
  MaxLog = 29
  MaxOver = 20
  WBlocks = 3
  Word = 63
  Growth = 1
  k1 = k1  k2 = k2  k3 = k3
  v1 = v1  v2 = v2
  Keys = {k1, k2, k3}
  Vals = {v1, v2}
  None = None
  Zero = Zero
  Torn = Torn
  Hash <- Hashes
  KeyLen <- Lengths
  Start <- Starts
  ValLen <- ValLens
  Pointer = 1
  RestoreBlks = {7, 14}
SPECIFICATION Spec
INVARIANTS
  TypeOK
  IndexFindsEntries
  ChainsLeadBack
  CountersRight
  BufferRebuilt
  ReadsBackTheLog
PROPERTIES
  ImplementsMap
