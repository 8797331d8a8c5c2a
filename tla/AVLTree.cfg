CONSTANTS
  Capacity = 70
  Header = 4
  SizeT = 3
  Words = {1, 2, 3, 4}
  WordLen <- Lengths
  NodeLen = 4
  StateLen = 4
  MaxCount <- Counts
SPECIFICATION Spec
INVARIANTS
  TypeOK
  IsAVL
  CountsAgree
  BlocksApart
  GivenOnce
PROPERTIES
  OneWordAtATime
