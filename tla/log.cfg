SPECIFICATION Spec
CONSTANTS
  Writers = {w1,w2}
  Main = main
  MaxRotated = 2
  MaxSize = 1
  FopenFails = TRUE
  RenameFails = TRUE
  MaxEntries = 3
  MaxTime = 1
INVARIANTS
  FileByHolder
  InOrder
PROPERTIES
  OnlyTheOldestIsLost
  WriteReturns
CHECK_DEADLOCK FALSE
