SPECIFICATION Spec
CONSTANTS
  Base = 4
  Total = 13
  Page = 2
  Width = 32
  Sizes <- Requests
  CallocFails = TRUE
INVARIANTS
  TypeOK
  Partition
  Coalesced
  FailsOnlyWhenFull
CHECK_DEADLOCK FALSE
