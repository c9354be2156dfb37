SPECIFICATION Spec
CONSTANTS
  Cells = {1,2,3,4,5,6}
  Null = 0
  Hosts = {100,101}
  PoolBase <- Base
  PoolTotal <- MixedTotal
  PoolPage <- Page
  Width = 8
  Kinds = {"pinned","managed"}
  Sizes = {1,2}
  CallocFails = TRUE
INVARIANTS
  NothingKept
  
PROPERTIES
  PinnedPool
  ManagedPool
