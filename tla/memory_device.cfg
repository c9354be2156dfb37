SPECIFICATION Spec
CONSTANTS
  Cells = {1,2,3,4,5,6,7}
  Null = 0
  Hosts = {}
  PoolBase <- Base
  PoolTotal <- DeviceTotal
  PoolPage <- Page
  Width = 16
  Kinds = {"device"}
  Sizes = {1,2,15}
  CallocFails = TRUE
INVARIANTS
  ListsSound
  NoBlockLost
  CountsExact
PROPERTY DevicePool
