SPECIFICATION GpuSpec
CONSTANTS
  Page = 2
  Width = 16
  VramSize = 4
  MaxAllocs = 3
  MaxChannels = 2
  PushBuffer = 2
  FirstAddr = 1
  AddrLimit = 7
  Sizes = {1,3}
  Values = {0,1}
  HostCells = 2
  CopyLengths = {1,2,10,13}
INVARIANTS
  Disjoint
  VramExact
PROPERTY HeapSpec
