SPECIFICATION Spec
CONSTANTS
  Page = 1
  Width = 16
  VramSize = 1
  MaxAllocs = 2
  MaxChannels = 2
  PushBuffer = 1
  FirstAddr = 1
  AddrLimit = 3
  Sizes = {0,1,2}
  Values = {0}
  HostCells = 2
  CopyLengths = {}
  MaxRouters = 1
  MaxTunnels = 1
  LinkFails = {"service","tunnel","device","bar"}
  AddrWidth = 16
  MaxPayload = 2
  MaxDma = 5
  TagWidth = 2
  Simulation = {TRUE,FALSE}
  Hosts = {h1,h2}
  MaxHostAllocs = 1
  MaxMemset = 1
  MallocFails = {"context","alloc","host","stream","memset"}
INVARIANT VramExact
