SPECIFICATION Spec
CONSTANTS
  Slots = 3
  ChunkRecords = 8
  ChunkPages = 2
  Size = 6
  Free <- FreeStray
  Sys <- SysStray
  Groups <- StrayGroups
  MaxGroups = 2
  MaxChunk = 2
  MaxRequest = 2
  Contents = {0}
  Failing = {{}}
  Leftover <- NoLeftover
INVARIANT NoStrayTransfer
