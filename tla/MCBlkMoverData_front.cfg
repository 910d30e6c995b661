SPECIFICATION Spec
CONSTANTS
  Slots = 3
  ChunkRecords = 8
  ChunkPages = 2
  Size = 6
  Free <- FreeFront
  Sys <- NoSys
  Groups <- FrontGroups
  MaxGroups = 2
  MaxChunk = 2
  MaxRequest = 2
  Contents = {0}
  Failing = {{}}
  Leftover <- NoLeftover
INVARIANT LookupFinds
