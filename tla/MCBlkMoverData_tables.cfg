SPECIFICATION Spec
CONSTANTS
  Slots = 3
  ChunkRecords = 8
  ChunkPages = 2
  Size = 7
  Free <- Free7
  Sys <- Sys7
  Groups <- AllGroups
  MaxGroups = 2
  MaxChunk = 2
  MaxRequest = 3
  Contents = {0}
  Failing = {{}}
  Leftover <- NoLeftover
INVARIANTS TypeOK LookupFinds NoStrayTransfer
