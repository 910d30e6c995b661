SPECIFICATION Spec
CONSTANTS
  Slots = 3
  ChunkRecords = 8
  ChunkPages = 2
  Size = 6
  Free <- Free6
  Sys <- Sys6
  Groups <- TwiceMoved
  MaxGroups = 2
  MaxChunk = 2
  MaxRequest = 2
  Contents = {c1, c2}
  Failing = {{}}
  Leftover <- NoLeftover
INVARIANT CopiesInStep
PROPERTY Implements
SYMMETRY ContentsSymmetry
