SPECIFICATION InstanceSpec
CONSTANTS
  Threads = {t1, t2}
  Objects = {o1, o2}
  a = a
  b = b
  Names <- MCNames
  Node <- MCNode
  Paths <- MCPaths
  Cells = {c1, c2}
  Records = {r1, r2}
  Nil = Nil
  Calls = {"create", "write", "fastwrite", "rename", "cleanup", "close", "clear"}
  MaxCalls = 3
SYMMETRY Symmetry
CONSTRAINT NotOverlapped
INVARIANTS TypeOK MemorySafe NoEntryOutlivesItsObject ModifiedIsTracked OneRecordPerFile
CHECK_DEADLOCK FALSE
