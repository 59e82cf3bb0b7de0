CONSTANTS
  main = main
  dev = dev
  Main = main
  Nil = Nil
  TornFile = TornFile
  Data = {1, 2}
  Names <- MCNames
  Paths <- MCPaths
  Branch <- MCBranch
  Starts <- MCStarts
SPECIFICATION Spec
INVARIANTS MergeSound ReadsSound HistoryIntact
PROPERTY ImplementsObjectStore
CHECK_DEADLOCK FALSE
