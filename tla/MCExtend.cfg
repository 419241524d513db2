CONSTANTS
  Globals = {"test"}
  Keys = {"dir1", "dir2"}
  Values = {"v", "w"}
  Operations <- MCOperations
  Programs <- MCPrograms
  MaxDepth = 4
  MaxPaths = 5
SPECIFICATION Spec
INVARIANTS TypeOK
PROPERTIES RenameMovesBuckets AddsCanBeRetried
