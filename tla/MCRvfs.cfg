CONSTANTS
  a = a
  b = b
  x1 = x1
  x2 = x2
  x3 = x3
  RootPlace = RootPlace
  NoInode = NoInode
  Names <- MCNames
  MaxIno = 3
  MaxCount = 3
  Types <- FilesAndDirs
  Places <- MCPlaces
  TmpLinks = 1
SYMMETRY Symm
SPECIFICATION Spec
INVARIANTS TypeOK MemoryCoversNames MemoryCoversLinks CacheAgrees OnlyRenamePanics
PROPERTIES ImplementsNamespace
