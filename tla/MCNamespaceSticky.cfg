CONSTANTS
  a = a
  b = b
  Names <- MCNames
  MaxIno = 3
  MaxCount = 4
  Creds <- TwoCreds
  Mounter <- User
  Modes <- StickyModes
  ChmodModes <- ReadOnly
  ChownIds = {2}
  Types <- Symlinks
  RenameFlags <- MoveExchange
  TargetLen = 3
SYMMETRY Symm
SPECIFICATION Spec
INVARIANTS SizeCoversEntries NoDanglingEntry
PROPERTIES StickyProtects
