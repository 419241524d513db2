CONSTANTS
  a = a
  b = b
  Names <- MCNames
  MaxIno = 4
  MaxCount = 5
  Creds <- OneCred
  Mounter <- Super
  Modes <- StickyModes
  ChmodModes <- NoModes
  ChownIds = {}
  Types <- Files
  RenameFlags <- Move
  TargetLen = 3
SYMMETRY Symm
SPECIFICATION Spec
INVARIANTS TypeOK SizeCoversEntries LinksCoverNames NoDanglingEntry DotsAreRight
PROPERTIES OnlyEmptyDirsDeleted
