CONSTANTS
  l1 = l1
  l2 = l2
  Name = {1, 2, 3}
  Dot = 1
  Listers = {l1}
  FrontEnds = {"fuse"}
  Batch = 2
  MaxOffset = 6
SPECIFICATION Spec
INVARIANTS ListingsContinue
SYMMETRY Symm
