CONSTANTS
  f1 = f1
  t1 = t1
  t2 = t2
  Files = {f1}
  Threads = {t1, t2}
  SliceSize = 2
  Byte = {0, 1}
  Garbage = {0, 1}
  MaxSize = 3
  MaxLen = 2
  DiskSize = 2
  MaxDisk = 4
  Mode <- SetuidMode
  Ops = {"write", "truncate"}
SPECIFICATION Spec
PROPERTIES KeepsWrittenBytes
SYMMETRY Symm
