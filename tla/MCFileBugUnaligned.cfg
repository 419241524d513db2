CONSTANTS
  f1 = f1
  t1 = t1
  t2 = t2
  Files = {f1}
  Threads = {t1}
  SliceSize = 2
  Byte = {0, 1}
  Garbage = {0}
  MaxSize = 5
  MaxLen = 3
  DiskSize = 4
  MaxDisk = 8
  Mode <- SetuidMode
  Ops = {"write", "truncate", "fallocate"}
SPECIFICATION Spec
INVARIANT UnalignedReadsAreExact
