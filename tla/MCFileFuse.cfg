CONSTANTS
  f1 = f1
  t1 = t1
  t2 = t2
  Files = {f1}
  Threads = {t1}
  SliceSize = 2
  Byte = {0, 1}
  Garbage = {0}
  MaxSize = 5
  MaxLen = 2
  DiskSize = 2
  MaxDisk = 6
  Mode <- SetuidMode
  Ops = {"write", "truncate", "fallocate", "copy"}
SPECIFICATION Spec
INVARIANTS TypeOK NoSliceBeyondEnd AlignedReadsAreExact
PROPERTIES ImplementsByteFile
