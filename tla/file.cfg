SPECIFICATION Spec
CONSTANTS
  p1 = p1
  p2 = p2
  i1 = i1
  i2 = i2
  f1 = f1
  f2 = f2
  f3 = f3
  Proc = {p1, p2}
  Inode = {i1, i2}
  OpenFile = {f1, f2, f3}
  InodeOf <- Opens
  BSIZE = 2
  NDIRECT = 2
  NINDIRECT = 1
  NBLOCK = 4
  BPB = 3
  MAXOPBLOCKS = 6
  Loads <- AllLoads
  NULL = NULL
INVARIANTS BlocksExact ReadsBack TxFits NoneOverwritten
