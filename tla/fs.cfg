SPECIFICATION Spec
CONSTANTS
  p1 = p1
  p2 = p2
  Proc = {p1, p2}
  Inum <- Numbers
  Name = {"a", "d"}
  NFILE = 2
  NOFILE = 2
  Worlds <- Worlds3
  NULL = NULL
INVARIANTS RefExact Consistent NoPanic OpenKept IputNeverBlocks
