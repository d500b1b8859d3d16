CONSTANTS
  c1 = c1
  c2 = c2
  Proc = {p1, p2}
  Block = {k1, k2, k3}
  Buf = {c1, c2}
  BufOrder <- TwoBufs
  Val = {v0, v1}
  Zero = v0
  MaxPin = 1
  NULL = NULL
SPECIFICATION Spec
INVARIANTS SingleCopy RefcntExact
PROPERTY ImplementsStore
