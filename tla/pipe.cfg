CONSTANTS
  Writer = {w1, w2}
  Reader = {r1}
  Byte = {a, b}
  PIPESIZE = 2
  UMax = 4
  MaxN = 3
  NULL = NULL
SPECIFICATION Spec
INVARIANT NoLostWakeup
PROPERTY ImplementsFifo
SYMMETRY Symmetry
