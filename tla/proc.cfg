CONSTANTS
  NPROC = 4
  CPU = {c1, c2}
  MaxKill = 2
  NULL = NULL
SPECIFICATION Spec
INVARIANTS StackExclusive NoLostWakeup HasParent
SYMMETRY Symmetry
