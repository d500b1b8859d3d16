CONSTANTS
  Proc = {p1, p2, p3}
  NUM = 8
  Idx = 8
  NULL = NULL
SPECIFICATION Spec
INVARIANTS Transferred DescsExact
PROPERTY SleepersWoken
