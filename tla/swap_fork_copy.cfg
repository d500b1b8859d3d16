CONSTANTS
  init = init
  f1 = f1
  f2 = f2
  f3 = f3
  f4 = f4
  f5 = f5
  f6 = f6
  p1 = p1
  Proc = {init, p1}
  initproc = init
  Frame = {f1, f2, f3, f4, f5, f6}
  BootList <- Frames
  MaxPg = 4
  MaxGrow = 2
  SpPage = 0
  Val = {"x"}
  Worlds <- OnlyCopy
  NULL = NULL
SPECIFICATION Spec
INVARIANT Intact
