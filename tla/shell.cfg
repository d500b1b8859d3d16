SPECIFICATION FairSpec
CONSTANTS
  Word = {"a", "b", "cd"}
  Lines <- AllLines
  MAXARGS = 3
  NPROC = 8
  Slots = {3, 8}
  NOFILE = 8
  NPIPE = 2
  MaxLines = 1
  Burst = 2
  PIPESIZE = 1
  NONE = NONE
INVARIANTS ParseExact Wiring
PROPERTIES Finishes
