CONSTANTS
  Proc = {p1, p2}
  Block = {b1, b2, b3}
  Val = {v0, v1}
  Zero = v0
  LOGSIZE = 4
  MAXOPBLOCKS = 2
  NLog = 3
  NULL = NULL
SPECIFICATION Spec
INVARIANT ReservationHolds
PROPERTIES ImplementsAtomicDisk SleepersWoken
