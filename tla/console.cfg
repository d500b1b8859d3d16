SPECIFICATION Spec
CONSTANTS
  c1 = c1
  c2 = c2
  CPU = {c1, c2}
  CPU0 = c1
  p1 = p1
  p2 = p2
  Proc = {p1, p2}
  INPUT_BUF_SIZE = 2
  UART_TX_BUF_SIZE = 1
  UINT = 4
  LEN = 2
  Worlds <- AllWorlds
  NULL = NULL
INVARIANTS LocksMasked NoLostWakeup OutputNotStalled
PROPERTIES ImplementsLineBuffer
