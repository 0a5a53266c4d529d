SPECIFICATION Spec
CONSTANTS
  f1 = f1  f2 = f2
  Fd = {f1}
  TIMEOUT_SECONDS = 3
  TIMEOUT_REGISTRATION = 1
  TIMEOUT_CLOSING = 1
  MAX_SENDQ = 2
  MaxStep = 1
  MaxLines = 2
  Throwing = {}
PROPERTIES
  SilentIsClosed
  SlowReaderIsClosed
  DeafOnlyWhenBusy
  LifeKept
CHECK_DEADLOCK FALSE
