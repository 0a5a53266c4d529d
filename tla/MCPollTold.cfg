SPECIFICATION Spec
CONSTANTS
  f1 = f1  f2 = f2
  Fd = {f1, f2}
  TIMEOUT_SECONDS = 2
  TIMEOUT_REGISTRATION = 1
  TIMEOUT_CLOSING = 1
  MAX_SENDQ = 1
  MaxStep = 1
  MaxLines = 1
  Throwing = {}
SYMMETRY Symmetry
INVARIANTS
  ToldIsClosed
  PingBeforeTimeout
  DeadlinesHold
CHECK_DEADLOCK FALSE
