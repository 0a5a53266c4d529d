SPECIFICATION Spec
CONSTANTS
  f1 = f1  f2 = f2
  Fd = {f1}
  TIMEOUT_SECONDS = 2
  TIMEOUT_REGISTRATION = 1
  TIMEOUT_CLOSING = 1
  MAX_SENDQ = 1
  MaxStep = 1
  MaxLines = 1
  Throwing = {"cleanup"}
INVARIANTS
  ToldIsClosed
CHECK_DEADLOCK FALSE
