SPECIFICATION AuditSpec
CONSTANTS
  Records = {r1, r2, r3}
  ChanCap = 2
  BufSize = 2
INVARIANT TailWritten
CHECK_DEADLOCK FALSE
