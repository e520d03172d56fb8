\* Three connections, two ids, starting at the last id: the counter wraps, skips
\* ids in use and runs out.
SPECIFICATION Spec
CONSTANTS
  s1 = s1
  s2 = s2
  s3 = s3
  None = None
  Sockets = {s1, s2, s3}
  IdLimit = 2
  NumSessions = 1
  Slow = {}
  Failing = {}
  Fragile = {s1, s2, s3}
  Finishing = {}
  StartId = 2
  MaxAttempts = 2
  Methods = {"badhttp"}
  MaxUp = 0
  MaxSockBuf = 1
  Hosts = {"ip"}
  MaxConnections = 2
  MaxPending = 2
  MaxEarly = 2
  MaxDown = 0
SYMMETRY Interchangeable
PROPERTIES NoIdTakenOver
CHECK_DEADLOCK FALSE
