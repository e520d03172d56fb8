\* A target whose name is still being resolved when the session closes.
SPECIFICATION Spec
CONSTANTS
  s1 = s1
  None = None
  Sockets = {s1}
  IdLimit = 2
  NumSessions = 1
  Slow = {}
  Failing = {1}
  Fragile = {}
  Finishing = {}
  StartId = 1
  MaxAttempts = 2
  Methods = {"connect"}
  MaxUp = 1
  MaxSockBuf = 1
  Hosts = {"name"}
  MaxConnections = 2
  MaxPending = 2
  MaxEarly = 2
  MaxDown = 1
INVARIANTS NoGhostTarget
CHECK_DEADLOCK FALSE
