\* One connection, two sessions, the first of which may fail: under fairness
\* every CONNECT is answered and closing reaches both ends.
SPECIFICATION FairSpec
CONSTANTS
  s1 = s1
  None = None
  Sockets = {s1}
  IdLimit = 2
  NumSessions = 2
  Slow = {}
  Failing = {1}
  Fragile = {s1}
  Finishing = {s1}
  StartId = 1
  MaxAttempts = 2
  Methods = {"connect", "http", "badhttp"}
  MaxUp = 1
  MaxSockBuf = 1
  Hosts = {"ip", "name", "local", "bad"}
  MaxConnections = 2
  MaxPending = 2
  MaxEarly = 2
  MaxDown = 1
PROPERTIES SessionTakesItsTargets EveryConnectAnswered CloseReachesBrowser CloseReachesTarget
CHECK_DEADLOCK FALSE
