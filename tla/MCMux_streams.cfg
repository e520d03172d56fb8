\* One connection, two sessions of which the first may fail, every kind of
\* request and target, two chunks each way, and a browser that reads slowly,
\* ends or aborts: what each end is given, and what each keeps of the other.
SPECIFICATION Spec
CONSTANTS
  s1 = s1
  None = None
  Sockets = {s1}
  IdLimit = 2
  NumSessions = 2
  Slow = {s1}
  Failing = {1}
  Fragile = {s1}
  Finishing = {s1}
  StartId = 2
  MaxAttempts = 1
  Methods = {"connect", "http", "badhttp"}
  MaxUp = 2
  MaxSockBuf = 1
  Hosts = {"ip", "name", "local", "bad"}
  MaxConnections = 2
  MaxPending = 2
  MaxEarly = 2
  MaxDown = 2
INVARIANTS TypeOK TargetStream AnsweredOnce TargetOwned NoStrandedBrowser Agreement
CHECK_DEADLOCK FALSE
