\* Two connections and two sessions, the first of which fails while frames are
\* in flight, over a client that allows one stream at a time.
SPECIFICATION Spec
CONSTANTS
  s1 = s1
  s2 = s2
  None = None
  Sockets = {s1, s2}
  IdLimit = 2
  NumSessions = 2
  Slow = {}
  Failing = {1}
  Fragile = {}
  Finishing = {}
  StartId = 1
  MaxAttempts = 2
  Methods = {"connect", "badhttp"}
  MaxUp = 1
  MaxSockBuf = 1
  Hosts = {"ip", "name"}
  MaxConnections = 1
  MaxPending = 1
  MaxEarly = 1
  MaxDown = 1
SYMMETRY Interchangeable
INVARIANTS RegisteredInSession OpenSessionActive BrowserStream WithinLimits
PROPERTIES StaleFramesHarmless
CHECK_DEADLOCK FALSE
