\* A client, its server and faults, for a dozen ticks.
SPECIFICATION Spec
CONSTANTS
  MaxTime = 14
  MaxConns = 7
  MaxTroubles = 2
  Drift = 1
  Grace = 1
  StepBack = 1
  CleanupInterval = 1
  MaxNonces = 2
  RateLimit = 3
  PingInterval = 2
  PingGrace = 1
  ReconnectDelay = 2
INVARIANTS TypeOK NonceOnce DeadNoticed GetsIn
PROPERTIES LiveSessionKept
CHECK_DEADLOCK FALSE
