\* Two browsers and one place; headers around the limit in any pieces.
SPECIFICATION FairSpec
CONSTANTS
  s1 = s1
  s2 = s2
  Sockets = {s1, s2}
  Requests <- MCRequests
  Sizes = {2, 3, 4}
  MaxBytes = 5
  HeaderEnd = 2
  MAX_PROXY_HEADER_SIZE = 3
  MAX_CONCURRENT_PROXY_CONNECTIONS = 1
INVARIANTS TypeOK SlotsExact SizeExact BodyComplete OneAnswer
  FirstRequestContained
PROPERTIES HeaderPhaseEnds
CHECK_DEADLOCK FALSE
