\* Both modes over both kinds of link, past the wrap of the counter.
SPECIFICATION Spec
CONSTANTS
  Modulus = 4
  MaxMessages = 9
INVARIANTS StrictPrefix NoReplay NoFalseAlarm
CHECK_DEADLOCK FALSE
