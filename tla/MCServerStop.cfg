CONSTANTS
  maxClientCount = 2
  MAX_PENDING_ACCEPT = 1
  w1 = w1
  w2 = w2
  Worker <- Workers
  Ender = {"main", "handler"}
  MAX_COMPLETION_ENTRIES = 2
  TIMEOUT_MS = 2
  PING_INTERVAL_MS = 1
  Bits = 4
  MaxClock = 4
  MaxIO = 2
SPECIFICATION Spec
CHECK_DEADLOCK FALSE
INVARIANTS PassLeavesNoZombie EveryoneOut
PROPERTIES KickJustified StopEnds
