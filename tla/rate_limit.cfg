SPECIFICATION LimiterSpec
CONSTANTS
  Keys = {"ip1", "ip2"}
  Requests = {"r1"}
  Cost = 2
  Capacity = 4
  TTL = 5
  Second = 3
  MaxClock = 12
  Preempted = FALSE
INVARIANTS
  LimiterTypeOK
  RetryAfterHonest
  IdleIsFull
PROPERTIES
  ImplementsBuckets
CHECK_DEADLOCK FALSE
