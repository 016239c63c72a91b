\* A handler may take longer than an interval, so that periods are missed.
CONSTANTS
  Intervals = {3, 4}
  ProcessTime = 1
  WaitTime = 1
  HandlerTime = 4
  MaxTimers = 2
  MaxTime = 18
  MaxBacklog = 2
SPECIFICATION TimersSpec
INVARIANTS
  TickDelay
PROPERTIES
  TickSpacing
CHECK_DEADLOCK FALSE
