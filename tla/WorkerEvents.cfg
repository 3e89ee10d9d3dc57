\* No heartbeat at all: only events make the worker look, and the queue holds one.
SPECIFICATION FairSpec
CONSTANTS
  Devices = {"k1"}
  QueueBound = 1
  Mode = "on"
  Observe = FALSE
  CanMeasureIdle = FALSE
  Debounce = 1
  WakeDelay = 1
  Defer = 1
  MaxDefer = 2
  FastRecheck = 1
  IdlePeek = 1
  YieldRecheck = 2
  Reassert = 0
  QuietReassert = 0
  RetryInitial = 1
  RetryMax = 2
  QuietRetryAttempts = 1
  QuietCorrectionBudget = 1
  SettledChecks = 2
  Disturbances = {"hop", "chatter", "link", "replug", "timeout", "held", "foreign", "stop"}
  MaxMoves = 3
PROPERTIES EventsLookedAt StopEnds
