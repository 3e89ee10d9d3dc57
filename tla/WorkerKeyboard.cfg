\* One keyboard: it hops, drops writes and times out, keys are held, another machine and
\* a program here write the platform too, in both duty cycles.
SPECIFICATION FairSpec
CONSTANTS
  Devices = {"k1"}
  QueueBound = 1
  Mode = "auto"
  Observe = FALSE
  CanMeasureIdle = TRUE
  Debounce = 1
  WakeDelay = 1
  Defer = 1
  MaxDefer = 2
  FastRecheck = 1
  IdlePeek = 1
  YieldRecheck = 2
  Reassert = 2
  QuietReassert = 3
  RetryInitial = 1
  RetryMax = 2
  QuietRetryAttempts = 1
  QuietCorrectionBudget = 1
  SettledChecks = 2
  Disturbances = {"hop", "replug", "timeout", "revert", "refuse", "held", "chatter", "foreign", "idle", "rival", "crash"}
  MaxMoves = 3
INVARIANTS TypeOK BackstopArmed QuietTries AsleepKeepsGateOpen PeerReal
PROPERTIES Converges Corrects
