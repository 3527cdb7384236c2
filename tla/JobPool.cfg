SPECIFICATION Spec
CONSTANTS
  Threads = {w1, w2}
  MaxJobs = 3
  Limits <- MCLimits
  HSRebalanceLimit = 1
  MaxWaiting = 2
INVARIANTS PipeMatchesQueue DeletedPoolIsIdle
PROPERTIES ImplementsJobService JobsAnswered
CHECK_DEADLOCK FALSE
