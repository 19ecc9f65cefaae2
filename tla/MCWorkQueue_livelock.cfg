SPECIFICATION FairSpec
CONSTANTS
  Worker = {w1}
  Issue = {i1}
  MaxJobs = 1
  LeaseTime = 2
  LockTime = 0
  PrDelay = 1
  BreakerDelay = 1
  Backoff <- ShortBackoff
  ExternalCallers = FALSE
  Overrun = FALSE
PROPERTY DueIsTaken
