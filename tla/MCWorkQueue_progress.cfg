SPECIFICATION FairSpec
CONSTANTS
  Worker = {w1, w2}
  Issue = {i1}
  MaxJobs = 1
  LeaseTime = 1
  LockTime = 0
  PrDelay = 1
  BreakerDelay = 1
  Backoff <- ShortBackoff
  ExternalCallers = TRUE
  Overrun = TRUE
INVARIANT RetriesBounded
PROPERTY DueIsTaken
