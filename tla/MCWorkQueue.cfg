SPECIFICATION Spec
CONSTANTS
  Worker = {w1, w2}
  Issue = {i1}
  MaxJobs = 2
  LeaseTime = 2
  LockTime = 1
  PrDelay = 1
  BreakerDelay = 1
  Backoff <- ShortBackoff
  ExternalCallers = TRUE
  Overrun = FALSE
INVARIANTS TypeOK ExclusiveLease RetriesInStep
PROPERTY SettledIsFinal
