SPECIFICATION PipelineSpec
CONSTANTS
  Worker = {w1, w2}
  Issue = {i1}
  MaxJobs = 1
  LeaseTime = 1
  LockTime = 0
  PrDelay = 1
  BreakerDelay = 1
  Backoff <- ShortBackoff
  ExternalCallers = TRUE
  Overrun = FALSE
  x = x
  y = y
  Patch = {x, y}
  None = None
  Base = Base
  WorkspaceLosses = TRUE
  UndoFails = TRUE
INVARIANTS PipelineTypeOK  LogNotAhead NoLostWork
PROPERTIES ImplementsQueue OpenPrKeepsBranch
