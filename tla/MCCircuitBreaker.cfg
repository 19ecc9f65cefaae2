SPECIFICATION FairSpec
CONSTANTS
  p1 = p1
  p2 = p2
  t1 = t1
  t2 = t2
  t3 = t3
  Proc = {p1, p2}
  Thread = {t1, t2, t3}
  ProcOf <- TwoAndOne
  Threshold = 2
  Backoff <- ShortBackoff
  StoreErrors = TRUE
INVARIANTS TypeOK RowsCoherent FlagHasOwner
PROPERTIES BackoffNeverShrinks OpenIsProbed ProbeIsDecided
