SPECIFICATION FairSpec
CONSTANTS
  Threads = {t1, t2}
  Pointers = {p1, p2}
  MaxInputs = 2
  MaxReleases = 2
  EarlyCallback = FALSE
INVARIANT FreesItsOwn
INVARIANT OwnStateFrees
PROPERTY FailedIsRetried
PROPERTY DroppedIsFreed
CHECK_DEADLOCK FALSE
