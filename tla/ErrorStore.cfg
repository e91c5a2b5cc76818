SPECIFICATION FairSpec
CONSTANTS
  Threads = {t1, t2}
  MaxId = 2
  MaxErrors = 4
  TTL = 1
INVARIANT LiveIdsDiffer
PROPERTIES Reclaimed TextsSpec
CHECK_DEADLOCK FALSE
