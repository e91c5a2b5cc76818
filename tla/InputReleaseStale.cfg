SPECIFICATION Spec
CONSTANTS
  Threads = {t1, t2}
  Pointers = {p1, p2}
  MaxInputs = 2
  MaxReleases = 1
  EarlyCallback = TRUE
INVARIANT ReleaseFrees
CHECK_DEADLOCK FALSE
