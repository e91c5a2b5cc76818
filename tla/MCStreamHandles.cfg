SPECIFICATION Spec
CONSTANTS
  t1 = t1
  t2 = t2
  Threads = {t1, t2}
  Shapes = {"client", "server", "bidi", "direct"}
  MaxHandle = 3
  MaxInt = 3
  MaxStreams = 4
SYMMETRY Symmetry
CONSTRAINT Bounded
INVARIANT HandleNamesItsStream
INVARIANT OneWinner
INVARIANT HeldUntilWon
INVARIANT CancelReleases
INVARIANT ProbeAgrees
PROPERTY FreeOrFull
CHECK_DEADLOCK FALSE
