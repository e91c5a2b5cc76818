SPECIFICATION FairSpec
CONSTANTS
  Callers = {"main"}
  MaxStreams = 3
INVARIANT OwnListener
INVARIANT ListenerAlive
INVARIANT NoLeakedReference
INVARIANT CanceledIsOver
PROPERTY CancelReturns
CHECK_DEADLOCK FALSE
