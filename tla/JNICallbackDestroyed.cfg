SPECIFICATION JNISpec
CONSTANTS
  Callers = {"main", "worker"}
  MaxStreams = 1
INVARIANT CanceledIsOver
CHECK_DEADLOCK FALSE
