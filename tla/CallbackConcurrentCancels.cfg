SPECIFICATION FairSpec
CONSTANTS
  Callers = {c1, c2}
  CallbackCallers = {}
  TerminalOps = {"cancel"}
  MaxResponses = 1
PROPERTY CallsReturn
CHECK_DEADLOCK FALSE
