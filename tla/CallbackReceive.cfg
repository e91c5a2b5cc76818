SPECIFICATION FairSpec
CONSTANTS
  Callers = {c1, c2}
  CallbackCallers = {}
  TerminalOps = {"cancel", "finish", "close"}
  MaxResponses = 2
INVARIANT CloseSilences
INVARIANT CancelWaitsForDone
INVARIANT CleanDone
INVARIANT NoPinnedResponseLeft
PROPERTY DeliverySpec
PROPERTY SoleCallReturns
PROPERTY LoopExits
CHECK_DEADLOCK FALSE
