SPECIFICATION FairSpec
CONSTANTS
  Bridges = {"client", "server", "bidiMessage", "bidiNative"}
  MaxRequests = 2
  MaxResponses = 2
INVARIANTS EndedOnReturn SuccessIsComplete
PROPERTIES NothingAfterEnd EndInterrupts SendFailureEnds
CHECK_DEADLOCK FALSE
