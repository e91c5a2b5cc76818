SPECIFICATION FairSpec
CONSTANTS
  Threads = {t1, t2}
  Receivers = {t2}
  Impatient = {t2}
  Shapes = {"client", "server", "bidi"}
  RequestBuffer = 1
  ResponseBuffer = 1
  MaxRequests = 3
  MaxResponses = 2
INVARIANT SendTellsTruth
INVARIANT ResponsesComplete
PROPERTY TerminalMeansOver
PROPERTY CallsReturn
PROPERTY CancelEndsAll
CHECK_DEADLOCK FALSE
