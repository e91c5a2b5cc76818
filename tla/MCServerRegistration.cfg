SPECIFICATION Spec
CONSTANTS
  t1 = t1
  t2 = t2
  Threads = {t1, t2}
  Comments <- MCComments
  UnaryMethods = {"get"}
  ClientStreamMethods = {"upload"}
  ServerStreamMethods = {}
  BidiStreamMethods = {}
  MaxRegistrations = 2
SYMMETRY Symmetry
INVARIANT OneRegistrationPerStream
INVARIANT NoLostUpdate
INVARIANT RoutesCover
CHECK_DEADLOCK FALSE
