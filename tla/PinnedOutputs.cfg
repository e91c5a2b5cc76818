SPECIFICATION Spec
CONSTANTS
  Calls = {"c1", "c2"}
  Addresses = {1, 2}
  NFields = 3
INVARIANT HeldIsPinned
INVARIANT NothingLeftPinned
