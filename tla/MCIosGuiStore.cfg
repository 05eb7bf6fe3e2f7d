SPECIFICATION Spec
CONSTANTS
  Device = {A}
  None = None
  Command = {c1, c2}
  Poll = {p1}
  MaxSessions = 2
SYMMETRY StoreSymmetry
INVARIANTS StoreInv LiveIsOwned
PROPERTY FailureStaysVisible
CHECK_DEADLOCK FALSE
