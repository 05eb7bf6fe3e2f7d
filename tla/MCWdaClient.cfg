SPECIFICATION Spec
CONSTANTS
  Caller = {c1, c2}
  Supervisor = sup
  SettlePolls = 1
  MaxSessions = 3
SYMMETRY Symmetry
INVARIANTS ClientInv RecreateInv
PROPERTIES NoSelfEviction OneLossIsHealed OkIsVerified
