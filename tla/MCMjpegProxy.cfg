SPECIFICATION Spec
CONSTANTS
  Downstream = {d1, d2}
  MaxFrames = 3
SYMMETRY PeerSymmetry
INVARIANTS ProxyInv DropsWereNotSeen
PROPERTY NoEviction
CHECK_DEADLOCK FALSE
