SPECIFICATION Spec
CONSTANTS
  Workers = {w1, w2, w3}
  Overs = {o1, o2, o3, o4, o5}
  None = None
SYMMETRY Symmetry
INVARIANTS HeldIsLive OneHolder OnlySendsLeak
CHECK_DEADLOCK FALSE
