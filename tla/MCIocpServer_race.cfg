SPECIFICATION IoSpec
CONSTANTS
  Workers = {w1, w2}
  Sockets = {s1, s2, s3}
  None = None
  Faults = {}
INVARIANT LookupsAreGuarded
CHECK_DEADLOCK FALSE
