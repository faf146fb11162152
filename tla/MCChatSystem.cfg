SPECIFICATION SysSpec
CONSTANTS
  Workers = {w1}
  Sockets = {s1, s2, s3}
  None = None
  Faults = {"reset", "port_reuse"}
  Usernames = {ann}
  Endpoints = {e1, e2}
  Unknown = Unknown
  Rooms = {r1}
  Capacity = 2
  Unread = 1
SYMMETRY Symmetry
INVARIANTS PlaceFollows OneAnswer
CHECK_DEADLOCK FALSE
