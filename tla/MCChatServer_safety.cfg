SPECIFICATION ChatSpec
CONSTANTS
  Workers = {w1, w2}
  Sockets = {s1, s2, s3, s4}
  None = None
  Faults = {"reset"}
  Usernames = {ann}
  Endpoints = {e1, e2, e3}
  Unknown = Unknown
  Rooms = {r1}
SYMMETRY Symmetry
INVARIANTS RegistryConsistent RoomViewAgrees
PROPERTIES RoomIsolation IoSpec PrivateDelivery DirectorySpec
CHECK_DEADLOCK FALSE
