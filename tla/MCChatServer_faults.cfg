SPECIFICATION FairChatSpec
CONSTANTS
  Workers = {w1}
  Sockets = {s1, s2, s3}
  None = None
  Faults = {"reset", "acceptex", "getpeername", "port_reuse"}
  Usernames = {ann}
  Endpoints = {e1}
  Unknown = Unknown
  Rooms = {r1}
INVARIANTS ChatTypeOK MembersConnected UsersOnline
PROPERTY GoneClientForgotten
CHECK_DEADLOCK FALSE
