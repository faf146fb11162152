SPECIFICATION ChatSpec
CONSTANTS
  Workers = {w1}
  Sockets = {s1, s2, s3}
  None = None
  Faults = {"reset"}
  Usernames = {ann}
  Endpoints = {e1, e2}
  Unknown = Unknown
  Rooms = {r1}
INVARIANT ServerSurvives
CHECK_DEADLOCK FALSE
