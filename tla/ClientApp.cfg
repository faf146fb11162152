SPECIFICATION FairSpec
CONSTANTS
  Users = {u1, u2}
  Rooms = {r1, r2}
  None = None
  Capacity = 2
INVARIANTS ClientTypeOK NoStaleAnswer
PROPERTIES ListsChangeInTheirWait ProtocolSpec WaitEnds
CHECK_DEADLOCK FALSE
