SPECIFICATION FairIoSpec
CONSTANTS
  Workers = {w1, w2}
  Sockets = {s1, s2, s3}
  None = None
  Faults = {"reset", "acceptex"}
INVARIANTS OneOwner RecvOwnsSession NoOrphanSession AcceptChain
PROPERTIES OnlyGoneForgotten AcceptProgress DisconnectForgets ReadAgain
CHECK_DEADLOCK FALSE
