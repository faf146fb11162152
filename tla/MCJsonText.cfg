SPECIFICATION FairSpec
CONSTANTS
  BufferSize = 16
  MaxUnsigned = 99
  Sent <- MCSent
  Texts <- MCTexts
INVARIANTS BufferInv ThrowsForBadUtf8 MessagesArrive ScannedIsDumpable StacksAgree AcceptsJson
PROPERTY Finishes
CHECK_DEADLOCK FALSE
