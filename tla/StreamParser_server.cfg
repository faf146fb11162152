SPECIFICATION FairSpec
CONSTANTS
  HEADER_SIZE = 2
  FrameSizes = {3, 5}
  Chunk = 4
  buffer_size = 8
  MaxFrames = 4
INVARIANTS StreamTypeOK NoOverrun LeftoverIsPartial
PROPERTIES ChannelSpec EveryFrameDelivered
CHECK_DEADLOCK FALSE
