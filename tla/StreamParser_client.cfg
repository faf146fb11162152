SPECIFICATION Spec
CONSTANTS
  HEADER_SIZE = 2
  FrameSizes = {3, 5}
  Chunk = 8
  buffer_size = 8
  MaxFrames = 4
INVARIANT NoOverrun
CHECK_DEADLOCK FALSE
