\* Headers of one byte, room for three bytes; three frames of two messages.
CONSTANTS
  Header = 1
  ChunkSize = 2
  InbufLen = 4
  Ids = {id1, id2}
  NULL = NULL
  Sizes <- MCSizes
  Lengths <- MCLengths
  MaxFrames = 3
  MaxSends = 2
SPECIFICATION SFairSpec
INVARIANTS STypeOK FrameInSync SpaceForFrames WritesWhole
PROPERTIES DeliversInOrder MessagesDelivered
CHECK_DEADLOCK FALSE
