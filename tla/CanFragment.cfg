CONSTANTS
  MAX_PACKET_SIZE = 64
  FragHdrSize = 1
  StartHdrSize = 4
  MaxSequence = 15
  MaxStreamID = 7
SPECIFICATION LoopSpec
INVARIANTS FramesCoverBody CountForeseen LoopMakesFrames FramesFitWire
CHECK_DEADLOCK FALSE
