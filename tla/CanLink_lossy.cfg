CONSTANTS
  MAX_PACKET_SIZE = 64
  FragHdrSize = 1
  StartHdrSize = 4
  MaxSequence = 15
  MaxStreamID = 7
  Node = {n1, n2}
  Id = {i1, i2}
  Length = {40, 150}
  MaxSends = 3
  MaxFailures = 1
  MaxToggles = 2
  n1 = n1
  n2 = n2
  i1 = i1
  i2 = i2
SPECIFICATION Spec
INVARIANTS SourcesNeverMix BodyOfOneBeginning ReadWholeIsDelivered
CHECK_DEADLOCK FALSE
