CONSTANTS
  MAX_PACKET_SIZE = 64
  FragHdrSize = 1
  StartHdrSize = 4
  MaxSequence = 15
  MaxStreamID = 7
  Node = {n1, n2}
  Id = {i1, i2}
  Length = {40, 150}
  MaxSends = 3
  MaxFailures = 0
  MaxToggles = 0
  n1 = n1
  n2 = n2
  i1 = i1
  i2 = i2
SPECIFICATION FairSpec
PROPERTY LinkSpec
CHECK_DEADLOCK FALSE
