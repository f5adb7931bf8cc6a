CONSTANTS
  HdrSize = 2
  Lengths = {0, 2}
  MaxLength = 2
  MaxMessages = 3
  MaxLosses = 2
  MaxEvents = 3
SPECIFICATION Spec
INVARIANTS SentInOrder FindsItsPlace UserCloseStands
PROPERTY PortReopens
CHECK_DEADLOCK FALSE
