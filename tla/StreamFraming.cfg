CONSTANTS
  HdrSize = 2
  Lengths = {0, 3}
  MaxMessages = 2
  MaxOpens = 2
SPECIFICATION Spec
INVARIANT WholeMessages
PROPERTY AllEmitted
CHECK_DEADLOCK FALSE
