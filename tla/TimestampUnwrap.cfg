CONSTANTS
  Max = 10
  Seconds = {1, 1000}
  MaxDelay = 2
  MaxLate = 1
  MaxGap = 2
  MaxTime = 5100
SPECIFICATION TranslatorSpec
INVARIANTS WrapsCounted
CHECK_DEADLOCK FALSE
