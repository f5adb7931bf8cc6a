CONSTANTS
  Max = 10
  Seconds = {1000}
  MaxDelay = 2
  MaxLate = 1
  MaxGap = 2
  MaxTime = 60
SPECIFICATION TranslatorSpec
PROPERTIES CountedAfterHalfPeriod
CHECK_DEADLOCK FALSE
