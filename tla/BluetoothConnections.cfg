CONSTANTS
  Device = {d1, d2}
  Bonded = {d1}
  MaxThreads = 3
  MaxMessages = 1
  d1 = d1
  d2 = d2
SPECIFICATION FairSpec
INVARIANTS
  ListenersAgree
  DeviceNotGivenUp
PROPERTIES
  CallbacksInOrder
  BreakReported
CHECK_DEADLOCK FALSE
