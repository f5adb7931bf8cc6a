CONSTANTS
    TCP = {"t1"}
    Bluetooth = {"b1"}
    LogFile = {"f1"}
    DotLog = {"f1"}
    QueueDepth = 1
    MaxMessages = 3
    Asked = {"f1"}
SPECIFICATION FairSpec
INVARIANTS RoutedInOrder NoGapWhileOpen LogHoldsRun
PROPERTIES EveryMessageHandled StatusTold
CHECK_DEADLOCK FALSE
