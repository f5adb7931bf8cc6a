CONSTANTS
  Conns = {c1, c2}
  c1 = c1
  c2 = c2
  Decoders = 1
  MaxReads <- Reads
SPECIFICATION FairSpec
INVARIANT ListedIsTracked
PROPERTIES CallbacksInOrder LossReported HaltEndsOrMeetsClose
CHECK_DEADLOCK FALSE
